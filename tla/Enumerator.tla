------------------------------ MODULE Enumerator ------------------------------
(***************************************************************************)
(* DEnumerator of dfm-io: one object that lists a directory entry by entry *)
(* (hasNext), opening sub-directories at once or, with a time limit, on a  *)
(* pool thread; or asynchronously, by callbacks of GIO on the main thread. *)
(*                                                                         *)
(* A URL below the root is the sequence of names that leads to it.         *)
(***************************************************************************)
EXTENDS Naturals, FiniteSets, SequencesExt

CONSTANTS Dirs, Root,       \* the directories at and below the URL being listed
          NoDir,            \* where a file or a URL that does not exist leads
          Names,
          Content,          \* what each directory holds: name -> [kind, to], where a
                            \* directory leads to NoDir if buildUrl() refuses its name
          Shown,            \* the names that checkFilter() accepts
          Subdirectories, FollowSymlinks,   \* the iterator flags
          Timed,            \* timeout() # 0
          MaxFaults,        \* bound: calls of GIO that fail of themselves
          MaxStarts,        \* bound: calls of startAsyncIterator()
          MaxOpen           \* bound: directories open at once

Entry == {e \in [dir : Dirs, name : Names] : e.name \in DOMAIN Content[e.dir]}
At(e) == Content[e.dir][e.name]

ASSUME ContentAssumption ==
    /\ Root \in Dirs /\ NoDir \notin Dirs /\ Shown \subseteq Names
    /\ \A d \in Dirs : DOMAIN Content[d] \subseteq Names
    /\ \A e \in Entry : At(e).kind \in {"file", "dir", "link"} /\ At(e).to \in Dirs \cup {NoDir}
    /\ \A d \in Dirs \ {Root} : \E e \in Entry : At(e) = [kind |-> "dir", to |-> d]
ASSUME NamesAssumption == Names # {} /\ IsFiniteSet(Names)
ASSUME FlagsAssumption == Subdirectories \in BOOLEAN /\ FollowSymlinks \in BOOLEAN /\ Timed \in BOOLEAN
ASSUME BoundsAssumption == MaxFaults \in Nat /\ MaxStarts \in Nat /\ MaxOpen \in Nat

VARIABLES
    \* one by one
    inited,
    stackEnumerator,  \* open directories, each with the names not yet read
    at,               \* where hasNext() is: "idle", "loop", "read", "enter", "filter"
    opening,          \* init() with a time limit: "no", "starting", "waiting"
    openers,          \* pool threads that are opening a directory
    late,             \* one that opened in time has still to write its result
    cancelled,        \* the cancellable
    next,             \* the entry read last
    \* asynchronously
    async, asyncStoped, asyncOvered,
    asyncInfos,       \* the GFileInfos received, as names
    freed,            \* so many of them, from the first on, have lost their reference
    operations,       \* pending calls of GIO
    starts,
    \* history
    undefined,        \* the code has written to a dead frame or used a freed object
    returned,         \* entries hasNext() has returned, one by one
    repeated,         \* it has returned one of them twice
    exhausted,        \* the last hasNext() has returned FALSE
    taken,            \* entries handed out asynchronously
    faults, disturbed \* failures of GIO; a failure, time-out or cancellation so far

opened == <<opening, openers, late>>
outcome == <<returned, repeated, exhausted>>
syncVars == <<inited, stackEnumerator, at, opened, next, outcome>>
asyncVars == <<async, asyncStoped, asyncOvered, asyncInfos, freed, operations, starts, taken>>
failures == <<faults, disturbed>>
vars == <<syncVars, asyncVars, cancelled, undefined, failures>>

\* The client's thread is between two calls.
Idle == at = "idle" /\ opening = "no" /\ ~undefined

\* A call of GIO fails of itself, or succeeds.
Fault == faults < MaxFaults /\ faults' = faults + 1 /\ disturbed' = TRUE
NoFault == UNCHANGED failures

Init ==
    /\ inited = FALSE /\ stackEnumerator = <<>> /\ at = "idle"
    /\ opening = "no" /\ openers = {} /\ late = FALSE /\ cancelled = FALSE
    /\ next = [url |-> <<>>, entry |-> CHOOSE e \in [dir : Dirs, name : Names] : TRUE]
    /\ async = FALSE /\ asyncStoped = FALSE /\ asyncOvered = FALSE
    /\ asyncInfos = <<>> /\ freed = 0 /\ operations = {} /\ starts = 0
    /\ undefined = FALSE /\ returned = {} /\ repeated = FALSE /\ exhausted = FALSE /\ taken = <<>>
    /\ faults = 0 /\ disturbed = FALSE

-----------------------------------------------------------------------------
(* Opening a directory *)

\* The directory a URL leads to.
DirAt(url) ==
    FoldLeft(LAMBDA d, n : IF d # NoDir /\ n \in DOMAIN Content[d] THEN Content[d][n].to ELSE NoDir,
             Root, url)

\* createEnumerator(): what it pushes onto the stack.
Pushed(url) ==
    IF DirAt(url) = NoDir THEN stackEnumerator
    ELSE Append(stackEnumerator,
                [dir |-> DirAt(url), left |-> DOMAIN Content[DirAt(url)]])

\* init(url): at once, or on a pool thread that the client's thread waits for.
Open(url) ==
    /\ Len(stackEnumerator) + Cardinality(openers) < MaxOpen
    /\ IF Timed
       THEN /\ openers' = openers \cup {[url |-> url, awaited |-> TRUE]}
            /\ opening' = "starting"
            /\ NoFault /\ UNCHANGED <<stackEnumerator, cancelled, late>>
       ELSE /\ cancelled' = FALSE
            /\ \/ stackEnumerator' = Pushed(url) /\ NoFault
               \/ Fault /\ UNCHANGED stackEnumerator
            /\ UNCHANGED opened

\* The pool thread has opened the directory, or failed to, and wakes up init(),
\* which hears it if it has come to wait.  It then writes a local of init(); if
\* init() has returned, what happens next is undefined.
OpenerEnds(o) ==
    /\ ~undefined
    /\ openers' = openers \ {o}
    /\ \/ stackEnumerator' = Pushed(o.url) /\ NoFault
       \/ (Fault \/ (cancelled /\ NoFault)) /\ UNCHANGED stackEnumerator
    /\ undefined' = ~o.awaited
    /\ late' \in IF o.awaited THEN {late, TRUE} ELSE {late}
    /\ opening' = IF o.awaited /\ opening = "waiting" THEN "no" ELSE opening
    /\ cancelled' = FALSE
    /\ UNCHANGED <<inited, at, next, outcome, asyncVars>>

\* init() was awake, and has returned, before the thread came to write.
LateWrite ==
    /\ ~undefined /\ late /\ opening = "no"
    /\ undefined' = TRUE /\ late' = FALSE
    /\ UNCHANGED <<inited, stackEnumerator, at, opening, openers, next, outcome>>
    /\ UNCHANGED <<asyncVars, cancelled, failures>>

\* waitCondition.wait()
StartWaiting ==
    /\ ~undefined /\ opening = "starting"
    /\ opening' = "waiting"
    /\ UNCHANGED <<inited, stackEnumerator, at, openers, late, next, outcome>>
    /\ UNCHANGED <<asyncVars, cancelled, undefined, failures>>

\* ... gives up: the directory counts as not opened, and the thread goes on.
WaitTimeout ==
    /\ ~undefined /\ opening = "waiting"
    /\ opening' = "no"
    /\ openers' = {[o EXCEPT !.awaited = FALSE] : o \in openers}
    /\ disturbed' = TRUE
    /\ UNCHANGED <<inited, stackEnumerator, at, late, next, outcome>>
    /\ UNCHANGED <<asyncVars, cancelled, undefined, faults>>

-----------------------------------------------------------------------------
(* hasNext(), one by one *)

Unopened == UNCHANGED <<stackEnumerator, opened, failures>>

\* The call, which opens the root first if nothing has; fileCount() is a
\* sequence of such calls.
HasNext ==
    /\ Idle /\ ~async
    /\ at' = "loop" /\ inited' = TRUE /\ exhausted' = FALSE
    /\ IF inited THEN Unopened /\ UNCHANGED cancelled ELSE Open(<<>>)
    /\ UNCHANGED <<next, returned, repeated, asyncVars, undefined>>

\* initEnumerator(true), which only opens the root.
InitEnumerator ==
    /\ Idle /\ ~async /\ ~inited
    /\ inited' = TRUE
    /\ Open(<<>>)
    /\ UNCHANGED <<at, next, outcome, asyncVars, undefined>>

\* The client's thread is inside hasNext(), and init() has returned.
Inside(place) ==
    /\ at = place /\ opening = "no" /\ ~undefined
    /\ UNCHANGED <<inited, asyncVars, undefined>>

Top == Last(stackEnumerator)

\* The head of the loop: nothing is open any more ...
Exhausted ==
    /\ Inside("loop") /\ stackEnumerator = <<>>
    /\ at' = "idle" /\ exhausted' = TRUE
    /\ Unopened /\ UNCHANGED <<next, returned, repeated, cancelled>>

\* ... or the top directory is read, whatever was cancelled before.
CheckAndResetCancel ==
    /\ Inside("loop") /\ stackEnumerator # <<>>
    /\ at' = "read" /\ cancelled' = FALSE
    /\ Unopened /\ UNCHANGED <<next, outcome>>

\* An entry is a directory to hasNext(): a link, if the query follows it to one.
IsDir(e) ==
    \/ At(e).kind = "dir"
    \/ At(e).kind = "link" /\ FollowSymlinks /\ At(e).to # NoDir

\* Mutant: links are entered whether or not they are to be followed.
EnteredAlways(e) == Subdirectories /\ At(e).kind \in {"dir", "link"}

\* Does hasNext() go into the entry?
Entered(e) == Subdirectories /\ IsDir(e)

\* The open directories, with the name n taken from the top one.
AfterReading(n) == Append(Front(stackEnumerator), [Top EXCEPT !.left = @ \ {n}])

\* An entry is read: its URL is made from the URL of the root and its name.
ReadEntry ==
    /\ Inside("read") /\ ~cancelled
    /\ \E n \in Top.left :
         LET e == [dir |-> Top.dir, name |-> n] IN
         /\ next' = [url |-> <<n>>, entry |-> e]
         /\ at' = IF Entered(e) THEN "enter" ELSE "filter"
         /\ stackEnumerator' = AfterReading(n)
    /\ UNCHANGED <<opened, outcome, cancelled, failures>>

\* init(nextUrl)
EnterDirectory ==
    /\ Inside("enter")
    /\ at' = "filter"
    /\ Open(next.url) /\ UNCHANGED <<next, outcome>>

\* checkFilter(): the entry is returned, or the loop goes on.
CheckFilter ==
    /\ Inside("filter")
    /\ IF next.entry.name \in Shown
       THEN /\ at' = "idle"
            /\ returned' = returned \cup {next.entry}
            /\ repeated' = (repeated \/ next.entry \in returned)
       ELSE at' = "loop" /\ UNCHANGED <<returned, repeated>>
    /\ Unopened /\ UNCHANGED <<next, exhausted, cancelled>>

\* Mutants: every open directory is closed; the directory stays on the stack.
EndOfDirectoryCleans ==
    /\ Inside("read") /\ ~cancelled /\ Top.left = {}
    /\ at' = "loop"
    /\ stackEnumerator' = <<>>
    /\ UNCHANGED <<opened, next, outcome, cancelled, failures>>

EndOfDirectoryStays ==
    /\ Inside("read") /\ ~cancelled /\ Top.left = {}
    /\ at' = "loop"
    /\ UNCHANGED <<stackEnumerator, opened, next, outcome, cancelled, failures>>

\* The directory has been read to its end.
EndOfDirectory ==
    /\ Inside("read") /\ ~cancelled /\ Top.left = {}
    /\ at' = "loop"
    /\ stackEnumerator' = Front(stackEnumerator)
    /\ UNCHANGED <<opened, next, outcome, cancelled, failures>>

\* Reading fails: hasNext() returns TRUE with an empty URL and pops nothing.  A
\* pool thread that starts late cancels what the client's thread is reading.
ReadFails ==
    /\ Inside("read")
    /\ \/ (cancelled \/ openers # {}) /\ NoFault
       \/ Fault
    /\ at' = "idle"
    /\ UNCHANGED <<stackEnumerator, opened, next, outcome, cancelled>>

-----------------------------------------------------------------------------
(* Asynchronous listing.  Bound: it is used through the DEnumeratorFuture  *)
(* that asyncIterator() returns, before anything is listed one by one.     *)

\* asyncIterator()
AsyncIterator ==
    /\ Idle /\ ~async /\ ~inited
    /\ async' = TRUE
    /\ UNCHANGED <<syncVars, asyncStoped, asyncOvered, asyncInfos, freed, operations, starts>>
    /\ UNCHANGED <<taken, cancelled, undefined, failures>>

\* The pending calls after the cancellable, which all of them share, has been
\* cancelled and perhaps reset: each may have noticed.
MayBeCancelled(ops) == {[o EXCEPT !.shot = TRUE] : o \in ops}

StartAsyncIterator ==
    /\ Idle /\ async /\ starts < MaxStarts
    /\ starts' = starts + 1
    /\ asyncStoped' = FALSE /\ cancelled' = FALSE
    /\ operations' = MayBeCancelled(operations)
         \cup {[start |-> starts', stage |-> "open", left |-> DOMAIN Content[Root], shot |-> FALSE]}
    /\ UNCHANGED <<syncVars, async, asyncOvered, asyncInfos, freed, taken, undefined, failures>>

\* cancel(), also from another thread while hasNext() runs.
Cancel ==
    /\ ~undefined
    /\ cancelled' = TRUE /\ asyncStoped' = TRUE /\ disturbed' = TRUE
    /\ operations' = MayBeCancelled(operations)
    /\ UNCHANGED <<syncVars, async, asyncOvered, asyncInfos, freed, starts, taken, undefined, faults>>

\* Mutant: the listing is over as soon as there is something to show.
OveredWhenAny(batch) == asyncOvered' = TRUE /\ asyncInfos' = asyncInfos \o batch

\* enumUriAsyncOvered(): an empty batch ends the listing.
EnumUriAsyncOvered(batch) ==
    /\ asyncOvered' = (batch = <<>>)
    /\ asyncInfos' = asyncInfos \o batch

\* The two callbacks, on the main thread between two calls of the client.
Callback(o) ==
    /\ Idle
    /\ UNCHANGED <<syncVars, async, asyncStoped, freed, starts, taken, undefined>>

\* A callback that finds the listing stopped drops what it was given.
CallbackStopped(o) ==
    /\ asyncStoped
    /\ operations' = operations \ {o}
    /\ Callback(o) /\ NoFault
    /\ UNCHANGED <<asyncOvered, asyncInfos, cancelled>>

CallbackFails(o) ==
    /\ ~asyncStoped
    /\ Fault \/ (o.shot /\ disturbed' = TRUE /\ UNCHANGED faults)
    /\ operations' = operations \ {o}
    /\ EnumUriAsyncOvered(<<>>)
    /\ Callback(o) /\ UNCHANGED cancelled

\* The next call of GIO, after checkAndResetCancel().
NextFilesAsync(o, rest) ==
    /\ operations' = MayBeCancelled(operations \ {o})
                      \cup {[o EXCEPT !.stage = "more", !.left = rest, !.shot = FALSE]}
    /\ cancelled' = FALSE

EnumUriAsyncCallBack(o) ==
    /\ ~asyncStoped /\ o.stage = "open"
    /\ NextFilesAsync(o, o.left)
    /\ Callback(o) /\ NoFault
    /\ UNCHANGED <<asyncOvered, asyncInfos>>

\* Some more files, in any order.
MoreFilesCallback(o) ==
    /\ ~asyncStoped /\ o.stage = "more"
    /\ \E some \in (SUBSET o.left) \ {{}} : \E batch \in SetToSeqs(some) :
         /\ EnumUriAsyncOvered(batch)
         /\ NextFilesAsync(o, o.left \ some)
    /\ Callback(o) /\ NoFault

\* Mutant: the end of the listing is not announced.
MoreFilesEndSilent(o) ==
    /\ ~asyncStoped /\ o.stage = "more" /\ o.left = {}
    /\ operations' = operations \ {o}
    /\ Callback(o) /\ NoFault /\ UNCHANGED <<asyncOvered, asyncInfos, cancelled>>

\* There are no more files: asyncIteratorOver is emitted.
MoreFilesEnd(o) ==
    /\ ~asyncStoped /\ o.stage = "more" /\ o.left = {}
    /\ operations' = operations \ {o}
    /\ EnumUriAsyncOvered(<<>>)
    /\ Callback(o) /\ NoFault /\ UNCHANGED cancelled

\* hasNext(), which uses the files up to the first one that the filter accepts.
HasNextAsync ==
    /\ Idle /\ async /\ asyncOvered /\ asyncInfos # <<>>
    /\ LET shown == {i \in DOMAIN asyncInfos : asyncInfos[i] \in Shown}
           last == IF shown = {} THEN Len(asyncInfos) ELSE CHOOSE i \in shown : \A j \in shown : i <= j
       IN /\ asyncInfos' = SubSeq(asyncInfos, last + 1, Len(asyncInfos))
          /\ taken' = IF shown = {} THEN taken ELSE Append(taken, asyncInfos[last])
    /\ undefined' = (freed > 0)
    /\ UNCHANGED <<syncVars, async, asyncStoped, asyncOvered, freed, operations, starts>>
    /\ UNCHANGED <<cancelled, failures>>

\* fileInfoList(), which DEnumeratorFuture::fileCount() calls: every file loses
\* its reference and stays in the list.  (infoList, which only the caller
\* reads, is left out.)
FileInfoList ==
    /\ Idle /\ async /\ ~asyncOvered /\ asyncInfos # <<>>
    /\ undefined' = (freed > 0)
    /\ freed' = Len(asyncInfos)
    /\ UNCHANGED <<syncVars, async, asyncStoped, asyncOvered, asyncInfos, operations, starts>>
    /\ UNCHANGED <<taken, cancelled, failures>>

-----------------------------------------------------------------------------
Client == \/ HasNext \/ InitEnumerator \/ AsyncIterator \/ StartAsyncIterator \/ Cancel
          \/ HasNextAsync \/ FileInfoList
Listing == \/ StartWaiting \/ WaitTimeout \/ Exhausted \/ CheckAndResetCancel
           \/ ReadEntry \/ EnterDirectory \/ CheckFilter \/ EndOfDirectory \/ ReadFails
Callbacks == \E o \in operations : \/ CallbackStopped(o) \/ CallbackFails(o)
                                   \/ EnumUriAsyncCallBack(o)
                                   \/ MoreFilesCallback(o) \/ MoreFilesEnd(o)

Next == Client \/ Listing \/ Callbacks \/ LateWrite \/ \E o \in openers : OpenerEnds(o)

\* hasNext() runs on and its waits time out; GIO answers asynchronous calls.
\* A pool thread may hang.
Fairness == WF_vars(Listing) /\ WF_vars(Callbacks)

Spec == Init /\ [][Next]_vars /\ Fairness

-----------------------------------------------------------------------------
(* Properties *)

Handle == [dir : Dirs, left : SUBSET Names]
Operation == [start : 1..MaxStarts, stage : {"open", "more"}, left : SUBSET Names, shot : BOOLEAN]
Read == [url : Seq(Names), entry : [dir : Dirs, name : Names]]

\* Every variable stays in its domain.
TypeOK ==
    /\ inited \in BOOLEAN /\ stackEnumerator \in Seq(Handle)
    /\ at \in {"idle", "loop", "read", "enter", "filter"}
    /\ opening \in {"no", "starting", "waiting"}
    /\ openers \subseteq [url : Seq(Names), awaited : BOOLEAN] /\ late \in BOOLEAN
    /\ cancelled \in BOOLEAN /\ next \in Read
    /\ async \in BOOLEAN /\ asyncStoped \in BOOLEAN /\ asyncOvered \in BOOLEAN
    /\ asyncInfos \in Seq(Names) /\ freed \in Nat
    /\ operations \subseteq Operation /\ starts \in 0..MaxStarts
    /\ undefined \in BOOLEAN /\ returned \subseteq Entry /\ repeated \in BOOLEAN /\ exhausted \in BOOLEAN
    /\ taken \in Seq(Names) /\ faults \in 0..MaxFaults /\ disturbed \in BOOLEAN

Visited == IF Subdirectories THEN Dirs ELSE {Root}

\* The entries that stand for a directory which is to be listed as well.
Branches == {e \in Entry : Subdirectories /\ IsDir(e)}

\* What the theorems suppose of the directories.  Only those in the root are listed.
OneLevel == \A e \in Branches : e.dir = Root

\* No directory further down has the name of an entry of the root.
NamesDiffer == \A e \in Branches : e.dir # Root => e.name \notin DOMAIN Content[Root]

\* The entries lead to different directories, and none back up.
Tree ==
    \A e \in Branches :
        /\ At(e).to # Root
        /\ \A g \in Branches : At(g).to = At(e).to /\ At(e).to # NoDir => g = e

\* No entry of a directory tree is returned twice, whatever fails, times out or
\* is cancelled, and, where links are not followed, a link that leads back up
\* does not bring entries back.
ReturnedOnce == ~repeated

\* "List entries inside all subdirectories as well": when hasNext() says that
\* there is nothing more, every entry below the root that the filter accepts
\* has been returned, unless a call failed, timed out or was cancelled.
EverythingListed ==
    exhausted /\ ~disturbed =>
        returned = {e \in Entry : e.dir \in Visited /\ e.name \in Shown}

\* Until a listing is started again, failed or cancelled: isAsyncOver() means
\* that every file was received once, and no file is handed out before.
OverIsComplete ==
    starts <= 1 /\ ~disturbed =>
        /\ asyncOvered => starts = 1 /\ operations = {}
                          /\ DOMAIN Content[Root] \cap Shown
                               = Range(taken) \cup (Range(asyncInfos) \cap Shown)
                          /\ IsInjective(taken \o asyncInfos)
        /\ taken # <<>> => asyncOvered

\* A call of hasNext() returns, also when a pool thread hangs.
HasNextReturns == at # "idle" ~> at = "idle" \/ undefined

\* A listing that has been started is announced as over, unless it is cancelled.
AsyncEnds == starts > 0 /\ ~asyncStoped ~> asyncOvered \/ asyncStoped \/ undefined
=============================================================================
