--------------------------- MODULE EnumeratorProofs ---------------------------
(***************************************************************************)
(* Proofs about Enumerator, for every directory tree, every set of names   *)
(* that the filter accepts, all flags and any number of failures; and      *)
(* about SortedListing: how it compares names, how it sorts a directory,   *)
(* that the sort ends, and what a call returns.                            *)
(***************************************************************************)
EXTENDS Enumerator, SortedListing, FiniteSetTheorems, SequenceTheorems, WellFoundedInduction, TLAPS

-----------------------------------------------------------------------------
(* Where a URL leads                                                       *)

\* The code makes every URL from the root and at most one name.
Urls == {<<>>} \cup {<<n>> : n \in Names}

\* One step down.
Follow(d, n) == IF d # NoDir /\ n \in DOMAIN Content[d] THEN Content[d][n].to ELSE NoDir

LEMMA NoName == DirAt(<<>>) = Root
<1> DEFINE body(g) == [s \in SUBSET DOMAIN <<>> |->
                          IF s = {} THEN Root ELSE Follow(g[s \ {Max(s)}], <<>>[Max(s)])]
           walk == CHOOSE g : g = body(g)
           found == [s \in SUBSET {} |-> Root]
<1>1. DOMAIN <<>> = {}
  OBVIOUS
<1>2. found = body(found)
  BY <1>1
<1>3. walk = body(walk)
  BY <1>2
<1>4. walk[{}] = Root
  <2>1. {} \in SUBSET DOMAIN <<>>
    OBVIOUS
  <2> HIDE DEF walk
  <2> QED BY <1>3, <2>1
<1>5. DirAt(<<>>) = walk[DOMAIN <<>>]
  BY DEF DirAt, FoldLeft, MapThenFoldSet, Follow
<1> QED BY <1>1, <1>4, <1>5

LEMMA OneName == ASSUME NEW n \in Names PROVE DirAt(<<n>>) = Follow(Root, n)
<1> DEFINE D == DOMAIN <<n>>
           step(g, s) == IF s = {} THEN Root ELSE Follow(g[s \ {Max(s)}], <<n>>[Max(s)])
           body(g) == [s \in SUBSET D |-> step(g, s)]
           walk == CHOOSE g : g = body(g)
           found == [s \in SUBSET D |-> IF s = {} THEN Root ELSE Follow(Root, n)]
<1>1. D = {1} /\ <<n>>[1] = n /\ SUBSET {1} = {{}, {1}} /\ {1} # {}
  OBVIOUS
<1>2. Max({1}) = 1
  BY DEF Max
<1>3. {1} \ {Max({1})} = {}
  BY <1>2
<1> HIDE DEF D
<1>4. ASSUME NEW g, g[{}] = Root PROVE step(g, {}) = Root /\ step(g, {1}) = Follow(Root, n)
  <2>1. step(g, {}) = Root
    OBVIOUS
  <2>2. step(g, {1}) = Follow(g[{1} \ {Max({1})}], <<n>>[Max({1})])
    BY <1>1
  <2>3. Follow(g[{1} \ {Max({1})}], <<n>>[Max({1})]) = Follow(g[{}], <<n>>[1])
    BY <1>2, <1>3
  <2>4. Follow(g[{}], <<n>>[1]) = Follow(Root, n)
    BY <1>1, <1>4
  <2> QED BY <2>1, <2>2, <2>3, <2>4
<1> HIDE DEF step
<1>5. found[{}] = Root
  BY <1>1
<1>6. found = body(found)
  <2>1. found[{1}] = Follow(Root, n)
    BY <1>1
  <2>2. found = [s \in SUBSET D |-> found[s]]
    OBVIOUS
  <2> HIDE DEF found
  <2>3. step(found, {}) = found[{}] /\ step(found, {1}) = found[{1}]
    BY <1>4, <1>5, <2>1
  <2>4. \A s \in SUBSET D : step(found, s) = found[s]
    BY <1>1, <2>3
  <2> QED BY <2>2, <2>4
<1>7. walk = body(walk)
  <2> HIDE DEF found
  <2>1. \E g : g = body(g)
    BY <1>6
  <2> QED BY <2>1
<1> HIDE DEF walk
<1>8. walk[{}] = step(walk, {}) /\ walk[{1}] = step(walk, {1})
  BY <1>1, <1>7
<1>9. walk[{1}] = Follow(Root, n)
  <2>1. step(walk, {}) = Root
    BY DEF step
  <2> QED BY <1>4, <1>8, <2>1
<1>10. DirAt(<<n>>) = walk[D]
  BY DEF DirAt, FoldLeft, MapThenFoldSet, Follow, walk, step, D
<1> QED BY <1>1, <1>9, <1>10

\* An entry of the root, as a name.
LEMMA RootEntry ==
    /\ \A n \in Names : n \in DOMAIN Content[Root] => [dir |-> Root, name |-> n] \in Entry
    /\ \A n \in Names : DirAt(<<n>>) = IF n \in DOMAIN Content[Root]
                                       THEN At([dir |-> Root, name |-> n]).to ELSE NoDir
    /\ DirAt(<<>>) = Root /\ Root \in Dirs /\ Root # NoDir
    /\ \A url \in Urls : DirAt(url) \in Dirs \cup {NoDir}
    /\ \A d \in Dirs : DOMAIN Content[d] \subseteq Names
<1>1. Root \in Dirs /\ Root # NoDir /\ \A d \in Dirs : DOMAIN Content[d] \subseteq Names
  BY ContentAssumption
<1>2. \A n \in Names : n \in DOMAIN Content[Root] => [dir |-> Root, name |-> n] \in Entry
  BY <1>1 DEF Entry
<1>3. \A n \in Names : DirAt(<<n>>) = IF n \in DOMAIN Content[Root]
                                      THEN At([dir |-> Root, name |-> n]).to ELSE NoDir
  BY <1>1, OneName DEF Follow, At
<1>4. \A e \in Entry : At(e).to \in Dirs \cup {NoDir}
  BY ContentAssumption
<1>5. \A n \in Names : DirAt(<<n>>) \in Dirs \cup {NoDir}
  BY <1>2, <1>3, <1>4
<1> QED BY <1>1, <1>2, <1>3, <1>5, NoName DEF Urls

-----------------------------------------------------------------------------
(* The types                                                               *)

\* An open directory has names of its own left to read.
OpenDir == {h \in Handle : h.left \subseteq DOMAIN Content[h.dir]}

SyncTypes ==
    /\ inited \in BOOLEAN /\ stackEnumerator \in Seq(OpenDir)
    /\ at \in {"idle", "loop", "read", "enter", "filter"}
    /\ opening \in {"no", "starting", "waiting"}
    /\ openers \subseteq [url : Urls, awaited : BOOLEAN] /\ late \in BOOLEAN
    /\ next \in [url : Urls, entry : [dir : Dirs, name : Names]]
    /\ returned \subseteq Entry /\ repeated \in BOOLEAN /\ exhausted \in BOOLEAN

\* What hasNext() is about to return is an entry, and reading needs an open directory.
PlaceTypes ==
    /\ at \in {"enter", "filter"} => next.entry \in Entry /\ next.url = <<next.entry.name>>
    /\ at = "read" => stackEnumerator # <<>>

AsyncTypes ==
    /\ async \in BOOLEAN /\ asyncStoped \in BOOLEAN /\ asyncOvered \in BOOLEAN
    /\ asyncInfos \in Seq(Names) /\ freed \in Nat
    /\ operations \subseteq Operation /\ starts \in 0..MaxStarts /\ taken \in Seq(Names)

OtherTypes ==
    /\ cancelled \in BOOLEAN /\ undefined \in BOOLEAN
    /\ faults \in 0..MaxFaults /\ disturbed \in BOOLEAN

TInv == SyncTypes /\ PlaceTypes /\ AsyncTypes /\ OtherTypes

LEMMA TypesAreTypeOK == TInv => TypeOK
<1> SUFFICES ASSUME TInv PROVE TypeOK
  OBVIOUS
<1>1. Urls \subseteq Seq(Names)
  <2>1. <<>> \in Seq(Names) /\ \A n \in Names : <<n>> \in Seq(Names)
    OBVIOUS
  <2> QED BY <2>1 DEF Urls
<1>2. openers \subseteq [url : Seq(Names), awaited : BOOLEAN] /\ next \in Read
  BY <1>1 DEF TInv, SyncTypes, Read
<1>3. stackEnumerator \in Seq(Handle)
  BY DEF TInv, SyncTypes, OpenDir
<1> QED BY <1>2, <1>3 DEF TInv, SyncTypes, AsyncTypes, OtherTypes, TypeOK

LEMMA InitTypes == Init => TInv
<1> SUFFICES ASSUME Init PROVE TInv
  OBVIOUS
<1>1. (CHOOSE e \in [dir : Dirs, name : Names] : TRUE) \in [dir : Dirs, name : Names]
  <2>1. PICK n \in Names : TRUE
    BY NamesAssumption
  <2>2. [dir |-> Root, name |-> n] \in [dir : Dirs, name : Names]
    BY ContentAssumption
  <2> QED BY <2>2
<1>2. next \in [url : Urls, entry : [dir : Dirs, name : Names]]
  <2> DEFINE e == CHOOSE e \in [dir : Dirs, name : Names] : TRUE
  <2>1. e \in [dir : Dirs, name : Names]
    BY <1>1
  <2>2. next = [url |-> <<>>, entry |-> e] /\ <<>> \in Urls
    BY DEF Init, Urls
  <2> HIDE DEF e
  <2> QED BY <2>1, <2>2
<1>3. <<>> \in Seq(OpenDir) /\ <<>> \in Seq(Names)
  OBVIOUS
<1>4. SyncTypes
  <2>1. /\ inited = FALSE /\ stackEnumerator = <<>> /\ at = "idle" /\ opening = "no" /\ openers = {}
        /\ late = FALSE /\ returned = {} /\ repeated = FALSE /\ exhausted = FALSE
    BY DEF Init
  <2> QED BY <1>2, <1>3, <2>1 DEF SyncTypes
<1>5. PlaceTypes
  BY DEF Init, PlaceTypes
<1>6. AsyncTypes
  <2>1. /\ async = FALSE /\ asyncStoped = FALSE /\ asyncOvered = FALSE
        /\ asyncInfos = <<>> /\ freed = 0 /\ operations = {} /\ starts = 0 /\ taken = <<>>
    BY DEF Init
  <2>2. 0 \in Nat /\ 0 \in 0..MaxStarts
    BY BoundsAssumption
  <2> QED BY <1>3, <2>1, <2>2 DEF AsyncTypes
<1>7. OtherTypes
  <2>1. cancelled = FALSE /\ undefined = FALSE /\ faults = 0 /\ disturbed = FALSE
    BY DEF Init
  <2>2. 0 \in 0..MaxFaults
    BY BoundsAssumption
  <2> QED BY <2>1, <2>2 DEF OtherTypes
<1> QED BY <1>4, <1>5, <1>6, <1>7 DEF TInv

\* A call of GIO counts its failures.
LEMMA FaultTypes ==
    ASSUME TInv, Fault \/ NoFault
    PROVE  faults' \in 0..MaxFaults /\ disturbed' \in BOOLEAN
<1>1. faults \in 0..MaxFaults /\ disturbed \in BOOLEAN /\ MaxFaults \in Nat
  BY BoundsAssumption DEF TInv, OtherTypes
<1>2. CASE Fault
  BY <1>1, <1>2 DEF Fault
<1>3. CASE NoFault
  BY <1>1, <1>3 DEF NoFault, failures
<1> QED BY <1>2, <1>3

\* What createEnumerator() pushes is a directory with all its names.
LEMMA PushedTypes ==
    ASSUME TInv, NEW url \in Urls
    PROVE  /\ Pushed(url) \in Seq(OpenDir)
           /\ stackEnumerator # <<>> => Pushed(url) # <<>>
           /\ DirAt(url) \in Dirs \cup {NoDir}
           /\ DirAt(url) # NoDir => [dir |-> DirAt(url), left |-> DOMAIN Content[DirAt(url)]] \in OpenDir
<1>1. DirAt(url) \in Dirs \cup {NoDir} /\ \A d \in Dirs : DOMAIN Content[d] \subseteq Names
  BY RootEntry
<1>2. DirAt(url) # NoDir => [dir |-> DirAt(url), left |-> DOMAIN Content[DirAt(url)]] \in OpenDir
  BY <1>1 DEF Handle, OpenDir
<1>3. stackEnumerator \in Seq(OpenDir)
  BY DEF TInv, SyncTypes
<1>4. CASE DirAt(url) = NoDir
  BY <1>1, <1>3, <1>4 DEF Pushed
<1>5. CASE DirAt(url) # NoDir
  <2> DEFINE h == [dir |-> DirAt(url), left |-> DOMAIN Content[DirAt(url)]]
  <2>1. h \in OpenDir
    BY <1>2, <1>5
  <2> HIDE DEF h
  <2>2. Pushed(url) = Append(stackEnumerator, h)
    BY <1>5 DEF Pushed, h
  <2>3. Append(stackEnumerator, h) \in Seq(OpenDir) /\ Append(stackEnumerator, h) # <<>>
    <3> HIDE DEF OpenDir
    <3> QED BY <1>3, <2>1, AppendProperties
  <2> QED BY <1>1, <1>2, <2>2, <2>3
<1> QED BY <1>4, <1>5

LEMMA OpenTypes ==
    ASSUME TInv, NEW url \in Urls, Open(url)
    PROVE  /\ stackEnumerator' \in Seq(OpenDir)
           /\ opening' \in {"no", "starting", "waiting"}
           /\ openers' \subseteq [url : Urls, awaited : BOOLEAN] /\ late' \in BOOLEAN
           /\ cancelled' \in BOOLEAN /\ faults' \in 0..MaxFaults /\ disturbed' \in BOOLEAN
<1>1. stackEnumerator' = stackEnumerator \/ stackEnumerator' = Pushed(url)
  BY DEF Open
<1>2. stackEnumerator' \in Seq(OpenDir)
  BY <1>1, PushedTypes DEF TInv, SyncTypes
<1>3. [url |-> url, awaited |-> TRUE] \in [url : Urls, awaited : BOOLEAN]
  OBVIOUS
<1>4. /\ opening' \in {"no", "starting", "waiting"} /\ cancelled' \in BOOLEAN
      /\ openers' \subseteq [url : Urls, awaited : BOOLEAN] /\ late' \in BOOLEAN
  BY <1>3 DEF Open, opened, TInv, SyncTypes, OtherTypes
<1>5. Fault \/ NoFault
  BY DEF Open
<1> QED BY <1>2, <1>4, <1>5, FaultTypes

\* The stack after a name of the top directory was taken, and without that directory.
LEMMA TopTaken ==
    ASSUME TInv, stackEnumerator # <<>>
    PROVE  /\ Top \in OpenDir /\ Len(stackEnumerator) \in DOMAIN stackEnumerator
           /\ Top = stackEnumerator[Len(stackEnumerator)]
           /\ Front(stackEnumerator) \in Seq(OpenDir)
           /\ DOMAIN Front(stackEnumerator) = DOMAIN stackEnumerator \ {Len(stackEnumerator)}
           /\ \A i \in DOMAIN Front(stackEnumerator) : Front(stackEnumerator)[i] = stackEnumerator[i]
           /\ \A n : /\ AfterReading(n) \in Seq(OpenDir) /\ AfterReading(n) # <<>>
                     /\ DOMAIN AfterReading(n) = DOMAIN stackEnumerator
                     /\ \A i \in DOMAIN stackEnumerator :
                           AfterReading(n)[i] = IF i = Len(stackEnumerator)
                                                THEN [dir |-> Top.dir, left |-> Top.left \ {n}]
                                                ELSE stackEnumerator[i]
<1> DEFINE s == stackEnumerator
           k == Len(stackEnumerator)
<1>1. s \in Seq(OpenDir) /\ k \in Nat /\ k >= 1 /\ DOMAIN s = 1..k /\ k \in 1..k
  BY DEF TInv, SyncTypes
<1>2. Top = s[k] /\ Top \in OpenDir
  <2>1. Top = s[k]
    BY <1>1 DEF Last, Top
  <2> QED BY <1>1, <2>1
<1>3. /\ Front(s) \in Seq(OpenDir) /\ Len(Front(s)) = k - 1 /\ DOMAIN Front(s) = 1..(k - 1)
      /\ \A i \in 1..(k - 1) : Front(s)[i] = s[i]
  <2>1. Front(s) = SubSeq(s, 1, k - 1)
    BY DEF Front
  <2> QED BY <1>1, <2>1
<1>4. 1..(k - 1) = (1..k) \ {k}
  BY <1>1
<1>5. ASSUME NEW n
      PROVE  /\ AfterReading(n) \in Seq(OpenDir) /\ AfterReading(n) # <<>>
             /\ DOMAIN AfterReading(n) = DOMAIN s
             /\ \A i \in DOMAIN s : AfterReading(n)[i] = IF i = k
                                                         THEN [dir |-> Top.dir, left |-> Top.left \ {n}]
                                                         ELSE s[i]
  <2> DEFINE h == [dir |-> Top.dir, left |-> Top.left \ {n}]
             r == Front(s)
  <2>1. AfterReading(n) = Append(r, h) /\ h \in OpenDir
    <3>1. h \in OpenDir
      BY <1>2 DEF OpenDir, Handle
    <3>2. Top \in [dir : Dirs, left : SUBSET Names]
      BY <1>2 DEF OpenDir, Handle
    <3>3. ASSUME NEW t \in [dir : Dirs, left : SUBSET Names]
          PROVE  [t EXCEPT !.left = @ \ {n}] = [dir |-> t.dir, left |-> t.left \ {n}]
      <4> DEFINE rest == t.left \ {n}
      <4>1. rest \in SUBSET Names
        OBVIOUS
      <4> HIDE DEF rest
      <4>2. [t EXCEPT !.left = rest] = [dir |-> t.dir, left |-> rest]
        BY <4>1
      <4> QED BY <4>2 DEF rest
    <3>4. [Top EXCEPT !.left = @ \ {n}] = h
      BY <3>2, <3>3
    <3> QED BY <3>1, <3>4 DEF AfterReading
  <2>2. r \in Seq(OpenDir) /\ Len(r) = k - 1 /\ \A i \in 1..(k - 1) : r[i] = s[i]
    BY <1>3
  <2> HIDE DEF h, r, s, k
  <2>3. /\ Append(r, h) \in Seq(OpenDir) /\ DOMAIN Append(r, h) = 1..k /\ Append(r, h) # <<>>
        /\ \A i \in 1..k : Append(r, h)[i] = IF i = k THEN h ELSE s[i]
    BY <1>1, <2>1, <2>2
  <2> QED BY <1>1, <2>1, <2>3 DEF h
<1> QED BY <1>1, <1>2, <1>3, <1>4, <1>5

\* The client's calls that list one by one.
LEMMA CallTypes == ASSUME TInv, HasNext \/ InitEnumerator PROVE TInv'
<1>1. <<>> \in Urls
  BY DEF Urls
<1>2. /\ stackEnumerator' \in Seq(OpenDir)
      /\ opening' \in {"no", "starting", "waiting"}
      /\ openers' \subseteq [url : Urls, awaited : BOOLEAN] /\ late' \in BOOLEAN
      /\ cancelled' \in BOOLEAN /\ faults' \in 0..MaxFaults /\ disturbed' \in BOOLEAN
  <2>1. CASE Open(<<>>)
    BY <1>1, <2>1, OpenTypes
  <2>2. CASE Unopened /\ UNCHANGED cancelled
    BY <2>2 DEF Unopened, opened, failures, TInv, SyncTypes, OtherTypes
  <2> QED BY <2>1, <2>2 DEF HasNext, InitEnumerator
<1>3. /\ inited' = TRUE /\ at' \in {"idle", "loop"} /\ exhausted' \in BOOLEAN
      /\ UNCHANGED <<next, returned, repeated, asyncVars, undefined>>
  BY DEF HasNext, InitEnumerator, Idle, outcome, TInv, SyncTypes
<1>4. SyncTypes' /\ PlaceTypes'
  BY <1>2, <1>3 DEF TInv, SyncTypes, PlaceTypes
<1>5. AsyncTypes' /\ OtherTypes'
  BY <1>2, <1>3 DEF TInv, AsyncTypes, OtherTypes, asyncVars
<1> QED BY <1>4, <1>5 DEF TInv

\* The rest of hasNext().
LEMMA ListingTypes == ASSUME TInv, Listing PROVE TInv'
<1>1. ASSUME UNCHANGED <<asyncVars, undefined>>, SyncTypes', PlaceTypes', cancelled' \in BOOLEAN,
             faults' \in 0..MaxFaults, disturbed' \in BOOLEAN
      PROVE  TInv'
  BY <1>1 DEF TInv, AsyncTypes, OtherTypes, asyncVars
<1>2. CASE StartWaiting
  <2>1. SyncTypes' /\ PlaceTypes'
    BY <1>2 DEF StartWaiting, TInv, SyncTypes, PlaceTypes, outcome
  <2> QED BY <1>1, <1>2, <2>1 DEF StartWaiting, TInv, OtherTypes, failures
<1>3. CASE WaitTimeout
  <2>1. openers' \subseteq [url : Urls, awaited : BOOLEAN]
    <3>1. openers \subseteq [url : Urls, awaited : BOOLEAN]
      BY DEF TInv, SyncTypes
    <3>2. \A o \in openers : [o EXCEPT !.awaited = FALSE] \in [url : Urls, awaited : BOOLEAN]
      BY <3>1
    <3>3. openers' = {[o EXCEPT !.awaited = FALSE] : o \in openers}
      BY <1>3 DEF WaitTimeout
    <3> QED BY <3>2, <3>3
  <2>2. SyncTypes' /\ PlaceTypes'
    BY <1>3, <2>1 DEF WaitTimeout, TInv, SyncTypes, PlaceTypes, outcome
  <2> QED BY <1>1, <1>3, <2>2 DEF WaitTimeout, TInv, OtherTypes
<1>4. CASE Exhausted \/ CheckAndResetCancel \/ CheckFilter
  <2>1. UNCHANGED <<asyncVars, undefined, inited, stackEnumerator, opened, failures, next>>
    BY <1>4 DEF Exhausted, CheckAndResetCancel, CheckFilter, Inside, Unopened
  <2>2. at' \in {"idle", "loop", "read"} /\ (at' = "read" => stackEnumerator # <<>>)
    BY <1>4 DEF Exhausted, CheckAndResetCancel, CheckFilter
  <2>3. returned' \subseteq Entry /\ repeated' \in BOOLEAN
    <3>1. CASE Exhausted \/ CheckAndResetCancel
      BY <3>1 DEF Exhausted, CheckAndResetCancel, outcome, TInv, SyncTypes
    <3>2. CASE CheckFilter
      BY <3>2 DEF CheckFilter, Inside, TInv, SyncTypes, PlaceTypes
    <3> QED BY <1>4, <3>1, <3>2
  <2>4. exhausted' \in BOOLEAN /\ cancelled' \in BOOLEAN
    BY <1>4 DEF Exhausted, CheckAndResetCancel, CheckFilter, outcome, TInv, SyncTypes, OtherTypes
  <2>5. SyncTypes' /\ PlaceTypes'
    BY <2>1, <2>2, <2>3, <2>4 DEF TInv, SyncTypes, PlaceTypes, opened
  <2> QED BY <1>1, <2>1, <2>4, <2>5 DEF TInv, OtherTypes, failures
<1>5. CASE ReadEntry
  <2>1. PICK n \in Top.left :
           /\ next' = [url |-> <<n>>, entry |-> [dir |-> Top.dir, name |-> n]]
           /\ at' = IF Entered([dir |-> Top.dir, name |-> n]) THEN "enter" ELSE "filter"
           /\ stackEnumerator' = AfterReading(n)
    BY <1>5 DEF ReadEntry
  <2>2. Top \in OpenDir /\ AfterReading(n) \in Seq(OpenDir)
    BY <1>5, TopTaken DEF ReadEntry, Inside, TInv, PlaceTypes
  <2>3. Top.dir \in Dirs /\ n \in Names /\ n \in DOMAIN Content[Top.dir]
    BY <2>2 DEF OpenDir, Handle
  <2>4. [dir |-> Top.dir, name |-> n] \in Entry /\ <<n>> \in Urls
    BY <2>3 DEF Entry, Urls
  <2>5. /\ next' \in [url : Urls, entry : [dir : Dirs, name : Names]]
        /\ next'.entry \in Entry /\ next'.url = <<next'.entry.name>>
    BY <2>1, <2>4 DEF Entry
  <2>6. UNCHANGED <<inited, opened, outcome, asyncVars, undefined, cancelled, failures>>
    BY <1>5 DEF ReadEntry, Inside
  <2>7. SyncTypes' /\ PlaceTypes'
    BY <2>1, <2>2, <2>5, <2>6 DEF TInv, SyncTypes, PlaceTypes, opened, outcome
  <2> QED BY <1>1, <2>6, <2>7 DEF TInv, OtherTypes, failures
<1>6. CASE EnterDirectory
  <2>1. at = "enter" /\ at' = "filter" /\ Open(next.url) /\ next.url \in Urls
        /\ UNCHANGED <<inited, next, outcome, asyncVars, undefined>>
    BY <1>6 DEF EnterDirectory, Inside, TInv, SyncTypes
  <2>2. /\ stackEnumerator' \in Seq(OpenDir)
        /\ opening' \in {"no", "starting", "waiting"}
        /\ openers' \subseteq [url : Urls, awaited : BOOLEAN] /\ late' \in BOOLEAN
        /\ cancelled' \in BOOLEAN /\ faults' \in 0..MaxFaults /\ disturbed' \in BOOLEAN
    BY <2>1, OpenTypes
  <2>3. SyncTypes' /\ PlaceTypes'
    BY <2>1, <2>2 DEF TInv, SyncTypes, PlaceTypes, outcome
  <2> QED BY <1>1, <2>1, <2>2, <2>3
<1>7. CASE EndOfDirectory
  <2>1. Front(stackEnumerator) \in Seq(OpenDir)
    BY <1>7, TopTaken DEF EndOfDirectory, Inside, TInv, PlaceTypes
  <2>2. UNCHANGED <<inited, opened, next, outcome, asyncVars, undefined, cancelled, failures>>
    BY <1>7 DEF EndOfDirectory, Inside
  <2>3. SyncTypes' /\ PlaceTypes'
    BY <1>7, <2>1, <2>2 DEF EndOfDirectory, TInv, SyncTypes, PlaceTypes, opened, outcome
  <2> QED BY <1>1, <2>2, <2>3 DEF TInv, OtherTypes, failures
<1>8. CASE ReadFails
  <2>1. faults' \in 0..MaxFaults /\ disturbed' \in BOOLEAN
    BY <1>8, FaultTypes DEF ReadFails
  <2>2. SyncTypes' /\ PlaceTypes'
    BY <1>8 DEF ReadFails, Inside, TInv, SyncTypes, PlaceTypes, opened, outcome
  <2> QED BY <1>1, <1>8, <2>1, <2>2 DEF ReadFails, Inside, TInv, OtherTypes
<1> QED BY <1>2, <1>3, <1>4, <1>5, <1>6, <1>7, <1>8 DEF Listing

LEMMA OpenerTypes == ASSUME TInv, NEW o \in openers, OpenerEnds(o) PROVE TInv'
<1>1. o \in [url : Urls, awaited : BOOLEAN]
  BY DEF TInv, SyncTypes
<1>2. stackEnumerator' = stackEnumerator \/ stackEnumerator' = Pushed(o.url)
  BY DEF OpenerEnds
<1>3. stackEnumerator' \in Seq(OpenDir) /\ (stackEnumerator # <<>> => stackEnumerator' # <<>>)
  BY <1>1, <1>2, PushedTypes DEF TInv, SyncTypes
<1>4. /\ UNCHANGED <<inited, at, next, outcome, asyncVars>> /\ cancelled' = FALSE
      /\ undefined' \in BOOLEAN /\ opening' \in {"no", "starting", "waiting"}
      /\ openers' \subseteq [url : Urls, awaited : BOOLEAN] /\ late' \in BOOLEAN
  BY DEF OpenerEnds, TInv, SyncTypes
<1>5. faults' \in 0..MaxFaults /\ disturbed' \in BOOLEAN
  <2>1. Fault \/ NoFault
    BY DEF OpenerEnds
  <2> QED BY <2>1, FaultTypes
<1>6. SyncTypes' /\ PlaceTypes'
  BY <1>3, <1>4 DEF TInv, SyncTypes, PlaceTypes, outcome
<1>7. AsyncTypes' /\ OtherTypes'
  BY <1>4, <1>5 DEF TInv, AsyncTypes, OtherTypes, asyncVars
<1> QED BY <1>6, <1>7 DEF TInv

\* A sequence of all the elements of a finite set has each of them, once.
LEMMA SeqListsAll ==
    ASSUME NEW S, IsFiniteSet(S), NEW order \in SetToSeqs(S)
    PROVE  /\ order \in Seq(S) /\ Range(order) = S /\ IsInjective(order)
           /\ S # {} => order # <<>>
<1> DEFINE n == Cardinality(S)
<1>1. n \in Nat
  BY FS_CardinalityType
<1>2. order \in [1..n -> S] /\ \A i, j \in 1..n : i # j => order[i] # order[j]
  BY DEF SetToSeqs
<1>3. Cardinality(1..n) = n
  <2>1. Cardinality(1..n) = IF 1 > n THEN 0 ELSE n - 1 + 1
    <3> HIDE DEF n
    <3> QED BY <1>1, FS_Interval
  <2> QED BY <1>1, <2>1
<1>4. order \in Injection(1..n, S)
  BY <1>2 DEF Injection, IsInjective
<1>5. order \in Surjection(1..n, S)
  BY <1>3, <1>4, FS_Injection
<1>6. \A s \in S : \E i \in 1..n : order[i] = s
  BY <1>5 DEF Surjection
<1> HIDE DEF n
<1>7. order \in Seq(S) /\ DOMAIN order = 1..n
  BY <1>1, <1>2
<1>8. Range(order) = S
  BY <1>2, <1>6, <1>7 DEF Range
<1>9. IsInjective(order)
  BY <1>2, <1>7 DEF IsInjective
<1>10. S # {} => order # <<>>
  BY <1>1, <1>2, <1>6
<1> QED BY <1>7, <1>8, <1>9, <1>10

\* The operations after others may have noticed that they were cancelled.
LEMMA CancelledTypes ==
    ASSUME NEW ops, ops \subseteq Operation
    PROVE  MayBeCancelled(ops) \subseteq Operation
BY DEF MayBeCancelled, Operation

\* A batch of files is not empty, and its files are new.
LEMMA BatchTypes ==
    ASSUME NEW left, left \subseteq Names, NEW some \in (SUBSET left) \ {{}}, NEW batch \in SetToSeqs(some)
    PROVE  batch \in Seq(Names) /\ Range(batch) = some /\ IsInjective(batch) /\ batch # <<>>
<1>1. IsFiniteSet(some) /\ some # {} /\ some \subseteq Names
  <2>1. some \in SUBSET Names /\ some # {}
    OBVIOUS
  <2>2. IsFiniteSet(some)
    BY <2>1, NamesAssumption, FS_Subset
  <2> QED BY <2>1, <2>2
<1>2. batch \in Seq(some) /\ Range(batch) = some /\ IsInjective(batch) /\ batch # <<>>
  BY <1>1, SeqListsAll
<1>3. batch \in Seq(Names)
  BY <1>1, <1>2
<1> QED BY <1>2, <1>3

\* The callbacks of GIO.
LEMMA CallbackTypes == ASSUME TInv, Callbacks PROVE TInv'
<1>1. PICK o \in operations : \/ CallbackStopped(o) \/ CallbackFails(o) \/ EnumUriAsyncCallBack(o)
                              \/ MoreFilesCallback(o) \/ MoreFilesEnd(o)
  BY DEF Callbacks
<1>2. /\ o \in Operation /\ operations \subseteq Operation /\ asyncInfos \in Seq(Names)
      /\ asyncOvered \in BOOLEAN /\ cancelled \in BOOLEAN
      /\ faults \in 0..MaxFaults /\ disturbed \in BOOLEAN
  BY DEF TInv, AsyncTypes, OtherTypes
<1>3. ASSUME NEW batch \in Seq(Names), EnumUriAsyncOvered(batch)
      PROVE  asyncOvered' \in BOOLEAN /\ asyncInfos' \in Seq(Names)
  <2>1. asyncInfos \o batch \in Seq(Names)
    BY <1>2, ConcatProperties
  <2> QED BY <1>3, <2>1 DEF EnumUriAsyncOvered
<1>4. ASSUME NEW rest \in SUBSET Names, NextFilesAsync(o, rest)
      PROVE  operations' \subseteq Operation /\ cancelled' \in BOOLEAN
  <2> DEFINE more == [o EXCEPT !.stage = "more", !.left = rest, !.shot = FALSE]
  <2>1. more \in Operation
    BY <1>2 DEF Operation
  <2>2. MayBeCancelled(operations \ {o}) \subseteq Operation
    <3>1. operations \ {o} \subseteq Operation
      BY <1>2
    <3> QED BY <3>1, CancelledTypes
  <2> HIDE DEF more
  <2>3. operations' = MayBeCancelled(operations \ {o}) \cup {more} /\ cancelled' = FALSE
    BY <1>4 DEF NextFilesAsync, more
  <2> QED BY <2>1, <2>2, <2>3
<1>5. <<>> \in Seq(Names) /\ o.left \in SUBSET Names
  BY <1>2 DEF Operation
<1>6. Callback(o)
  BY <1>1 DEF CallbackStopped, CallbackFails, EnumUriAsyncCallBack, MoreFilesCallback, MoreFilesEnd
<1>7. asyncOvered' \in BOOLEAN /\ asyncInfos' \in Seq(Names)
  <2>1. CASE MoreFilesCallback(o)
    <3>1. PICK some \in (SUBSET o.left) \ {{}} : \E batch \in SetToSeqs(some) : EnumUriAsyncOvered(batch)
      BY <2>1 DEF MoreFilesCallback
    <3> PICK batch \in SetToSeqs(some) : EnumUriAsyncOvered(batch)
      BY <3>1
    <3>2. batch \in Seq(Names)
      BY <1>5, BatchTypes
    <3> QED BY <1>3, <3>2
  <2>2. CASE CallbackFails(o) \/ MoreFilesEnd(o)
    BY <1>3, <1>5, <2>2 DEF CallbackFails, MoreFilesEnd
  <2>3. CASE CallbackStopped(o) \/ EnumUriAsyncCallBack(o)
    BY <1>2, <2>3 DEF CallbackStopped, EnumUriAsyncCallBack
  <2> QED BY <1>1, <2>1, <2>2, <2>3
<1>8. operations' \subseteq Operation /\ cancelled' \in BOOLEAN
  <2>1. CASE MoreFilesCallback(o)
    <3>1. PICK some \in (SUBSET o.left) \ {{}} : NextFilesAsync(o, o.left \ some)
      BY <2>1 DEF MoreFilesCallback
    <3>2. o.left \ some \in SUBSET Names
      BY <1>5
    <3> QED BY <1>4, <3>1, <3>2
  <2>2. CASE EnumUriAsyncCallBack(o)
    BY <1>4, <1>5, <2>2 DEF EnumUriAsyncCallBack
  <2>3. CASE CallbackFails(o) \/ MoreFilesEnd(o) \/ CallbackStopped(o)
    BY <1>2, <2>3 DEF CallbackFails, MoreFilesEnd, CallbackStopped
  <2> QED BY <1>1, <2>1, <2>2, <2>3
<1>9. faults' \in 0..MaxFaults /\ disturbed' \in BOOLEAN
  <2>1. CASE CallbackFails(o)
    <3>1. Fault \/ (disturbed' = TRUE /\ UNCHANGED faults)
      BY <2>1 DEF CallbackFails
    <3> QED BY <1>2, <3>1, FaultTypes
  <2>2. CASE NoFault
    BY <2>2, FaultTypes
  <2> QED BY <1>1, <2>1, <2>2 DEF CallbackStopped, EnumUriAsyncCallBack, MoreFilesCallback, MoreFilesEnd
<1>10. UNCHANGED <<syncVars, async, asyncStoped, freed, starts, taken, undefined>>
  BY <1>6 DEF Callback
<1>11. SyncTypes' /\ PlaceTypes'
  BY <1>10 DEF TInv, SyncTypes, PlaceTypes, syncVars, opened, outcome
<1>12. AsyncTypes'
  BY <1>7, <1>8, <1>10 DEF TInv, AsyncTypes
<1>13. OtherTypes'
  BY <1>8, <1>9, <1>10 DEF TInv, OtherTypes
<1> QED BY <1>11, <1>12, <1>13 DEF TInv

\* A set of numbers has a least one.
LEMMA LeastNumber ==
    ASSUME NEW S, S \in SUBSET Nat, S # {} PROVE \E i \in S : \A j \in S : i <= j
<1> DEFINE R == OpToRel(<, Nat)
<1>1. \A i, j \in Nat : i < j => <<i, j>> \in R
  BY DEF OpToRel
<1>2. IsWellFoundedOn(R, Nat)
  BY NatLessThanWellFounded
<1> HIDE DEF R
<1>3. PICK i \in S : \A j \in S : <<j, i>> \notin R
  BY <1>2, WFMin
<1>4. \A j \in S : ~(j < i)
  BY <1>1, <1>3
<1> QED BY <1>4

\* The first file that the filter accepts, or else the last of all.
LEMMA FirstShown ==
    ASSUME NEW s \in Seq(Names), s # <<>>
    PROVE  LET shown == {i \in DOMAIN s : s[i] \in Shown}
               last == IF shown = {} THEN Len(s) ELSE CHOOSE i \in shown : \A j \in shown : i <= j
           IN  /\ last \in 1..Len(s) /\ (shown # {} => s[last] \in Names \cap Shown)
               /\ \A i \in 1..Len(s) : i < last => s[i] \notin Shown
               /\ shown = {} => \A i \in 1..Len(s) : s[i] \notin Shown
<1> DEFINE shown == {i \in DOMAIN s : s[i] \in Shown}
           least == CHOOSE i \in shown : \A j \in shown : i <= j
<1>1. Len(s) \in Nat /\ Len(s) >= 1 /\ DOMAIN s = 1..Len(s) /\ \A i \in 1..Len(s) : s[i] \in Names
  OBVIOUS
<1>2. shown \subseteq 1..Len(s) /\ \A i \in 1..Len(s) : i \in shown <=> s[i] \in Shown
  BY <1>1
<1>3. CASE shown = {}
  BY <1>1, <1>2, <1>3
<1>4. CASE shown # {}
  <2> HIDE DEF shown
  <2>1. shown \in SUBSET Nat /\ shown # {}
    BY <1>2, <1>4
  <2>2. \E i \in shown : \A j \in shown : i <= j
    BY <2>1, LeastNumber
  <2>3. least \in shown /\ \A j \in shown : least <= j
    BY <2>2
  <2> HIDE DEF least
  <2>4. /\ least \in 1..Len(s) /\ s[least] \in Names \cap Shown
        /\ \A i \in 1..Len(s) : i < least => s[i] \notin Shown
    BY <1>1, <1>2, <2>3
  <2> QED BY <1>4, <2>4 DEF least, shown
<1> QED BY <1>3, <1>4

\* The client's calls that list asynchronously.
LEMMA AsyncCallTypes ==
    ASSUME TInv, AsyncIterator \/ StartAsyncIterator \/ Cancel \/ HasNextAsync \/ FileInfoList
    PROVE  TInv'
<1>1. UNCHANGED syncVars
  BY DEF AsyncIterator, StartAsyncIterator, Cancel, HasNextAsync, FileInfoList
<1>2. SyncTypes' /\ PlaceTypes'
  BY <1>1 DEF TInv, SyncTypes, PlaceTypes, syncVars, opened, outcome
<1>3. CASE AsyncIterator
  BY <1>2, <1>3 DEF AsyncIterator, TInv, AsyncTypes, OtherTypes, failures
<1>4. CASE StartAsyncIterator
  <2>1. starts' \in 1..MaxStarts
    BY <1>4, BoundsAssumption DEF StartAsyncIterator, TInv, AsyncTypes
  <2> DEFINE first == [start |-> starts', stage |-> "open", left |-> DOMAIN Content[Root], shot |-> FALSE]
  <2>2. first \in Operation
    BY <2>1, RootEntry DEF Operation
  <2>3. MayBeCancelled(operations) \subseteq Operation
    BY CancelledTypes DEF TInv, AsyncTypes
  <2>4. operations' = MayBeCancelled(operations) \cup {first}
    BY <1>4 DEF StartAsyncIterator
  <2> HIDE DEF first
  <2>5. operations' \subseteq Operation /\ starts' \in 0..MaxStarts
    BY <2>1, <2>2, <2>3, <2>4
  <2>6. AsyncTypes'
    BY <1>4, <2>5 DEF StartAsyncIterator, TInv, AsyncTypes
  <2> QED BY <1>2, <1>4, <2>6 DEF StartAsyncIterator, TInv, OtherTypes, failures
<1>5. CASE Cancel
  <2>1. operations' \subseteq Operation
    BY <1>5, CancelledTypes DEF Cancel, TInv, AsyncTypes
  <2>2. AsyncTypes'
    BY <1>5, <2>1 DEF Cancel, TInv, AsyncTypes
  <2> QED BY <1>2, <1>5, <2>2 DEF Cancel, TInv, OtherTypes
<1>6. CASE HasNextAsync
  <2> DEFINE shown == {i \in DOMAIN asyncInfos : asyncInfos[i] \in Shown}
             last == IF shown = {} THEN Len(asyncInfos) ELSE CHOOSE i \in shown : \A j \in shown : i <= j
  <2>1. /\ asyncInfos' = SubSeq(asyncInfos, last + 1, Len(asyncInfos))
        /\ taken' = IF shown = {} THEN taken ELSE Append(taken, asyncInfos[last])
        /\ undefined' = (freed > 0)
        /\ UNCHANGED <<async, asyncStoped, asyncOvered, freed, operations, starts, cancelled, failures>>
    BY <1>6 DEF HasNextAsync
  <2>2. asyncInfos \in Seq(Names) /\ asyncInfos # <<>> /\ taken \in Seq(Names)
    BY <1>6 DEF HasNextAsync, TInv, AsyncTypes
  <2>3. last \in 1..Len(asyncInfos) /\ (shown # {} => asyncInfos[last] \in Names)
    BY <2>2, FirstShown
  <2> HIDE DEF last, shown
  <2>4. asyncInfos' \in Seq(Names) /\ taken' \in Seq(Names)
    BY <2>1, <2>2, <2>3
  <2>5. undefined' \in BOOLEAN
    BY <2>1
  <2>6. AsyncTypes'
    BY <2>1, <2>4 DEF TInv, AsyncTypes
  <2>7. OtherTypes'
    BY <2>1, <2>5 DEF TInv, OtherTypes, failures
  <2> QED BY <1>2, <2>6, <2>7 DEF TInv
<1>7. CASE FileInfoList
  <2>1. undefined' \in BOOLEAN /\ freed' \in Nat
    BY <1>7 DEF FileInfoList, TInv, AsyncTypes
  <2>2. AsyncTypes'
    BY <1>7, <2>1 DEF FileInfoList, TInv, AsyncTypes
  <2>3. OtherTypes'
    BY <1>7, <2>1 DEF FileInfoList, TInv, OtherTypes, failures
  <2> QED BY <1>2, <2>2, <2>3 DEF TInv
<1> QED BY <1>3, <1>4, <1>5, <1>6, <1>7

LEMMA LateTypes == ASSUME TInv, LateWrite PROVE TInv'
<1>1. /\ UNCHANGED <<inited, stackEnumerator, at, opening, openers, next, outcome, asyncVars, cancelled, failures>>
      /\ undefined' = TRUE /\ late' = FALSE
  BY DEF LateWrite
<1>2. SyncTypes' /\ PlaceTypes'
  BY <1>1 DEF TInv, SyncTypes, PlaceTypes, outcome
<1>3. AsyncTypes' /\ OtherTypes'
  BY <1>1 DEF TInv, AsyncTypes, OtherTypes, asyncVars, failures
<1> QED BY <1>2, <1>3 DEF TInv

LEMMA NextTypes == ASSUME TInv, [Next]_vars PROVE TInv'
<1>1. CASE Next
  BY <1>1, CallTypes, ListingTypes, OpenerTypes, LateTypes, CallbackTypes, AsyncCallTypes DEF Next, Client
<1>2. CASE UNCHANGED vars
  <2>1. UNCHANGED <<syncVars, asyncVars, cancelled, undefined, failures>>
    BY <1>2 DEF vars
  <2>2. SyncTypes' /\ PlaceTypes'
    BY <2>1 DEF TInv, SyncTypes, PlaceTypes, syncVars, opened, outcome
  <2>3. AsyncTypes' /\ OtherTypes'
    BY <2>1 DEF TInv, AsyncTypes, OtherTypes, asyncVars, failures
  <2> QED BY <2>2, <2>3 DEF TInv
<1> QED BY <1>1, <1>2

LEMMA TypesHold == Spec => []TInv
<1>1. TInv /\ [Next]_vars => TInv'
  BY NextTypes
<1> QED BY <1>1, InitTypes, PTL DEF Spec

\* Every variable of an enumerator stays in its domain.
THEOREM TypeCorrect == Spec => []TypeOK
BY TypesHold, TypesAreTypeOK, PTL

-----------------------------------------------------------------------------
(* Listing asynchronously                                                  *)

\* Two lists joined have no file twice if neither has and they share none.
LEMMA JoinInjective ==
    ASSUME NEW s \in Seq(Names), NEW t \in Seq(Names)
    PROVE  /\ IsInjective(s \o t) <=> IsInjective(s) /\ IsInjective(t) /\ Range(s) \cap Range(t) = {}
           /\ Range(s \o t) = Range(s) \cup Range(t) /\ s \o t \in Seq(Names)
<1> DEFINE u == s \o t
           m == Len(s)
           n == Len(t)
<1>1. m \in Nat /\ n \in Nat /\ DOMAIN s = 1..m /\ DOMAIN t = 1..n
  OBVIOUS
<1>2. u \in Seq(Names) /\ DOMAIN u = 1..(m + n)
  BY <1>1
<1>3. /\ \A i \in 1..m : i \in 1..(m + n) /\ u[i] = s[i]
      /\ \A j \in 1..n : m + j \in 1..(m + n) /\ u[m + j] = t[j]
      /\ \A k \in 1..(m + n) : k \in 1..m \/ (k - m \in 1..n /\ k = m + (k - m))
  BY <1>1
<1> HIDE DEF u, m, n
<1>4. Range(u) = Range(s) \cup Range(t)
  <2>1. ASSUME NEW x \in Range(u) PROVE x \in Range(s) \cup Range(t)
    <3>1. PICK k \in 1..(m + n) : x = u[k]
      BY <1>2, <2>1 DEF Range
    <3>2. CASE k \in 1..m
      BY <1>1, <1>3, <3>1, <3>2 DEF Range
    <3>3. CASE k - m \in 1..n /\ k = m + (k - m)
      <4>1. x = t[k - m]
        BY <1>3, <3>1, <3>3
      <4> QED BY <1>1, <3>3, <4>1 DEF Range
    <3> QED BY <1>3, <3>2, <3>3
  <2>2. Range(s) \subseteq Range(u)
    BY <1>1, <1>2, <1>3 DEF Range
  <2>3. Range(t) \subseteq Range(u)
    BY <1>1, <1>2, <1>3 DEF Range
  <2> QED BY <2>1, <2>2, <2>3
<1>5. ASSUME IsInjective(u) PROVE IsInjective(s) /\ IsInjective(t) /\ Range(s) \cap Range(t) = {}
  <2>1. \A i, j \in 1..(m + n) : u[i] = u[j] => i = j
    BY <1>2, <1>5 DEF IsInjective
  <2>2. IsInjective(s)
    BY <1>1, <1>3, <2>1 DEF IsInjective
  <2>3. IsInjective(t)
    <3>1. ASSUME NEW i \in 1..n, NEW j \in 1..n, t[i] = t[j] PROVE i = j
      <4>1. m + i = m + j
        BY <1>3, <2>1, <3>1
      <4> QED BY <1>1, <4>1
    <3> QED BY <1>1, <3>1 DEF IsInjective
  <2>4. Range(s) \cap Range(t) = {}
    <3>1. ASSUME NEW i \in 1..m, NEW j \in 1..n, s[i] = t[j] PROVE FALSE
      <4>1. i = m + j
        BY <1>3, <2>1, <3>1
      <4> QED BY <1>1, <4>1
    <3> QED BY <1>1, <3>1 DEF Range
  <2> QED BY <2>2, <2>3, <2>4
<1>6. ASSUME IsInjective(s), IsInjective(t), Range(s) \cap Range(t) = {} PROVE IsInjective(u)
  <2>1. /\ \A i, j \in 1..m : s[i] = s[j] => i = j
        /\ \A i, j \in 1..n : t[i] = t[j] => i = j
        /\ \A i \in 1..m, j \in 1..n : s[i] # t[j]
    BY <1>1, <1>6 DEF IsInjective, Range
  <2>2. ASSUME NEW i \in 1..(m + n), NEW j \in 1..(m + n), u[i] = u[j] PROVE i = j
    <3>1. CASE i \in 1..m /\ j \in 1..m
      BY <1>3, <2>1, <2>2, <3>1
    <3>2. CASE i \in 1..m /\ j - m \in 1..n /\ j = m + (j - m)
      <4>1. s[i] = t[j - m]
        BY <1>3, <2>2, <3>2
      <4> QED BY <2>1, <3>2, <4>1
    <3>3. CASE j \in 1..m /\ i - m \in 1..n /\ i = m + (i - m)
      <4>1. s[j] = t[i - m]
        BY <1>3, <2>2, <3>3
      <4> QED BY <2>1, <3>3, <4>1
    <3>4. CASE i - m \in 1..n /\ i = m + (i - m) /\ j - m \in 1..n /\ j = m + (j - m)
      <4>1. t[i - m] = t[j - m]
        BY <1>3, <2>2, <3>4
      <4>2. i - m = j - m
        BY <2>1, <3>4, <4>1
      <4> QED BY <3>4, <4>2
    <3> QED BY <1>3, <3>1, <3>2, <3>3, <3>4
  <2> QED BY <1>2, <2>2 DEF IsInjective
<1> QED BY <1>2, <1>4, <1>5, <1>6 DEF u

\* What hasNext() uses up moves to the list of what was handed out.
LEMMA HandedOut ==
    ASSUME NEW s \in Seq(Names), NEW t \in Seq(Names), s # <<>>, IsInjective(t \o s),
           NEW last \in 1..Len(s), NEW t2 \in Seq(Names),
           \A i \in 1..Len(s) : i < last => s[i] \notin Shown,
           \/ t2 = Append(t, s[last]) /\ s[last] \in Shown
           \/ t2 = t /\ s[last] \notin Shown
    PROVE  LET rest == SubSeq(s, last + 1, Len(s)) IN
           /\ IsInjective(t2 \o rest) /\ rest \in Seq(Names)
           /\ Range(t2) \cup (Range(rest) \cap Shown) = Range(t) \cup (Range(s) \cap Shown)
<1> DEFINE rest == SubSeq(s, last + 1, Len(s))
           n == Len(s)
<1>1. n \in Nat /\ DOMAIN s = 1..n /\ last \in 1..n /\ s[last] \in Names
  OBVIOUS
<1>2. /\ rest \in Seq(Names) /\ DOMAIN rest = 1..(n - last)
      /\ \A i \in 1..(n - last) : i + last \in 1..n /\ rest[i] = s[i + last]
  BY <1>1
<1>3. \A i \in 1..n : i < last \/ i = last \/ (i - last \in 1..(n - last) /\ i = (i - last) + last)
  BY <1>1
<1> HIDE DEF rest, n
<1>4. IsInjective(t) /\ IsInjective(s) /\ Range(t) \cap Range(s) = {}
  BY JoinInjective
<1>5. \A i, j \in 1..n : s[i] = s[j] => i = j
  BY <1>1, <1>4 DEF IsInjective
<1>6. IsInjective(rest) /\ Range(rest) \subseteq Range(s)
  <2>1. ASSUME NEW i \in 1..(n - last), NEW j \in 1..(n - last), rest[i] = rest[j] PROVE i = j
    <3>1. i + last = j + last
      BY <1>2, <1>5, <2>1
    <3> QED BY <1>1, <3>1
  <2>2. Range(rest) \subseteq Range(s)
    BY <1>1, <1>2 DEF Range
  <2> QED BY <1>2, <2>1, <2>2 DEF IsInjective
<1>7. s[last] \in Range(s) /\ s[last] \notin Range(rest)
  <2>1. ASSUME NEW i \in 1..(n - last), s[last] = rest[i] PROVE FALSE
    <3>1. last = i + last
      BY <1>1, <1>2, <1>5, <2>1
    <3> QED BY <1>1, <3>1
  <2> QED BY <1>1, <1>2, <2>1 DEF Range
<1>8. Range(s) \cap Shown = (Range(rest) \cup {s[last]}) \cap Shown
  <2>1. ASSUME NEW i \in 1..n, s[i] \in Shown PROVE s[i] \in Range(rest) \cup {s[last]}
    <3>1. CASE i = last
      BY <3>1
    <3>2. CASE i - last \in 1..(n - last) /\ i = (i - last) + last
      <4>1. s[i] = rest[i - last]
        BY <1>2, <3>2
      <4> QED BY <1>2, <3>2, <4>1 DEF Range
    <3>3. CASE i < last
      BY <2>1, <3>3 DEF n
    <3> QED BY <1>3, <3>1, <3>2, <3>3
  <2> QED BY <1>1, <1>6, <1>7, <2>1 DEF Range
<1>9. CASE t2 = t /\ s[last] \notin Shown
  <2>1. IsInjective(t2 \o rest)
    BY <1>2, <1>4, <1>6, <1>9, JoinInjective
  <2> QED BY <1>2, <1>8, <1>9, <2>1 DEF rest, n
<1>10. CASE t2 = Append(t, s[last]) /\ s[last] \in Shown
  <2> DEFINE one == <<s[last]>>
  <2>1. one \in Seq(Names) /\ IsInjective(one) /\ Range(one) = {s[last]}
    BY <1>1 DEF IsInjective, Range
  <2>2. t2 = t \o one
    BY <1>1, <1>10
  <2> HIDE DEF one
  <2>3. Range(t) \cap Range(one) = {}
    BY <1>4, <1>7, <2>1
  <2>4. IsInjective(t2) /\ Range(t2) = Range(t) \cup {s[last]}
    BY <1>4, <2>1, <2>2, <2>3, JoinInjective
  <2>5. Range(t2) \cap Range(rest) = {}
    BY <1>4, <1>6, <1>7, <2>4
  <2>6. IsInjective(t2 \o rest)
    BY <1>2, <1>6, <2>4, <2>5, JoinInjective
  <2> QED BY <1>2, <1>8, <1>10, <2>4, <2>6 DEF rest, n
<1> QED BY <1>9, <1>10

\* What a listing that is over has brought.
Received ==
    /\ starts = 1 /\ operations = {}
    /\ DOMAIN Content[Root] \cap Shown = Range(taken) \cup (Range(asyncInfos) \cap Shown)
    /\ IsInjective(taken \o asyncInfos)

\* The files are those received and those that the only call of GIO still has.
Receiving ==
    /\ taken = <<>> /\ IsInjective(asyncInfos)
    /\ \E o \in operations :
         /\ operations = {o} /\ Range(asyncInfos) \cap o.left = {}
         /\ Range(asyncInfos) \cup o.left = DOMAIN Content[Root]

AsyncInv ==
    starts <= 1 /\ ~disturbed =>
        /\ ~asyncStoped
        /\ starts = 0 => operations = {} /\ asyncInfos = <<>> /\ taken = <<>> /\ ~asyncOvered
        /\ starts = 1 /\ ~asyncOvered => Receiving
        /\ asyncOvered => Received

LEMMA AsyncInvIsComplete == TInv /\ AsyncInv => OverIsComplete
<1> SUFFICES ASSUME TInv, AsyncInv, starts <= 1, ~disturbed
             PROVE  (asyncOvered => Received) /\ (taken # <<>> => asyncOvered)
  BY DEF OverIsComplete, Received
<1>1. starts \in {0, 1}
  BY BoundsAssumption DEF TInv, AsyncTypes
<1> QED BY <1>1 DEF AsyncInv, Receiving

LEMMA InitAsync == Init => AsyncInv
BY DEF Init, AsyncInv

\* Steps that leave the asynchronous listing alone.
LEMMA AsyncUnchanged ==
    ASSUME TInv, AsyncInv, asyncVars' = asyncVars, disturbed' = disturbed \/ disturbed' = TRUE
    PROVE  AsyncInv'
BY DEF AsyncInv, Receiving, Received, asyncVars

\* One callback.
LEMMA CallbackAsync == ASSUME TInv, AsyncInv, Callbacks PROVE AsyncInv'
<1>1. PICK o \in operations : \/ CallbackStopped(o) \/ CallbackFails(o) \/ EnumUriAsyncCallBack(o)
                              \/ MoreFilesCallback(o) \/ MoreFilesEnd(o)
  BY DEF Callbacks
<1>2. SUFFICES ASSUME starts' <= 1, ~disturbed' PROVE AsyncInv'
  BY DEF AsyncInv
<1>3. Callback(o)
  BY <1>1 DEF CallbackStopped, CallbackFails, EnumUriAsyncCallBack, MoreFilesCallback, MoreFilesEnd
<1>4. UNCHANGED <<asyncStoped, starts, taken>>
  BY <1>3 DEF Callback
<1>5. ~CallbackFails(o)
  BY <1>2 DEF CallbackFails, Fault
<1>6. disturbed' = disturbed
  BY <1>1, <1>5 DEF CallbackStopped, EnumUriAsyncCallBack, MoreFilesCallback, MoreFilesEnd, NoFault, failures
<1>7. /\ ~asyncStoped /\ starts = 1 /\ ~asyncOvered /\ taken = <<>> /\ IsInjective(asyncInfos)
      /\ operations = {o} /\ Range(asyncInfos) \cap o.left = {}
      /\ Range(asyncInfos) \cup o.left = DOMAIN Content[Root]
  <2>1. starts <= 1 /\ ~disturbed /\ operations # {}
    BY <1>2, <1>4, <1>6
  <2>2. starts \in {0, 1} /\ asyncOvered \in BOOLEAN
    BY <2>1, BoundsAssumption DEF TInv, AsyncTypes
  <2>3. ~asyncStoped /\ starts = 1 /\ ~asyncOvered
    BY <2>1, <2>2 DEF AsyncInv, Received
  <2>4. Receiving
    BY <2>1, <2>3 DEF AsyncInv
  <2> QED BY <2>3, <2>4 DEF Receiving
<1>8. o \in Operation /\ asyncInfos \in Seq(Names)
  BY DEF TInv, AsyncTypes
<1>9. ASSUME NEW rest, NextFilesAsync(o, rest)
      PROVE  \E p : operations' = {p} /\ p.left = rest
  <2> DEFINE p == [o EXCEPT !.stage = "more", !.left = rest, !.shot = FALSE]
  <2>1. operations' = {p}
    BY <1>7, <1>9 DEF NextFilesAsync, MayBeCancelled
  <2>2. p.left = rest
    BY <1>8 DEF Operation
  <2> QED BY <2>1, <2>2
<1>10. CASE CallbackStopped(o)
  BY <1>7, <1>10 DEF CallbackStopped
<1>11. CASE EnumUriAsyncCallBack(o)
  <2>1. PICK p : operations' = {p} /\ p.left = o.left
    BY <1>9, <1>11 DEF EnumUriAsyncCallBack
  <2>2. Receiving' /\ ~asyncOvered'
    BY <1>4, <1>7, <1>11, <2>1 DEF EnumUriAsyncCallBack, Receiving
  <2> QED BY <1>4, <1>7, <2>2 DEF AsyncInv
<1>12. CASE MoreFilesCallback(o)
  <2>1. PICK some \in (SUBSET o.left) \ {{}} : \E batch \in SetToSeqs(some) :
           EnumUriAsyncOvered(batch) /\ NextFilesAsync(o, o.left \ some)
    BY <1>12 DEF MoreFilesCallback
  <2> PICK batch \in SetToSeqs(some) : EnumUriAsyncOvered(batch)
    BY <2>1
  <2>2. o.left \subseteq Names
    BY <1>8 DEF Operation
  <2>3. batch \in Seq(Names) /\ Range(batch) = some /\ IsInjective(batch) /\ batch # <<>>
    BY <2>2, BatchTypes
  <2>4. asyncInfos' = asyncInfos \o batch /\ ~asyncOvered'
    BY <2>3 DEF EnumUriAsyncOvered
  <2>5. Range(asyncInfos') = Range(asyncInfos) \cup some /\ IsInjective(asyncInfos')
    <3>1. Range(asyncInfos) \cap Range(batch) = {}
      BY <1>7, <2>3
    <3> QED BY <1>7, <1>8, <2>3, <2>4, <3>1, JoinInjective
  <2>6. PICK p : operations' = {p} /\ p.left = o.left \ some
    BY <1>9, <2>1
  <2>7. /\ Range(asyncInfos') \cap p.left = {}
        /\ Range(asyncInfos') \cup p.left = DOMAIN Content[Root]
    BY <1>7, <2>5, <2>6
  <2>8. Receiving'
    BY <1>4, <1>7, <2>5, <2>6, <2>7 DEF Receiving
  <2> QED BY <1>4, <1>7, <2>4, <2>8 DEF AsyncInv
<1>13. CASE MoreFilesEnd(o)
  <2>1. asyncInfos' = asyncInfos \o <<>> /\ asyncOvered' = TRUE /\ operations' = {} /\ o.left = {}
    BY <1>7, <1>13 DEF MoreFilesEnd, EnumUriAsyncOvered
  <2>2. asyncInfos' = asyncInfos /\ <<>> \o asyncInfos = asyncInfos /\ Range(<<>>) = {}
    BY <1>8, <2>1 DEF Range
  <2>3. taken' = <<>> /\ starts' = 1
    BY <1>4, <1>7
  <2>4. Received'
    BY <1>7, <2>1, <2>2, <2>3 DEF Received
  <2> QED BY <1>4, <1>7, <2>1, <2>4 DEF AsyncInv
<1> QED BY <1>1, <1>5, <1>10, <1>11, <1>12, <1>13

\* One call of the client.
LEMMA AsyncCallAsync ==
    ASSUME TInv, AsyncInv, AsyncIterator \/ StartAsyncIterator \/ Cancel \/ HasNextAsync \/ FileInfoList
    PROVE  AsyncInv'
<1>1. CASE AsyncIterator \/ FileInfoList
  BY <1>1 DEF AsyncIterator, FileInfoList, AsyncInv, Receiving, Received, failures
<1>2. CASE Cancel
  BY <1>2 DEF Cancel, AsyncInv
<1>3. CASE StartAsyncIterator
  <2>1. SUFFICES ASSUME starts' <= 1, ~disturbed' PROVE AsyncInv'
    BY DEF AsyncInv
  <2>2. starts = 0 /\ starts' = 1 /\ ~disturbed
    BY <1>3, <2>1, BoundsAssumption DEF StartAsyncIterator, TInv, AsyncTypes, failures
  <2>3. operations = {} /\ asyncInfos = <<>> /\ taken = <<>> /\ ~asyncOvered
    BY <2>2 DEF AsyncInv
  <2> DEFINE first == [start |-> starts', stage |-> "open", left |-> DOMAIN Content[Root], shot |-> FALSE]
  <2>4. operations' = {first} /\ UNCHANGED <<asyncInfos, taken, asyncOvered>> /\ asyncStoped' = FALSE
    BY <1>3, <2>3 DEF StartAsyncIterator, MayBeCancelled
  <2>5. first.left = DOMAIN Content[Root] /\ Range(<<>>) = {} /\ IsInjective(<<>>)
    BY DEF Range, IsInjective
  <2> HIDE DEF first
  <2>6. Receiving'
    BY <2>3, <2>4, <2>5 DEF Receiving
  <2> QED BY <2>2, <2>3, <2>4, <2>6 DEF AsyncInv
<1>4. CASE HasNextAsync
  <2>1. SUFFICES ASSUME starts' <= 1, ~disturbed' PROVE AsyncInv'
    BY DEF AsyncInv
  <2>2. UNCHANGED <<asyncStoped, asyncOvered, starts, operations, disturbed>> /\ asyncOvered
    BY <1>4 DEF HasNextAsync, failures
  <2>3. ~asyncStoped /\ Received
    BY <2>1, <2>2 DEF AsyncInv
  <2> DEFINE shown == {i \in DOMAIN asyncInfos : asyncInfos[i] \in Shown}
             last == IF shown = {} THEN Len(asyncInfos) ELSE CHOOSE i \in shown : \A j \in shown : i <= j
  <2>4. /\ asyncInfos' = SubSeq(asyncInfos, last + 1, Len(asyncInfos))
        /\ taken' = IF shown = {} THEN taken ELSE Append(taken, asyncInfos[last])
    BY <1>4 DEF HasNextAsync
  <2>5. asyncInfos \in Seq(Names) /\ asyncInfos # <<>> /\ taken \in Seq(Names)
    BY <1>4 DEF HasNextAsync, TInv, AsyncTypes
  <2>6. /\ last \in 1..Len(asyncInfos) /\ (shown # {} => asyncInfos[last] \in Names \cap Shown)
        /\ \A i \in 1..Len(asyncInfos) : i < last => asyncInfos[i] \notin Shown
        /\ shown = {} => \A i \in 1..Len(asyncInfos) : asyncInfos[i] \notin Shown
    BY <2>5, FirstShown
  <2> HIDE DEF last, shown
  <2>7. /\ taken' \in Seq(Names)
        /\ \/ taken' = Append(taken, asyncInfos[last]) /\ asyncInfos[last] \in Shown
           \/ taken' = taken /\ asyncInfos[last] \notin Shown
    BY <2>4, <2>5, <2>6
  <2>8. IsInjective(taken \o asyncInfos)
    BY <2>3 DEF Received
  <2>9. /\ IsInjective(taken' \o asyncInfos')
        /\ Range(taken') \cup (Range(asyncInfos') \cap Shown)
             = Range(taken) \cup (Range(asyncInfos) \cap Shown)
    BY <2>4, <2>5, <2>6, <2>7, <2>8, HandedOut
  <2>10. Received'
    BY <2>2, <2>3, <2>9 DEF Received
  <2> QED BY <2>2, <2>3, <2>10 DEF AsyncInv, Received
<1> QED BY <1>1, <1>2, <1>3, <1>4

LEMMA NextAsync == ASSUME TInv, AsyncInv, [Next]_vars PROVE AsyncInv'
<1>1. ASSUME Listing \/ HasNext \/ InitEnumerator \/ LateWrite \/ \E o \in openers : OpenerEnds(o)
      PROVE  asyncVars' = asyncVars /\ (disturbed' = disturbed \/ disturbed' = TRUE)
  <2>1. CASE HasNext \/ InitEnumerator
    BY <2>1 DEF HasNext, InitEnumerator, Open, Unopened, Fault, NoFault, failures
  <2>2. CASE StartWaiting \/ WaitTimeout
    BY <2>2 DEF StartWaiting, WaitTimeout, failures
  <2>3. CASE Exhausted \/ CheckAndResetCancel \/ ReadEntry \/ CheckFilter \/ EndOfDirectory
    BY <2>3 DEF Exhausted, CheckAndResetCancel, ReadEntry, CheckFilter, EndOfDirectory, Inside,
                Unopened, failures
  <2>4. CASE EnterDirectory
    BY <2>4 DEF EnterDirectory, Inside, Open, Fault, NoFault, failures
  <2>5. CASE ReadFails
    BY <2>5 DEF ReadFails, Inside, Fault, NoFault, failures
  <2>6. CASE \E o \in openers : OpenerEnds(o)
    BY <2>6 DEF OpenerEnds, Fault, NoFault, failures
  <2>7. CASE LateWrite
    BY <2>7 DEF LateWrite, failures
  <2> QED BY <1>1, <2>1, <2>2, <2>3, <2>4, <2>5, <2>6, <2>7 DEF Listing
<1>2. CASE Listing \/ HasNext \/ InitEnumerator \/ LateWrite \/ \E o \in openers : OpenerEnds(o)
  BY <1>1, <1>2, AsyncUnchanged
<1>3. CASE Callbacks
  BY <1>3, CallbackAsync
<1>4. CASE AsyncIterator \/ StartAsyncIterator \/ Cancel \/ HasNextAsync \/ FileInfoList
  BY <1>4, AsyncCallAsync
<1>5. CASE UNCHANGED vars
  BY <1>5, AsyncUnchanged DEF vars, failures
<1> QED BY <1>2, <1>3, <1>4, <1>5 DEF Next, Client

\* Until it is started again, fails or is cancelled, an asynchronous listing of
\* any directory is over only when every file has been received, once, and none
\* is handed out before.
THEOREM OverMeansComplete == Spec => []OverIsComplete
<1>1. TInv /\ AsyncInv /\ [Next]_vars => AsyncInv'
  BY NextAsync
<1>2. Spec => []AsyncInv
  BY <1>1, TypesHold, InitAsync, PTL DEF Spec
<1> QED BY <1>2, TypesHold, AsyncInvIsComplete, PTL

-----------------------------------------------------------------------------
(* What is still unread, and which directories are still ahead             *)

\* The directory that the code opens for an entry.
Leads(e) == DirAt(<<e.name>>)

UnreadIn(s) == {e \in Entry : \E i \in DOMAIN s : s[i].dir = e.dir /\ e.name \in s[i].left}
DirsIn(s) == {s[i].dir : i \in DOMAIN s}
Distinct(s) == \A i, j \in DOMAIN s : s[i].dir = s[j].dir => i = j

Unread == UnreadIn(stackEnumerator)

\* The entry that hasNext() has read and not yet returned or passed over.
Current == IF at \in {"enter", "filter"} THEN {next.entry} ELSE {}

Awaited(d) == \E o \in openers : o.awaited /\ DirAt(o.url) = d

\* The directories that the entries read so far, or not read yet, lead to.
Ahead == {d \in Dirs : \/ d = Root /\ ~inited
                       \/ \E e \in Unread : Entered(e) /\ Leads(e) = d
                       \/ at = "enter" /\ Leads(next.entry) = d
                       \/ Awaited(d)}

LEMMA UnreadPushed ==
    ASSUME NEW s \in Seq(OpenDir), NEW d \in Dirs
    PROVE  LET t == Append(s, [dir |-> d, left |-> DOMAIN Content[d]]) IN
           /\ \A e \in Entry : e \in UnreadIn(t) <=> e \in UnreadIn(s) \/ e.dir = d
           /\ DirsIn(t) = DirsIn(s) \cup {d}
           /\ d \notin DirsIn(s) /\ Distinct(s) => Distinct(t)
<1> DEFINE h == [dir |-> d, left |-> DOMAIN Content[d]]
           t == Append(s, h)
           k == Len(s)
<1>1. h \in OpenDir /\ h.dir = d /\ h.left = DOMAIN Content[d]
  BY RootEntry DEF OpenDir, Handle
<1> HIDE DEF h
<1>2. k \in Nat /\ DOMAIN s = 1..k
  OBVIOUS
<1>3. /\ DOMAIN t = 1..(k + 1) /\ t[k + 1] = h /\ \A i \in 1..k : t[i] = s[i]
      /\ \A i \in 1..(k + 1) : i \in 1..k \/ i = k + 1
      /\ \A i \in 1..k : i \in 1..(k + 1) /\ k + 1 \in 1..(k + 1)
  <2> HIDE DEF OpenDir
  <2> QED BY <1>1, <1>2
<1> HIDE DEF t, k
<1>4. ASSUME NEW e \in Entry PROVE e \in UnreadIn(t) <=> e \in UnreadIn(s) \/ e.dir = d
  <2>1. e.name \in DOMAIN Content[e.dir]
    BY DEF Entry
  <2>2. ASSUME e \in UnreadIn(t) PROVE e \in UnreadIn(s) \/ e.dir = d
    <3>1. PICK i \in 1..(k + 1) : t[i].dir = e.dir /\ e.name \in t[i].left
      BY <1>3, <2>2 DEF UnreadIn
    <3>2. CASE i = k + 1
      BY <1>1, <1>3, <3>1, <3>2
    <3>3. CASE i \in 1..k
      BY <1>2, <1>3, <3>1, <3>3 DEF UnreadIn
    <3> QED BY <1>3, <3>2, <3>3
  <2>3. ASSUME e \in UnreadIn(s) PROVE e \in UnreadIn(t)
    BY <1>2, <1>3, <2>3 DEF UnreadIn
  <2>4. ASSUME e.dir = d PROVE e \in UnreadIn(t)
    <3>1. k + 1 \in DOMAIN t /\ t[k + 1].dir = e.dir /\ e.name \in t[k + 1].left
      BY <1>1, <1>2, <1>3, <2>1, <2>4
    <3> QED BY <3>1 DEF UnreadIn
  <2> QED BY <2>2, <2>3, <2>4
<1>5. DirsIn(t) = DirsIn(s) \cup {d}
  <2>1. ASSUME NEW x \in DirsIn(t) PROVE x \in DirsIn(s) \cup {d}
    BY <1>1, <1>2, <1>3, <2>1 DEF DirsIn
  <2>2. d \in DirsIn(t)
    <3>1. k + 1 \in DOMAIN t /\ t[k + 1].dir = d
      BY <1>1, <1>2, <1>3
    <3> QED BY <3>1 DEF DirsIn
  <2>3. DirsIn(s) \subseteq DirsIn(t)
    BY <1>2, <1>3 DEF DirsIn
  <2> QED BY <2>1, <2>2, <2>3
<1>6. ASSUME d \notin DirsIn(s), Distinct(s) PROVE Distinct(t)
  <2>1. \A i \in 1..k : t[i].dir # d
    BY <1>2, <1>3, <1>6 DEF DirsIn
  <2>2. \A i, j \in 1..k : t[i].dir = t[j].dir => i = j
    BY <1>2, <1>3, <1>6 DEF Distinct
  <2>3. t[k + 1].dir = d
    BY <1>1, <1>3
  <2>4. \A i, j \in 1..(k + 1) : t[i].dir = t[j].dir => i = j
    BY <1>3, <2>1, <2>2, <2>3
  <2> QED BY <1>3, <2>4 DEF Distinct
<1> QED BY <1>4, <1>5, <1>6 DEF t, h

LEMMA UnreadTaken ==
    ASSUME TInv, stackEnumerator # <<>>, NEW n \in Top.left
    PROVE  LET e == [dir |-> Top.dir, name |-> n]
               t == AfterReading(n)
           IN  /\ e \in Unread /\ e.dir \in DirsIn(stackEnumerator)
               /\ UnreadIn(t) \subseteq Unread /\ Unread \subseteq UnreadIn(t) \cup {e}
               /\ DirsIn(t) = DirsIn(stackEnumerator)
               /\ Distinct(stackEnumerator) => Distinct(t) /\ e \notin UnreadIn(t)
<1> DEFINE s == stackEnumerator
           e == [dir |-> Top.dir, name |-> n]
           t == AfterReading(n)
           k == Len(stackEnumerator)
<1>1. /\ Top \in OpenDir /\ k \in DOMAIN s /\ Top = s[k] /\ DOMAIN t = DOMAIN s
      /\ \A i \in DOMAIN s :
           t[i] = IF i = k THEN [dir |-> Top.dir, left |-> Top.left \ {n}] ELSE s[i]
  BY TopTaken
<1> HIDE DEF t, s, k
<1>2. /\ Top.dir \in Dirs /\ n \in DOMAIN Content[Top.dir] /\ n \in Names
      /\ \A i \in DOMAIN s : t[i].dir = s[i].dir
      /\ \A i \in DOMAIN s : t[i].left = IF i = k THEN s[i].left \ {n} ELSE s[i].left
  <2>1. Top.dir \in Dirs /\ n \in DOMAIN Content[Top.dir] /\ n \in Names
    BY <1>1 DEF OpenDir, Handle
  <2>2. t[k].dir = s[k].dir /\ t[k].left = s[k].left \ {n}
    BY <1>1
  <2>3. \A i \in DOMAIN s : i # k => t[i] = s[i]
    BY <1>1
  <2> QED BY <2>1, <2>2, <2>3
<1>3. e \in Entry /\ e.dir = s[k].dir /\ e.name = n /\ n \in s[k].left
  BY <1>1, <1>2 DEF Entry
<1> HIDE DEF e
<1>4. e \in UnreadIn(s) /\ e.dir \in DirsIn(s)
  BY <1>1, <1>3 DEF UnreadIn, DirsIn
<1>5. UnreadIn(t) \subseteq UnreadIn(s)
  BY <1>1, <1>2 DEF UnreadIn
<1>6. ASSUME NEW g \in UnreadIn(s), g # e PROVE g \in UnreadIn(t)
  <2>1. PICK i \in DOMAIN s : s[i].dir = g.dir /\ g.name \in s[i].left
    BY DEF UnreadIn
  <2>2. i = k => g.name # n
    <3>1. \A x, y \in Entry : x.dir = y.dir /\ x.name = y.name => x = y
      BY DEF Entry
    <3>2. g \in Entry
      BY DEF UnreadIn
    <3> QED BY <1>3, <1>6, <2>1, <3>1, <3>2
  <2>3. g.name \in t[i].left /\ t[i].dir = g.dir
    BY <1>2, <2>1, <2>2
  <2> QED BY <1>1, <2>1, <2>3 DEF UnreadIn
<1>7. DirsIn(t) = DirsIn(s)
  BY <1>1, <1>2 DEF DirsIn
<1>8. ASSUME Distinct(s) PROVE Distinct(t) /\ e \notin UnreadIn(t)
  <2>1. Distinct(t)
    BY <1>1, <1>2, <1>8 DEF Distinct
  <2>2. ASSUME NEW i \in DOMAIN t, t[i].dir = e.dir, e.name \in t[i].left PROVE FALSE
    <3>1. i = k
      BY <1>1, <1>2, <1>3, <1>8, <2>2 DEF Distinct
    <3> QED BY <1>1, <1>2, <1>3, <2>2, <3>1
  <2> QED BY <2>1, <2>2 DEF UnreadIn
<1> QED BY <1>4, <1>5, <1>6, <1>7, <1>8 DEF Unread, e, t, s

LEMMA UnreadPopped ==
    ASSUME TInv, stackEnumerator # <<>>, Top.left = {}
    PROVE  LET t == Front(stackEnumerator) IN
           /\ UnreadIn(t) = Unread /\ DirsIn(t) \subseteq DirsIn(stackEnumerator)
           /\ Distinct(stackEnumerator) => Distinct(t)
<1> DEFINE s == stackEnumerator
           t == Front(stackEnumerator)
           k == Len(stackEnumerator)
<1>1. /\ k \in DOMAIN s /\ s[k].left = {} /\ DOMAIN t = DOMAIN s \ {k}
      /\ \A i \in DOMAIN t : t[i] = s[i]
  BY TopTaken
<1> HIDE DEF t, s, k
<1>2. UnreadIn(t) = UnreadIn(s)
  <2>1. ASSUME NEW e \in Entry, NEW i \in DOMAIN s, s[i].dir = e.dir, e.name \in s[i].left
        PROVE  i \in DOMAIN t /\ t[i].dir = e.dir /\ e.name \in t[i].left
    BY <1>1, <2>1
  <2>2. ASSUME NEW e \in Entry, NEW i \in DOMAIN t, t[i].dir = e.dir, e.name \in t[i].left
        PROVE  i \in DOMAIN s /\ s[i].dir = e.dir /\ e.name \in s[i].left
    BY <1>1, <2>2
  <2> QED BY <2>1, <2>2 DEF UnreadIn
<1>3. DirsIn(t) \subseteq DirsIn(s)
  BY <1>1 DEF DirsIn
<1>4. Distinct(s) => Distinct(t)
  BY <1>1 DEF Distinct
<1> QED BY <1>2, <1>3, <1>4 DEF Unread, s, t

-----------------------------------------------------------------------------
(* Where a call of hasNext() stands                                        *)

\* init() that is still awaited opens the root first of all, or else the entry read last.
Waited(o) ==
    /\ opening # "no"
    /\ \/ o.url = <<>> /\ at \in {"idle", "loop"} /\ stackEnumerator = <<>> /\ returned = {}
       \/ o.url = next.url /\ at = "filter" /\ Entered(next.entry)

CallInv ==
    ~undefined =>
        /\ ~inited => /\ stackEnumerator = <<>> /\ openers = {} /\ returned = {} /\ at = "idle"
                      /\ opening = "no" /\ ~exhausted
        /\ \A o \in openers : o.awaited => Waited(o)
        /\ at = "enter" => Entered(next.entry)
        /\ exhausted => at = "idle"
        /\ ~disturbed => ~cancelled

LEMMA InitCall == Init => CallInv
BY DEF Init, CallInv

\* Opening a directory, when nothing is awaited.
LEMMA OpenCall ==
    ASSUME TInv, CallInv, ~undefined, opening = "no", NEW url \in Urls, Open(url)
    PROVE  /\ disturbed => disturbed'
           /\ ~disturbed' => ~cancelled'
           /\ \A o \in openers' : o.awaited => o.url = url /\ opening' # "no"
           /\ \/ /\ Timed /\ openers' = openers \cup {[url |-> url, awaited |-> TRUE]}
                 /\ stackEnumerator' = stackEnumerator
              \/ openers' = openers /\ stackEnumerator' = Pushed(url)
              \/ openers' = openers /\ stackEnumerator' = stackEnumerator /\ disturbed'
<1>1. \A o \in openers : ~o.awaited
  BY DEF CallInv, Waited
<1>2. disturbed => disturbed'
  BY DEF Open, Fault, NoFault, failures
<1>3. ~disturbed => ~cancelled
  BY DEF CallInv
<1>4. CASE Timed
  <2>1. /\ openers' = openers \cup {[url |-> url, awaited |-> TRUE]} /\ opening' = "starting"
        /\ UNCHANGED <<stackEnumerator, cancelled, disturbed>>
    BY <1>4 DEF Open, NoFault, failures
  <2> QED BY <1>1, <1>2, <1>3, <1>4, <2>1
<1>5. CASE ~Timed
  <2>1. /\ openers' = openers /\ cancelled' = FALSE
        /\ stackEnumerator' = Pushed(url) \/ (disturbed' /\ stackEnumerator' = stackEnumerator)
    BY <1>5 DEF Open, opened, Fault
  <2> QED BY <1>1, <1>2, <2>1
<1> QED BY <1>4, <1>5

LEMMA CallsCall == ASSUME TInv, CallInv, HasNext \/ InitEnumerator PROVE CallInv'
<1>1. <<>> \in Urls
  BY DEF Urls
<1>2. ~undefined /\ opening = "no" /\ at = "idle" /\ inited' /\ at' \in {"idle", "loop"}
  BY DEF HasNext, InitEnumerator, Idle
<1>3. CASE HasNext /\ inited
  <2>1. \A o \in openers : ~o.awaited
    BY <1>2 DEF CallInv, Waited
  <2> QED BY <1>2, <1>3, <2>1 DEF HasNext, Unopened, opened, failures, CallInv
<1>4. CASE ~inited
  <2>1. Open(<<>>) /\ ~exhausted' /\ UNCHANGED <<next, returned, undefined>>
    BY <1>2, <1>4 DEF HasNext, InitEnumerator, CallInv, outcome
  <2>2. stackEnumerator = <<>> /\ openers = {} /\ returned = {}
    BY <1>2, <1>4 DEF CallInv
  <2>3. /\ ~disturbed' => ~cancelled'
        /\ \A o \in openers' : o.awaited => o.url = <<>> /\ opening' # "no"
        /\ openers' = {} \/ stackEnumerator' = stackEnumerator
    BY <1>1, <1>2, <2>1, <2>2, OpenCall
  <2> QED BY <1>2, <2>1, <2>2, <2>3 DEF CallInv, Waited
<1> QED BY <1>3, <1>4 DEF InitEnumerator

LEMMA ListingCall == ASSUME TInv, CallInv, Listing PROVE CallInv'
<1>1. ~undefined /\ ~undefined' /\ inited' = inited /\ returned \subseteq returned'
  BY DEF Listing, StartWaiting, WaitTimeout, Exhausted, CheckAndResetCancel, ReadEntry, EnterDirectory,
         CheckFilter, EndOfDirectory, ReadFails, Inside, outcome
<1>2. CASE StartWaiting
  BY <1>1, <1>2 DEF StartWaiting, CallInv, Waited, outcome, failures
<1>3. CASE WaitTimeout
  <2>1. \A o \in openers' : ~o.awaited
    BY <1>3 DEF WaitTimeout, TInv, SyncTypes
  <2>2. opening # "no" /\ disturbed'
    BY <1>3 DEF WaitTimeout
  <2>3. inited
    BY <1>1, <2>2 DEF CallInv
  <2> QED BY <1>1, <1>3, <2>1, <2>2, <2>3 DEF WaitTimeout, CallInv, outcome
<1>4. ASSUME opening = "no", at # "idle", UNCHANGED opened,
             at' = "enter" => Entered(next'.entry), exhausted' => at' = "idle",
             disturbed => disturbed', ~disturbed' => ~cancelled'
      PROVE  CallInv'
  <2>1. inited /\ \A o \in openers : ~o.awaited
    BY <1>1, <1>4 DEF CallInv, Waited
  <2> QED BY <1>1, <1>4, <2>1 DEF CallInv, opened
<1>5. ~disturbed => ~cancelled
  BY <1>1 DEF CallInv
<1>6. at # "idle" => ~exhausted
  BY <1>1 DEF CallInv
<1>7. CASE Exhausted \/ CheckAndResetCancel \/ CheckFilter
  BY <1>4, <1>5, <1>6, <1>7 DEF Exhausted, CheckAndResetCancel, CheckFilter, Inside, Unopened, outcome, failures
<1>8. CASE ReadEntry
  <2>1. at' = "enter" => Entered(next'.entry)
    BY <1>8 DEF ReadEntry
  <2> QED BY <1>4, <1>5, <1>6, <1>8, <2>1 DEF ReadEntry, Inside, outcome, failures
<1>9. CASE EndOfDirectory
  BY <1>4, <1>5, <1>6, <1>9 DEF EndOfDirectory, Inside, outcome, failures
<1>10. CASE ReadFails
  <2>1. disturbed => disturbed'
    BY <1>10 DEF ReadFails, Fault, NoFault, failures
  <2> QED BY <1>4, <1>5, <1>6, <1>10, <2>1 DEF ReadFails, Inside, outcome
<1>11. CASE EnterDirectory
  <2>1. /\ at = "enter" /\ at' = "filter" /\ opening = "no" /\ next' = next /\ next.url \in Urls
        /\ Open(next.url) /\ UNCHANGED <<inited, returned, exhausted, undefined>>
    BY <1>11 DEF EnterDirectory, Inside, outcome, TInv, SyncTypes
  <2>2. /\ ~disturbed' => ~cancelled'
        /\ \A o \in openers' : o.awaited => o.url = next.url /\ opening' # "no"
    BY <1>1, <2>1, OpenCall
  <2>3. inited /\ Entered(next.entry) /\ ~exhausted
    BY <1>1, <2>1 DEF CallInv
  <2> QED BY <1>1, <2>1, <2>2, <2>3 DEF CallInv, Waited
<1> QED BY <1>2, <1>3, <1>7, <1>8, <1>9, <1>10, <1>11 DEF Listing

\* Only one pool thread is awaited at a time.
LEMMA OneAwaited ==
    ASSUME TInv, CallInv, ~undefined, NEW o \in openers, NEW p \in openers, o.awaited, p.awaited
    PROVE  o = p
<1>1. Waited(o) /\ Waited(p)
  BY DEF CallInv
<1>2. o.url = p.url
  BY <1>1 DEF Waited
<1>3. o \in [url : Urls, awaited : BOOLEAN] /\ p \in [url : Urls, awaited : BOOLEAN]
  BY DEF TInv, SyncTypes
<1>4. \A x, y \in [url : Urls, awaited : BOOLEAN] : x.url = y.url /\ x.awaited /\ y.awaited => x = y
  OBVIOUS
<1> QED BY <1>2, <1>3, <1>4

LEMMA OpenerCall == ASSUME TInv, CallInv, NEW o \in openers, OpenerEnds(o) PROVE CallInv'
<1>1. SUFFICES ASSUME ~undefined' PROVE CallInv'
  BY DEF CallInv
<1>2. ~undefined /\ o.awaited
  BY <1>1 DEF OpenerEnds, TInv, SyncTypes
<1>3. \A p \in openers' : ~p.awaited
  BY <1>2, OneAwaited DEF OpenerEnds
<1>4. inited /\ inited' = inited
  BY <1>2 DEF CallInv, OpenerEnds
<1> QED BY <1>1, <1>2, <1>3, <1>4 DEF OpenerEnds, CallInv, outcome

LEMMA OtherCall ==
    ASSUME TInv, CallInv, Callbacks \/ AsyncIterator \/ StartAsyncIterator \/ Cancel \/ HasNextAsync \/ FileInfoList
    PROVE  CallInv'
<1>1. SUFFICES ASSUME ~undefined' PROVE CallInv'
  BY DEF CallInv
<1>2. ~undefined /\ UNCHANGED syncVars /\ (disturbed => disturbed') /\ (~disturbed' => ~cancelled')
  <2>1. CASE Callbacks
    <3>1. PICK o \in operations : \/ CallbackStopped(o) \/ CallbackFails(o) \/ EnumUriAsyncCallBack(o)
                                  \/ MoreFilesCallback(o) \/ MoreFilesEnd(o)
      BY <2>1 DEF Callbacks
    <3>2. Callback(o)
      BY <3>1 DEF CallbackStopped, CallbackFails, EnumUriAsyncCallBack, MoreFilesCallback, MoreFilesEnd
    <3>3. ~undefined /\ UNCHANGED syncVars /\ (~disturbed => ~cancelled)
      BY <3>2 DEF Callback, Idle, CallInv
    <3>4. (disturbed => disturbed') /\ (cancelled' => cancelled)
      <4>1. CASE CallbackFails(o)
        BY <4>1 DEF CallbackFails, Fault
      <4>2. CASE NoFault /\ (cancelled' = FALSE \/ cancelled' = cancelled)
        BY <4>2 DEF NoFault, failures
      <4> QED BY <3>1, <4>1, <4>2 DEF CallbackStopped, EnumUriAsyncCallBack, MoreFilesCallback,
                                     MoreFilesEnd, NextFilesAsync
    <3> QED BY <3>3, <3>4
  <2>2. CASE AsyncIterator \/ StartAsyncIterator \/ HasNextAsync \/ FileInfoList
    BY <2>2 DEF AsyncIterator, StartAsyncIterator, HasNextAsync, FileInfoList, Idle, CallInv, failures
  <2>3. CASE Cancel
    BY <2>3 DEF Cancel
  <2> QED BY <2>1, <2>2, <2>3
<1> QED BY <1>1, <1>2 DEF CallInv, Waited, syncVars, opened, outcome

LEMMA NextCall == ASSUME TInv, CallInv, [Next]_vars PROVE CallInv'
<1>1. CASE Next
  <2>1. CASE LateWrite
    BY <2>1 DEF LateWrite, CallInv
  <2> QED BY <1>1, <2>1, CallsCall, ListingCall, OpenerCall, OtherCall DEF Next, Client
<1>2. CASE UNCHANGED vars
  BY <1>2 DEF vars, syncVars, opened, outcome, failures, CallInv, Waited
<1> QED BY <1>1, <1>2

LEMMA CallHolds == Spec => [](TInv /\ CallInv)
<1>1. TInv /\ CallInv /\ [Next]_vars => CallInv'
  BY NextCall
<1> QED BY <1>1, TypesHold, InitCall, PTL DEF Spec

-----------------------------------------------------------------------------
(* Three kinds of steps                                                    *)

\* "Nothing more" is only said when nothing is left.
SaysSo ==
    exhausted' => /\ returned' = returned
                  /\ exhausted \/ (Unread = {} /\ Current = {} /\ Ahead = {})

\* No directory is opened and no entry is read; the current one may be returned.
Rests ==
    /\ Unread' = Unread /\ DirsIn(stackEnumerator)' \subseteq DirsIn(stackEnumerator)
    /\ Distinct(stackEnumerator) => Distinct(stackEnumerator)'
    /\ Ahead' \subseteq Ahead /\ (~disturbed' => Ahead' = Ahead)
    /\ Current' \subseteq Current /\ returned \subseteq returned'
    /\ returned' \subseteq returned \cup {e \in Current \ Current' : e.name \in Shown}
    /\ \A e \in Current : e.name \in Shown => e \in returned' \cup Current'
    /\ repeated' => repeated \/ Current \cap returned # {}

\* An entry is read.
Reads == \E e \in Unread :
    /\ Current = {} /\ Current' = {e} /\ UNCHANGED <<returned, repeated>>
    /\ Unread' \subseteq Unread /\ Unread \subseteq Unread' \cup {e}
    /\ DirsIn(stackEnumerator)' = DirsIn(stackEnumerator) /\ e.dir \in DirsIn(stackEnumerator)
    /\ Distinct(stackEnumerator) => Distinct(stackEnumerator)' /\ e \notin Unread'
    /\ Ahead' = Ahead

\* A directory that was ahead is opened.
Opens(d) ==
    /\ \A e \in Entry : e \in Unread' <=> e \in Unread \/ e.dir = d
    /\ DirsIn(stackEnumerator)' = DirsIn(stackEnumerator) \cup {d}
    /\ d \notin DirsIn(stackEnumerator) /\ Distinct(stackEnumerator) => Distinct(stackEnumerator)'
    /\ Current' = Current /\ UNCHANGED <<returned, repeated>>
    /\ d \in Ahead
    /\ \A x \in Ahead : x = d \/ \E e \in Unread : Entered(e) /\ Leads(e) = x
    /\ \A x : x \in Ahead' <=> x \in Dirs /\ \E e \in Unread' : Entered(e) /\ Leads(e) = x
    /\ \/ d = Root /\ DirsIn(stackEnumerator) = {} /\ returned = {} /\ Current = {}
       \/ \E e \in Current : Entered(e) /\ Leads(e) = d

Kinds == SaysSo /\ (Rests \/ Reads \/ \E d \in Dirs : Opens(d))

\* Steps that leave the listing, the openers and the place alone.
LEMMA RestsWhen ==
    ASSUME UNCHANGED <<inited, stackEnumerator, next, returned, repeated, openers>>,
           Current' = Current, (at = "enter") = (at' = "enter")
    PROVE  Rests
<1>1. Unread' = Unread /\ DirsIn(stackEnumerator)' = DirsIn(stackEnumerator)
      /\ (Distinct(stackEnumerator) => Distinct(stackEnumerator)')
  BY DEF Unread, UnreadIn, DirsIn, Distinct
<1>2. \A d : Awaited(d)' <=> Awaited(d)
  BY DEF Awaited
<1>3. Ahead' = Ahead
  BY <1>1, <1>2 DEF Ahead
<1> QED BY <1>1, <1>3 DEF Rests

\* A directory of this tree that createEnumerator() pushes.
LEMMA PushOpens ==
    ASSUME TInv, NEW url \in Urls, DirAt(url) # NoDir, stackEnumerator' = Pushed(url),
           Current' = Current, UNCHANGED <<returned, repeated>>,
           inited', at' # "enter", \A o \in openers' : ~o.awaited,
           \A x : x \in Ahead <=> /\ x \in Dirs
                                  /\ x = DirAt(url) \/ \E e \in Unread : Entered(e) /\ Leads(e) = x,
           \/ DirAt(url) = Root /\ stackEnumerator = <<>> /\ returned = {} /\ Current = {}
           \/ \E e \in Current : Entered(e) /\ Leads(e) = DirAt(url)
    PROVE  \E d \in Dirs : Opens(d)
<1> DEFINE d == DirAt(url)
           t == Append(stackEnumerator, [dir |-> d, left |-> DOMAIN Content[d]])
<1>1. d \in Dirs /\ stackEnumerator' = t
  BY RootEntry DEF Pushed
<1>2. stackEnumerator \in Seq(OpenDir)
  BY DEF TInv, SyncTypes
<1>3. /\ \A e \in Entry : e \in UnreadIn(t) <=> e \in UnreadIn(stackEnumerator) \/ e.dir = d
      /\ DirsIn(t) = DirsIn(stackEnumerator) \cup {d}
      /\ d \notin DirsIn(stackEnumerator) /\ Distinct(stackEnumerator) => Distinct(t)
  BY <1>1, <1>2, UnreadPushed
<1> HIDE DEF t
<1>4. Unread' = UnreadIn(t) /\ DirsIn(stackEnumerator)' = DirsIn(t) /\ (Distinct(stackEnumerator)' <=> Distinct(t))
  BY <1>1 DEF Unread, UnreadIn, DirsIn, Distinct
<1>5. \A x : ~Awaited(x)'
  BY DEF Awaited
<1>6. \A x : x \in Ahead' <=> x \in Dirs /\ \E e \in Unread' : Entered(e) /\ Leads(e) = x
  BY <1>5 DEF Ahead
<1>7. stackEnumerator = <<>> => DirsIn(stackEnumerator) = {}
  BY DEF DirsIn
<1> HIDE DEF d
<1>8. Opens(d)
  <2>1. \A e \in Entry : e \in Unread' <=> e \in Unread \/ e.dir = d
    BY <1>3, <1>4 DEF Unread
  <2>2. d \in Ahead /\ \A x \in Ahead : x = d \/ \E e \in Unread : Entered(e) /\ Leads(e) = x
    BY <1>1 DEF d
  <2>3. \/ d = Root /\ DirsIn(stackEnumerator) = {} /\ returned = {} /\ Current = {}
        \/ \E e \in Current : Entered(e) /\ Leads(e) = d
    BY <1>7 DEF d
  <2> QED BY <1>3, <1>4, <1>6, <2>1, <2>2, <2>3 DEF Opens
<1> QED BY <1>1, <1>8

\* Opening the root, or the directory of the current entry.
LEMMA OpenKinds ==
    ASSUME TInv, CallInv, ~undefined, opening = "no", NEW url \in Urls, Open(url),
           UNCHANGED <<next, returned, repeated>>, Current' = Current, inited', at' # "enter",
           \/ url = <<>> /\ ~inited
           \/ url = next.url /\ inited /\ at = "enter"
    PROVE  Rests \/ \E d \in Dirs : Opens(d)
<1>1. \A o \in openers : ~o.awaited
  BY DEF CallInv, Waited
<1>2. /\ ~inited => /\ stackEnumerator = <<>> /\ openers = {} /\ returned = {} /\ at = "idle"
      /\ at = "enter" => Entered(next.entry)
  BY DEF CallInv
<1>3. at = "enter" => next.url = <<next.entry.name>>
  BY DEF TInv, PlaceTypes
<1>4. DirAt(<<>>) = Root /\ Root \in Dirs /\ NoDir \notin Dirs /\ DirAt(url) \in Dirs \cup {NoDir}
  BY RootEntry, ContentAssumption
<1>5. \A x : ~Awaited(x)
  BY <1>1 DEF Awaited
<1>6. ~inited => Unread = {}
  BY <1>2 DEF Unread, UnreadIn
<1>7. \A x : x \in Ahead <=> /\ x \in Dirs
                             /\ x = DirAt(url) \/ \E e \in Unread : Entered(e) /\ Leads(e) = x
  <2>1. CASE url = <<>> /\ ~inited
    BY <1>2, <1>4, <1>5, <1>6, <2>1 DEF Ahead
  <2>2. CASE url = next.url /\ inited /\ at = "enter"
    <3>1. Leads(next.entry) = DirAt(url)
      BY <1>3, <2>2 DEF Leads
    <3> QED BY <1>5, <2>2, <3>1 DEF Ahead
  <2> QED BY <2>1, <2>2
<1>8. ASSUME stackEnumerator' = stackEnumerator
      PROVE  /\ Unread' = Unread /\ DirsIn(stackEnumerator)' = DirsIn(stackEnumerator)
             /\ Distinct(stackEnumerator) => Distinct(stackEnumerator)'
  BY <1>8 DEF Unread, UnreadIn, DirsIn, Distinct
<1>9. \/ /\ openers' = openers \cup {[url |-> url, awaited |-> TRUE]}
         /\ stackEnumerator' = stackEnumerator
      \/ openers' = openers /\ stackEnumerator' = Pushed(url)
      \/ openers' = openers /\ stackEnumerator' = stackEnumerator /\ disturbed'
  BY OpenCall
<1>10. CASE /\ openers' = openers \cup {[url |-> url, awaited |-> TRUE]}
            /\ stackEnumerator' = stackEnumerator
  <2>1. \A x : Awaited(x)' <=> x = DirAt(url)
    <3> DEFINE w == [url |-> url, awaited |-> TRUE]
    <3>1. w.awaited /\ w.url = url /\ openers' = openers \cup {w}
      BY <1>10
    <3> HIDE DEF w
    <3> QED BY <1>1, <3>1 DEF Awaited
  <2>2. Ahead' = Ahead
    BY <1>7, <1>8, <1>10, <2>1 DEF Ahead
  <2> QED BY <1>8, <1>10, <2>2 DEF Rests
<1>11. CASE openers' = openers /\ stackEnumerator' = stackEnumerator /\ (disturbed' \/ DirAt(url) = NoDir)
  <2>1. \A x : ~Awaited(x)'
    BY <1>1, <1>11 DEF Awaited
  <2>2. \A x : x \in Ahead' <=> x \in Dirs /\ \E e \in Unread : Entered(e) /\ Leads(e) = x
    BY <1>8, <1>11, <2>1 DEF Ahead
  <2>3. Ahead' \subseteq Ahead /\ (~disturbed' => Ahead' = Ahead)
    BY <1>4, <1>7, <1>11, <2>2
  <2> QED BY <1>8, <1>11, <2>3 DEF Rests
<1>12. CASE openers' = openers /\ stackEnumerator' = Pushed(url) /\ DirAt(url) # NoDir
  <2>1. \/ DirAt(url) = Root /\ stackEnumerator = <<>> /\ returned = {} /\ Current = {}
        \/ \E e \in Current : Entered(e) /\ Leads(e) = DirAt(url)
    <3>1. CASE url = <<>> /\ ~inited
      BY <1>2, <1>4, <3>1 DEF Current
    <3>2. CASE url = next.url /\ inited /\ at = "enter"
      <4>1. next.entry \in Current /\ Entered(next.entry) /\ Leads(next.entry) = DirAt(url)
        BY <1>2, <1>3, <3>2 DEF Current, Leads
      <4> QED BY <4>1
    <3> QED BY <3>1, <3>2
  <2>2. \A o \in openers' : ~o.awaited
    BY <1>1, <1>12
  <2> QED BY <1>7, <1>12, <2>1, <2>2, PushOpens
<1>13. DirAt(url) = NoDir => Pushed(url) = stackEnumerator
  BY DEF Pushed
<1> QED BY <1>9, <1>10, <1>11, <1>12, <1>13

LEMMA CallsKinds ==
    ASSUME TInv, CallInv, HasNext \/ InitEnumerator
    PROVE  Kinds /\ (disturbed => disturbed') /\ ~undefined /\ ~undefined'
<1>1. /\ ~undefined /\ ~undefined' /\ opening = "no" /\ at = "idle" /\ inited'
      /\ at' \in {"idle", "loop"} /\ UNCHANGED <<next, returned, repeated>>
  BY DEF HasNext, InitEnumerator, Idle, outcome
<1>2. Current' = Current
  BY <1>1 DEF Current
<1>3. SaysSo
  <2>1. exhausted' => exhausted
    BY DEF HasNext, InitEnumerator, outcome
  <2> QED BY <1>1, <2>1 DEF SaysSo
<1>4. CASE HasNext /\ inited
  <2>1. UNCHANGED <<inited, stackEnumerator, openers, disturbed>>
    BY <1>4 DEF HasNext, Unopened, opened, failures
  <2>2. (at = "enter") = (at' = "enter")
    BY <1>1
  <2> QED BY <1>1, <1>2, <1>3, <2>1, <2>2, RestsWhen DEF Kinds
<1>5. CASE ~inited
  <2>1. Open(<<>>) /\ <<>> \in Urls
    BY <1>5 DEF HasNext, InitEnumerator, Urls
  <2>2. at' # "enter"
    BY <1>1
  <2>3. Rests \/ \E d \in Dirs : Opens(d)
    BY <1>1, <1>2, <1>5, <2>1, <2>2, OpenKinds
  <2>4. disturbed => disturbed'
    BY <1>1, <2>1, OpenCall
  <2> QED BY <1>1, <1>3, <2>3, <2>4 DEF Kinds
<1> QED BY <1>4, <1>5 DEF InitEnumerator

LEMMA ListingKinds ==
    ASSUME TInv, CallInv, Listing
    PROVE  Kinds /\ (disturbed => disturbed') /\ ~undefined /\ ~undefined'
<1>1. ~undefined /\ ~undefined' /\ inited' = inited
  BY DEF Listing, StartWaiting, WaitTimeout, Exhausted, CheckAndResetCancel, ReadEntry, EnterDirectory,
         CheckFilter, EndOfDirectory, ReadFails, Inside
<1>2. opening = "no" => \A x : ~Awaited(x)
  BY <1>1 DEF CallInv, Waited, Awaited
<1>3. at # "idle" => inited
  BY <1>1 DEF CallInv
<1>4. CASE StartWaiting
  <2>1. UNCHANGED <<stackEnumerator, at, openers, next, returned, repeated, exhausted, disturbed>>
    BY <1>4 DEF StartWaiting, outcome, failures
  <2>2. Current' = Current /\ (at = "enter") = (at' = "enter") /\ SaysSo
    BY <2>1 DEF Current, SaysSo
  <2> QED BY <1>1, <2>1, <2>2, RestsWhen DEF Kinds
<1>5. CASE WaitTimeout
  <2>1. UNCHANGED <<stackEnumerator, at, next, returned, repeated, exhausted>> /\ disturbed'
    BY <1>5 DEF WaitTimeout, outcome
  <2>2. \A o \in openers' : ~o.awaited
    BY <1>5 DEF WaitTimeout, TInv, SyncTypes
  <2>3. \A x : ~Awaited(x)'
    BY <2>2 DEF Awaited
  <2>4. /\ Unread' = Unread /\ DirsIn(stackEnumerator)' = DirsIn(stackEnumerator) /\ Current' = Current
        /\ Distinct(stackEnumerator) => Distinct(stackEnumerator)'
    BY <2>1 DEF Unread, UnreadIn, DirsIn, Distinct, Current
  <2>5. Ahead' \subseteq Ahead
    BY <1>1, <2>1, <2>3, <2>4 DEF Ahead
  <2>6. Rests /\ SaysSo
    BY <2>1, <2>4, <2>5 DEF Rests, SaysSo
  <2> QED BY <1>1, <2>1, <2>6 DEF Kinds
<1>6. CASE Exhausted
  <2>1. /\ UNCHANGED <<stackEnumerator, opening, openers, next, returned, repeated, disturbed>>
        /\ at = "loop" /\ at' = "idle" /\ opening = "no" /\ stackEnumerator = <<>>
    BY <1>6 DEF Exhausted, Inside, Unopened, opened, failures
  <2>2. Current' = Current /\ (at = "enter") = (at' = "enter") /\ Current = {} /\ Unread = {}
    BY <2>1 DEF Current, Unread, UnreadIn
  <2>3. Ahead = {}
    BY <1>2, <1>3, <2>1, <2>2 DEF Ahead
  <2> QED BY <1>1, <2>1, <2>2, <2>3, RestsWhen DEF Kinds, SaysSo
<1>7. CASE CheckAndResetCancel \/ ReadFails
  <2>1. /\ UNCHANGED <<stackEnumerator, opening, openers, next, returned, repeated, exhausted>>
        /\ at \in {"loop", "read"} /\ at' \in {"idle", "read"} /\ (disturbed => disturbed')
    BY <1>7 DEF CheckAndResetCancel, ReadFails, Inside, Unopened, opened, outcome, failures, Fault, NoFault
  <2>2. Current' = Current /\ (at = "enter") = (at' = "enter") /\ SaysSo
    BY <2>1 DEF Current, SaysSo
  <2> QED BY <1>1, <2>1, <2>2, RestsWhen DEF Kinds
<1>8. CASE ReadEntry
  <2>1. PICK n \in Top.left :
           /\ next' = [url |-> <<n>>, entry |-> [dir |-> Top.dir, name |-> n]]
           /\ at' = IF Entered([dir |-> Top.dir, name |-> n]) THEN "enter" ELSE "filter"
           /\ stackEnumerator' = AfterReading(n)
    BY <1>8 DEF ReadEntry
  <2> DEFINE e == [dir |-> Top.dir, name |-> n]
  <2>2. at = "read" /\ opening = "no" /\ UNCHANGED <<openers, returned, repeated, exhausted, disturbed>>
    BY <1>8 DEF ReadEntry, Inside, opened, outcome, failures
  <2>3. stackEnumerator # <<>>
    BY <2>2 DEF TInv, PlaceTypes
  <2>4. /\ e \in Unread /\ e.dir \in DirsIn(stackEnumerator)
        /\ UnreadIn(AfterReading(n)) \subseteq Unread /\ Unread \subseteq UnreadIn(AfterReading(n)) \cup {e}
        /\ DirsIn(AfterReading(n)) = DirsIn(stackEnumerator)
        /\ Distinct(stackEnumerator) => Distinct(AfterReading(n)) /\ e \notin UnreadIn(AfterReading(n))
    BY <2>3, UnreadTaken
  <2>5. /\ Unread' = UnreadIn(AfterReading(n)) /\ DirsIn(stackEnumerator)' = DirsIn(AfterReading(n))
        /\ Distinct(stackEnumerator)' <=> Distinct(AfterReading(n))
    BY <2>1 DEF Unread, UnreadIn, DirsIn, Distinct
  <2>6. at' = IF Entered(e) THEN "enter" ELSE "filter"
    BY <2>1
  <2>7. next'.entry = e
    BY <2>1
  <2> HIDE DEF e
  <2>8. Current = {} /\ Current' = {e}
    BY <2>2, <2>6, <2>7 DEF Current
  <2>9. \A x : ~Awaited(x) /\ ~Awaited(x)'
    BY <1>2, <2>2 DEF Awaited
  <2>10. inited /\ inited'
    BY <1>1, <1>3, <2>2
  <2>11. \A x : x \in Ahead <=> x \in Dirs /\ \E g \in Unread : Entered(g) /\ Leads(g) = x
    BY <2>2, <2>9, <2>10 DEF Ahead
  <2>12. \A x : x \in Ahead' <=> /\ x \in Dirs
                                 /\ \/ \E g \in Unread' : Entered(g) /\ Leads(g) = x
                                    \/ Entered(e) /\ Leads(e) = x
    <3>1. CASE Entered(e)
      BY <2>6, <2>7, <2>9, <2>10, <3>1 DEF Ahead
    <3>2. CASE ~Entered(e)
      BY <2>6, <2>7, <2>9, <2>10, <3>2 DEF Ahead
    <3> QED BY <3>1, <3>2
  <2>13. Ahead' = Ahead
    BY <2>4, <2>5, <2>11, <2>12
  <2>14. Reads
    <3>1. /\ Current = {} /\ Current' = {e} /\ UNCHANGED <<returned, repeated>>
          /\ Unread' \subseteq Unread /\ Unread \subseteq Unread' \cup {e}
          /\ DirsIn(stackEnumerator)' = DirsIn(stackEnumerator) /\ e.dir \in DirsIn(stackEnumerator)
          /\ Distinct(stackEnumerator) => Distinct(stackEnumerator)' /\ e \notin Unread'
          /\ Ahead' = Ahead
      BY <2>2, <2>4, <2>5, <2>8, <2>13
    <3> QED BY <2>4, <3>1 DEF Reads
  <2>15. SaysSo
    BY <2>2 DEF SaysSo
  <2> QED BY <1>1, <2>2, <2>14, <2>15 DEF Kinds
<1>9. CASE EnterDirectory
  <2>1. /\ at = "enter" /\ at' = "filter" /\ opening = "no" /\ next.url \in Urls /\ Open(next.url)
        /\ UNCHANGED <<next, returned, repeated, exhausted>>
    BY <1>9 DEF EnterDirectory, Inside, outcome, TInv, SyncTypes
  <2>2. Current' = Current /\ SaysSo /\ inited /\ inited' /\ at' # "enter"
    BY <1>1, <1>3, <2>1 DEF Current, SaysSo
  <2>3. Rests \/ \E d \in Dirs : Opens(d)
    BY <1>1, <2>1, <2>2, OpenKinds
  <2>4. disturbed => disturbed'
    BY <1>1, <2>1, OpenCall
  <2> QED BY <1>1, <2>2, <2>3, <2>4 DEF Kinds
<1>10. CASE CheckFilter
  <2>1. /\ at = "filter" /\ at' \in {"idle", "loop"} /\ opening = "no" /\ UNCHANGED disturbed
        /\ UNCHANGED <<stackEnumerator, openers, next, exhausted>>
    BY <1>10 DEF CheckFilter, Inside, Unopened, opened, failures
  <2>2. Current = {next.entry} /\ Current' = {}
    BY <2>1 DEF Current
  <2>3. /\ returned' = returned \cup {e \in Current : e.name \in Shown}
        /\ repeated' => repeated \/ Current \cap returned # {}
    BY <1>10, <2>2 DEF CheckFilter
  <2>4. /\ Unread' = Unread /\ DirsIn(stackEnumerator)' = DirsIn(stackEnumerator)
        /\ Distinct(stackEnumerator) => Distinct(stackEnumerator)'
    <3>1. stackEnumerator' = stackEnumerator
      BY <2>1
    <3> QED BY <3>1 DEF Unread, UnreadIn, DirsIn, Distinct
  <2>5. \A x : ~Awaited(x) /\ ~Awaited(x)'
    BY <1>2, <2>1 DEF Awaited
  <2>6. Ahead' = Ahead
    BY <1>1, <2>1, <2>4, <2>5 DEF Ahead
  <2>7. Rests
    BY <2>2, <2>3, <2>4, <2>6 DEF Rests
  <2>8. SaysSo
    <3>1. ~exhausted
      BY <1>1, <2>1 DEF CallInv
    <3> QED BY <2>1, <3>1 DEF SaysSo
  <2> QED BY <1>1, <2>1, <2>7, <2>8 DEF Kinds
<1>11. CASE EndOfDirectory
  <2>1. /\ at = "read" /\ at' = "loop" /\ opening = "no" /\ Top.left = {}
        /\ stackEnumerator' = Front(stackEnumerator)
        /\ UNCHANGED <<openers, next, returned, repeated, exhausted, disturbed>>
    BY <1>11 DEF EndOfDirectory, Inside, opened, outcome, failures
  <2>2. stackEnumerator # <<>>
    BY <2>1 DEF TInv, PlaceTypes
  <2> DEFINE t == Front(stackEnumerator)
  <2>3. /\ UnreadIn(t) = Unread /\ DirsIn(t) \subseteq DirsIn(stackEnumerator)
        /\ Distinct(stackEnumerator) => Distinct(t)
    BY <2>1, <2>2, UnreadPopped
  <2> HIDE DEF t
  <2>4. /\ Unread' = Unread /\ DirsIn(stackEnumerator)' \subseteq DirsIn(stackEnumerator)
        /\ Distinct(stackEnumerator) => Distinct(stackEnumerator)'
    <3>1. stackEnumerator' = t
      BY <2>1 DEF t
    <3>2. /\ Unread' = UnreadIn(t) /\ DirsIn(stackEnumerator)' = DirsIn(t)
          /\ Distinct(stackEnumerator)' <=> Distinct(t)
      BY <3>1 DEF Unread, UnreadIn, DirsIn, Distinct
    <3> QED BY <2>3, <3>2
  <2>5. \A x : ~Awaited(x) /\ ~Awaited(x)'
    BY <1>2, <2>1 DEF Awaited
  <2>6. Ahead' = Ahead /\ Current' = Current
    BY <1>1, <2>1, <2>4, <2>5 DEF Ahead, Current
  <2>7. Rests /\ SaysSo
    BY <2>1, <2>4, <2>6 DEF Rests, SaysSo
  <2> QED BY <1>1, <2>1, <2>7 DEF Kinds
<1> QED BY <1>4, <1>5, <1>6, <1>7, <1>8, <1>9, <1>10, <1>11 DEF Listing

\* A step that ends in undefined behaviour returns nothing more.
LEMMA OpenerKinds ==
    ASSUME TInv, CallInv, NEW o \in openers, OpenerEnds(o)
    PROVE  /\ disturbed => disturbed'
           /\ ~undefined /\ UNCHANGED outcome /\ (~undefined' => Kinds)
<1>1. /\ ~undefined /\ UNCHANGED <<inited, at, next, outcome>>
      /\ openers' = openers \ {o} /\ (disturbed => disturbed')
      /\ undefined' = ~o.awaited
      /\ \/ stackEnumerator' = Pushed(o.url)
         \/ (disturbed' \/ (cancelled /\ NoFault)) /\ UNCHANGED stackEnumerator
  BY DEF OpenerEnds, Fault, NoFault, failures
<1>2. SUFFICES ASSUME ~undefined' PROVE Kinds
  BY <1>1
<1>3. o.awaited
  BY <1>1, <1>2 DEF TInv, SyncTypes
<1>4. \A p \in openers : p.awaited => p = o
  BY <1>1, <1>3, OneAwaited
<1>5. \A p \in openers' : ~p.awaited
  BY <1>1, <1>4
<1>6. Waited(o) /\ inited /\ at # "enter" /\ (cancelled => disturbed)
  BY <1>1, <1>3 DEF CallInv, Waited
<1>7. Current' = Current /\ SaysSo
  BY <1>1 DEF Current, SaysSo, outcome
<1>8. \A x : (Awaited(x) <=> x = DirAt(o.url)) /\ ~Awaited(x)'
  BY <1>3, <1>4, <1>5 DEF Awaited
<1>9. \A x : x \in Ahead <=> /\ x \in Dirs
                             /\ x = DirAt(o.url) \/ \E e \in Unread : Entered(e) /\ Leads(e) = x
  BY <1>6, <1>8 DEF Ahead
<1>10. o.url \in Urls
  BY DEF TInv, SyncTypes
<1>11. DirAt(o.url) = NoDir => Pushed(o.url) = stackEnumerator
  BY DEF Pushed
<1>12. CASE stackEnumerator' = stackEnumerator /\ (disturbed' \/ DirAt(o.url) = NoDir)
  <2>1. /\ Unread' = Unread /\ DirsIn(stackEnumerator)' = DirsIn(stackEnumerator)
        /\ Distinct(stackEnumerator) => Distinct(stackEnumerator)'
    BY <1>12 DEF Unread, UnreadIn, DirsIn, Distinct
  <2>2. \A x : x \in Ahead' <=> x \in Dirs /\ \E e \in Unread : Entered(e) /\ Leads(e) = x
    BY <1>1, <1>6, <1>8, <2>1 DEF Ahead
  <2>3. Ahead' \subseteq Ahead /\ (~disturbed' => Ahead' = Ahead)
    BY <1>9, <1>12, <2>2, ContentAssumption
  <2>4. UNCHANGED <<returned, repeated>>
    BY <1>1 DEF outcome
  <2> QED BY <1>7, <2>1, <2>3, <2>4 DEF Rests, Kinds
<1>13. CASE stackEnumerator' = Pushed(o.url) /\ DirAt(o.url) # NoDir
  <2>1. \/ DirAt(o.url) = Root /\ stackEnumerator = <<>> /\ returned = {} /\ Current = {}
        \/ \E e \in Current : Entered(e) /\ Leads(e) = DirAt(o.url)
    <3>1. CASE o.url = <<>> /\ at \in {"idle", "loop"} /\ stackEnumerator = <<>> /\ returned = {}
      <4>1. DirAt(o.url) = Root
        BY <3>1, RootEntry
      <4> QED BY <3>1, <4>1 DEF Current
    <3>2. CASE o.url = next.url /\ at = "filter" /\ Entered(next.entry)
      <4>1. next.url = <<next.entry.name>>
        BY <3>2 DEF TInv, PlaceTypes
      <4>2. next.entry \in Current /\ Leads(next.entry) = DirAt(o.url)
        BY <3>2, <4>1 DEF Current, Leads
      <4> QED BY <3>2, <4>2
    <3> QED BY <1>6, <3>1, <3>2 DEF Waited
  <2>2. UNCHANGED <<returned, repeated>> /\ inited' /\ at' # "enter"
    BY <1>1, <1>6 DEF outcome
  <2>3. \E d \in Dirs : Opens(d)
    BY <1>5, <1>7, <1>9, <1>10, <1>13, <2>1, <2>2, PushOpens
  <2> QED BY <1>7, <2>3 DEF Kinds
<1>14. (cancelled /\ NoFault) => disturbed'
  BY <1>1, <1>6
<1> QED BY <1>1, <1>11, <1>12, <1>13, <1>14

\* Behaviour that is undefined stays so: no step is left to take.
LEMMA UndefinedStays == ASSUME TInv, undefined, [Next]_vars PROVE undefined'
<1>1. ~Listing
  BY DEF Listing, StartWaiting, WaitTimeout, Exhausted, CheckAndResetCancel, ReadEntry, EnterDirectory,
         CheckFilter, EndOfDirectory, ReadFails, Inside
<1>2. ~Client
  BY DEF Client, HasNext, InitEnumerator, AsyncIterator, StartAsyncIterator, Cancel, HasNextAsync,
         FileInfoList, Idle
<1>3. ~Callbacks
  BY DEF Callbacks, CallbackStopped, CallbackFails, EnumUriAsyncCallBack, MoreFilesCallback, MoreFilesEnd,
         Callback, Idle
<1>4. ~LateWrite /\ ~\E o \in openers : OpenerEnds(o)
  BY DEF LateWrite, OpenerEnds
<1> QED BY <1>1, <1>2, <1>3, <1>4 DEF Next, vars

\* Every step of hasNext() is of one of the three kinds.
LEMMA NextKinds ==
    ASSUME TInv, CallInv, [Next]_vars
    PROVE  /\ disturbed => disturbed'
           /\ \/ UNCHANGED outcome /\ (undefined' \/ undefined)
              \/ ~undefined /\ ~undefined' /\ Kinds
<1>1. CASE Listing \/ HasNext \/ InitEnumerator
  BY <1>1, CallsKinds, ListingKinds
<1>2. CASE \E o \in openers : OpenerEnds(o)
  BY <1>2, OpenerKinds
<1>3. ASSUME UNCHANGED syncVars, disturbed => disturbed'
      PROVE  \/ UNCHANGED outcome /\ (undefined' \/ undefined)
             \/ ~undefined /\ ~undefined' /\ Kinds
  <2>1. UNCHANGED <<inited, stackEnumerator, at, openers, next, returned, repeated, exhausted, outcome>>
    BY <1>3 DEF syncVars, opened, outcome
  <2>2. Current' = Current /\ (at = "enter") = (at' = "enter") /\ SaysSo
    BY <2>1 DEF Current, SaysSo
  <2> QED BY <2>1, <2>2, RestsWhen DEF Kinds
<1>4. CASE Callbacks
  <2>1. PICK o \in operations : \/ CallbackStopped(o) \/ CallbackFails(o) \/ EnumUriAsyncCallBack(o)
                                \/ MoreFilesCallback(o) \/ MoreFilesEnd(o)
    BY <1>4 DEF Callbacks
  <2>2. UNCHANGED syncVars
    BY <2>1 DEF CallbackStopped, CallbackFails, EnumUriAsyncCallBack, MoreFilesCallback, MoreFilesEnd, Callback
  <2>3. disturbed => disturbed'
    BY <2>1 DEF CallbackStopped, CallbackFails, EnumUriAsyncCallBack, MoreFilesCallback, MoreFilesEnd,
                Fault, NoFault, failures
  <2> QED BY <1>3, <2>2, <2>3
<1>5. CASE AsyncIterator \/ StartAsyncIterator \/ Cancel \/ HasNextAsync \/ FileInfoList
  <2>1. UNCHANGED syncVars /\ (disturbed => disturbed')
    BY <1>5 DEF AsyncIterator, StartAsyncIterator, Cancel, HasNextAsync, FileInfoList, failures
  <2> QED BY <1>3, <2>1
<1>6. CASE UNCHANGED vars
  <2>1. UNCHANGED syncVars /\ (disturbed => disturbed')
    BY <1>6 DEF vars, failures
  <2> QED BY <1>3, <2>1
<1>7. CASE LateWrite
  BY <1>7 DEF LateWrite, failures
<1> QED BY <1>1, <1>2, <1>4, <1>5, <1>6, <1>7 DEF Next, Client

-----------------------------------------------------------------------------
(* Every entry once                                                        *)

OnceInv ==
    /\ ~repeated
    /\ ~undefined =>
        /\ \A d \in Ahead : d \notin DirsIn(stackEnumerator) /\ \A e \in returned \cup Current : e.dir # d
        /\ Unread \cap (returned \cup Current) = {} /\ Current \cap returned = {}
        /\ Distinct(stackEnumerator)

LEMMA InitOnce == Init => OnceInv
<1> SUFFICES ASSUME Init PROVE OnceInv
  OBVIOUS
<1>1. /\ stackEnumerator = <<>> /\ returned = {} /\ Current = {} /\ ~repeated
  BY DEF Init, Current
<1>2. Unread = {} /\ DirsIn(stackEnumerator) = {} /\ Distinct(stackEnumerator)
  BY <1>1 DEF Unread, UnreadIn, DirsIn, Distinct
<1> QED BY <1>1, <1>2 DEF OnceInv

\* Where an entry leads: a directory of the root, or nowhere.
LEMMA LeadsDown ==
    ASSUME NamesDiffer, NEW e \in Entry, Entered(e), Leads(e) \in Dirs
    PROVE  e.dir = Root /\ Leads(e) = At(e).to
<1>1. e.dir \in Dirs /\ e.name \in Names /\ e.name \in DOMAIN Content[e.dir] /\ NoDir \notin Dirs
      /\ e = [dir |-> e.dir, name |-> e.name]
  BY ContentAssumption DEF Entry
<1>2. Leads(e) = IF e.name \in DOMAIN Content[Root]
                 THEN At([dir |-> Root, name |-> e.name]).to ELSE NoDir
  BY <1>1, RootEntry DEF Leads
<1>3. e.name \in DOMAIN Content[Root]
  BY <1>1, <1>2
<1>4. e.dir = Root
  BY <1>3 DEF NamesDiffer, Branches, Entered
<1> QED BY <1>1, <1>2, <1>3, <1>4

LEMMA NextOnce ==
    ASSUME NamesDiffer, Tree, TInv, CallInv, OnceInv, [Next]_vars
    PROVE  OnceInv'
<1>1. CASE UNCHANGED outcome /\ (undefined' \/ undefined)
  <2>1. undefined'
    BY <1>1, UndefinedStays
  <2> QED BY <1>1, <2>1 DEF OnceInv, outcome
<1>2. SUFFICES ASSUME ~undefined, ~undefined', Kinds PROVE OnceInv'
  BY <1>1, NextKinds
<1>3. /\ ~repeated /\ Distinct(stackEnumerator)
      /\ \A d \in Ahead : d \notin DirsIn(stackEnumerator) /\ \A e \in returned \cup Current : e.dir # d
      /\ Unread \cap (returned \cup Current) = {} /\ Current \cap returned = {}
  BY <1>2 DEF OnceInv
<1>4. CASE Rests
  <2>1. returned' \cup Current' \subseteq returned \cup Current /\ Current' \cap returned' = {}
    BY <1>3, <1>4 DEF Rests
  <2>2. ~repeated' /\ Distinct(stackEnumerator)'
    BY <1>3, <1>4 DEF Rests
  <2>3. \A d \in Ahead' : d \notin DirsIn(stackEnumerator)' /\ \A e \in returned' \cup Current' : e.dir # d
    BY <1>3, <1>4, <2>1 DEF Rests
  <2>4. Unread' \cap (returned' \cup Current') = {}
    BY <1>3, <1>4, <2>1 DEF Rests
  <2> QED BY <2>1, <2>2, <2>3, <2>4 DEF OnceInv
<1>5. CASE Reads
  <2>1. PICK e \in Unread :
           /\ Current = {} /\ Current' = {e} /\ UNCHANGED <<returned, repeated>>
           /\ Unread' \subseteq Unread
           /\ DirsIn(stackEnumerator)' = DirsIn(stackEnumerator) /\ e.dir \in DirsIn(stackEnumerator)
           /\ Distinct(stackEnumerator)' /\ e \notin Unread'
           /\ Ahead' = Ahead
    BY <1>3, <1>5 DEF Reads
  <2>2. \A d \in Ahead' : d \notin DirsIn(stackEnumerator)' /\ \A g \in returned' \cup Current' : g.dir # d
    BY <1>3, <2>1
  <2>3. Unread' \cap (returned' \cup Current') = {} /\ Current' \cap returned' = {}
    BY <1>3, <2>1
  <2>4. ~repeated' /\ Distinct(stackEnumerator)'
    BY <1>3, <2>1
  <2> QED BY <2>2, <2>3, <2>4 DEF OnceInv
<1>6. ASSUME NEW d \in Dirs, Opens(d) PROVE OnceInv'
  <2>1. /\ \A e \in Entry : e \in Unread' <=> e \in Unread \/ e.dir = d
        /\ DirsIn(stackEnumerator)' = DirsIn(stackEnumerator) \cup {d}
        /\ Current' = Current /\ UNCHANGED <<returned, repeated>> /\ d \in Ahead
        /\ \A x \in Ahead : x = d \/ \E e \in Unread : Entered(e) /\ Leads(e) = x
        /\ \A x : x \in Ahead' <=> x \in Dirs /\ \E e \in Unread' : Entered(e) /\ Leads(e) = x
    BY <1>6 DEF Opens
  <2>2. d \notin DirsIn(stackEnumerator) /\ \A e \in returned \cup Current : e.dir # d
    BY <1>3, <2>1
  <2>3. ~repeated' /\ Distinct(stackEnumerator)'
    BY <1>3, <1>6, <2>1, <2>2 DEF Opens
  <2>4. Unread \subseteq Entry /\ Unread' \subseteq Entry
    BY DEF Unread, UnreadIn
  <2>5. Unread' \cap (returned' \cup Current') = {} /\ Current' \cap returned' = {}
    BY <1>3, <2>1, <2>2, <2>4
  <2>6. ASSUME NEW x \in Ahead'
        PROVE  x \notin DirsIn(stackEnumerator)' /\ \A e \in returned' \cup Current' : e.dir # x
    <3>1. PICK f \in Unread' : Entered(f) /\ Leads(f) = x /\ x \in Dirs
      BY <2>1, <2>6
    <3>2. f \in Entry /\ f.dir = Root /\ At(f).to = x /\ At(f).to # Root
      BY <2>4, <3>1, LeadsDown DEF Tree, Branches, Entered
    <3>3. CASE d = Root /\ DirsIn(stackEnumerator) = {} /\ returned = {} /\ Current = {}
      BY <2>1, <3>2, <3>3
    <3>4. ASSUME NEW e \in Current, Entered(e), Leads(e) = d
          PROVE  x \notin DirsIn(stackEnumerator)' /\ \A g \in returned' \cup Current' : g.dir # x
      <4>1. e \in Entry
        BY DEF Current, TInv, PlaceTypes
      <4>2. At(e).to = d /\ d # Root
        BY <3>4, <4>1, LeadsDown DEF Tree, Branches, Entered
      <4>3. f \in Unread
        BY <2>1, <3>1, <3>2, <4>2
      <4>4. f # e
        BY <1>3, <4>3
      <4>5. x # d
        <5>1. NoDir \notin Dirs
          BY ContentAssumption
        <5> QED BY <3>1, <3>2, <3>4, <4>1, <4>2, <4>4, <5>1 DEF Tree, Branches, Entered
      <4>6. x \in Ahead
        <5>1. x \in Dirs /\ \E g \in Unread : Entered(g) /\ Leads(g) = x
          BY <3>1, <4>3
        <5> QED BY <5>1 DEF Ahead
      <4> QED BY <1>3, <2>1, <4>5, <4>6
    <3> QED BY <1>6, <3>3, <3>4 DEF Opens
  <2> QED BY <2>3, <2>5, <2>6 DEF OnceInv
<1> QED BY <1>2, <1>4, <1>5, <1>6 DEF Kinds

\* In a tree in which no directory below the root's own has the name of an entry
\* of the root, hasNext() returns no entry twice, whatever fails, times out or is
\* cancelled.
THEOREM NothingReturnedTwice == ASSUME NamesDiffer, Tree PROVE Spec => []ReturnedOnce
<1>1. TInv /\ CallInv /\ OnceInv /\ [Next]_vars => OnceInv'
  BY NextOnce
<1>2. Spec => []OnceInv
  BY <1>1, CallHolds, InitOnce, PTL DEF Spec
<1>3. OnceInv => ReturnedOnce
  BY DEF OnceInv, ReturnedOnce
<1> QED BY <1>2, <1>3, PTL

-----------------------------------------------------------------------------
(* Every entry                                                             *)

Target == {e \in Entry : e.dir \in Visited /\ e.name \in Shown}

CompleteInv ==
    /\ exhausted /\ ~disturbed => returned = Target
    /\ ~undefined => /\ DirsIn(stackEnumerator) \subseteq Visited /\ (\A e \in Current : e.dir \in Visited)
                     /\ returned \subseteq Target
    /\ ~undefined /\ ~disturbed =>
        \A e \in Target : Root \in Ahead \/ e.dir \in Ahead \/ e \in returned \cup Current \cup Unread

LEMMA InitComplete == Init => CompleteInv
<1> SUFFICES ASSUME Init PROVE CompleteInv
  OBVIOUS
<1>1. /\ stackEnumerator = <<>> /\ returned = {} /\ Current = {} /\ ~inited /\ ~exhausted
  BY DEF Init, Current
<1>2. DirsIn(stackEnumerator) = {}
  BY <1>1 DEF DirsIn
<1>3. Root \in Ahead
  BY <1>1, RootEntry DEF Ahead
<1> QED BY <1>1, <1>2, <1>3 DEF CompleteInv

\* With one level, every directory that is to be visited is the root or an entry of it leads there.
LEMMA LeadsEverywhere ==
    ASSUME OneLevel, NEW d \in Visited, d # Root
    PROVE  \E e \in Entry : e.dir = Root /\ Entered(e) /\ Leads(e) = d
<1>1. Subdirectories /\ d \in Dirs
  BY DEF Visited
<1>2. PICK e \in Entry : At(e) = [kind |-> "dir", to |-> d]
  BY <1>1, ContentAssumption
<1>3. At(e).kind = "dir" /\ At(e).to = d
  BY <1>2
<1>4. Entered(e) /\ e.dir = Root
  BY <1>1, <1>3 DEF Entered, IsDir, OneLevel, Branches
<1>5. e.name \in Names /\ e.name \in DOMAIN Content[Root] /\ e = [dir |-> Root, name |-> e.name]
  BY <1>4, RootEntry DEF Entry
<1>6. Leads(e) = At([dir |-> Root, name |-> e.name]).to
  BY <1>5, RootEntry DEF Leads
<1> QED BY <1>3, <1>4, <1>5, <1>6

LEMMA NextComplete ==
    ASSUME OneLevel, TInv, CallInv, CompleteInv, [Next]_vars
    PROVE  CompleteInv'
<1>1. disturbed => disturbed'
  BY NextKinds
<1>2. CASE UNCHANGED outcome /\ (undefined' \/ undefined)
  <2>1. undefined'
    BY <1>2, UndefinedStays
  <2>2. exhausted' /\ ~disturbed' => returned' = Target
    BY <1>1, <1>2 DEF CompleteInv, outcome
  <2> QED BY <2>1, <2>2 DEF CompleteInv
<1>3. SUFFICES ASSUME ~undefined, ~undefined', Kinds PROVE CompleteInv'
  BY <1>2, NextKinds
<1>4. /\ DirsIn(stackEnumerator) \subseteq Visited /\ returned \subseteq Target
      /\ \A e \in Current : e.dir \in Visited
      /\ ~disturbed => \A e \in Target :
            Root \in Ahead \/ e.dir \in Ahead \/ e \in returned \cup Current \cup Unread
      /\ exhausted /\ ~disturbed => returned = Target
  BY <1>3 DEF CompleteInv
<1>5. exhausted' /\ ~disturbed' => returned' = Target
  <2>1. SUFFICES ASSUME exhausted', ~disturbed' PROVE returned = Target
    BY <1>3 DEF Kinds, SaysSo
  <2>2. CASE exhausted
    BY <1>1, <1>4, <2>1, <2>2
  <2>3. CASE Unread = {} /\ Current = {} /\ Ahead = {}
    BY <1>1, <1>4, <2>1, <2>3
  <2> QED BY <1>3, <2>1, <2>2, <2>3 DEF Kinds, SaysSo
<1>6. Current \subseteq Entry /\ Unread \subseteq Entry
  BY DEF Current, TInv, PlaceTypes, Unread, UnreadIn
<1>7. CASE Rests
  <2>1. DirsIn(stackEnumerator)' \subseteq Visited /\ \A e \in Current' : e.dir \in Visited
    BY <1>4, <1>7 DEF Rests
  <2>2. returned' \subseteq Target
    BY <1>4, <1>6, <1>7 DEF Rests, Target
  <2>3. ASSUME ~disturbed', NEW e \in Target
        PROVE  Root \in Ahead' \/ e.dir \in Ahead' \/ e \in returned' \cup Current' \cup Unread'
    <3>1. Ahead' = Ahead /\ Unread' = Unread /\ returned \subseteq returned'
      BY <1>7, <2>3 DEF Rests
    <3>2. e \in Current => e \in returned' \cup Current'
      BY <1>7 DEF Rests, Target
    <3> QED BY <1>1, <1>4, <2>3, <3>1, <3>2
  <2> QED BY <1>5, <2>1, <2>2, <2>3 DEF CompleteInv
<1>8. CASE Reads
  <2>1. PICK e \in Unread :
           /\ Current = {} /\ Current' = {e} /\ UNCHANGED <<returned, repeated>>
           /\ Unread' \subseteq Unread /\ Unread \subseteq Unread' \cup {e}
           /\ DirsIn(stackEnumerator)' = DirsIn(stackEnumerator) /\ e.dir \in DirsIn(stackEnumerator)
           /\ Ahead' = Ahead
    BY <1>8 DEF Reads
  <2>2. /\ DirsIn(stackEnumerator)' \subseteq Visited /\ \A g \in Current' : g.dir \in Visited
        /\ returned' \subseteq Target
    BY <1>4, <2>1
  <2>3. ASSUME ~disturbed', NEW g \in Target
        PROVE  Root \in Ahead' \/ g.dir \in Ahead' \/ g \in returned' \cup Current' \cup Unread'
    BY <1>1, <1>4, <2>1, <2>3
  <2> QED BY <1>5, <2>2, <2>3 DEF CompleteInv
<1>9. ASSUME NEW d \in Dirs, Opens(d) PROVE CompleteInv'
  <2>1. /\ \A e \in Entry : e \in Unread' <=> e \in Unread \/ e.dir = d
        /\ DirsIn(stackEnumerator)' = DirsIn(stackEnumerator) \cup {d}
        /\ Current' = Current /\ UNCHANGED <<returned, repeated>>
        /\ \A x \in Ahead : x = d \/ \E e \in Unread : Entered(e) /\ Leads(e) = x
        /\ \A x : x \in Ahead' <=> x \in Dirs /\ \E e \in Unread' : Entered(e) /\ Leads(e) = x
    BY <1>9 DEF Opens
  <2>2. d \in Visited
    <3>1. CASE Subdirectories
      BY <3>1 DEF Visited
    <3>2. CASE ~Subdirectories
      BY <1>9, <3>2 DEF Opens, Entered, Visited
    <3> QED BY <3>1, <3>2
  <2>3. /\ DirsIn(stackEnumerator)' \subseteq Visited /\ \A g \in Current' : g.dir \in Visited
        /\ returned' \subseteq Target
    BY <1>4, <2>1, <2>2
  <2>4. ASSUME ~disturbed', NEW e \in Target
        PROVE  Root \in Ahead' \/ e.dir \in Ahead' \/ e \in returned' \cup Current' \cup Unread'
    <3>1. e \in Entry /\ e.dir \in Visited /\ Visited \subseteq Dirs
      BY RootEntry DEF Target, Visited
    <3>2. \A x \in Ahead : x = d \/ x \in Ahead'
      <4>1. ASSUME NEW x \in Ahead, NEW g \in Unread, Entered(g), Leads(g) = x PROVE x \in Ahead'
        <5>1. g \in Unread' /\ x \in Dirs
          BY <1>6, <2>1 DEF Ahead
        <5> QED BY <2>1, <4>1, <5>1
      <4> QED BY <2>1, <4>1
    <3>3. CASE e.dir = d
      BY <2>1, <3>1, <3>3
    <3>4. CASE d = Root /\ e.dir # Root
      <4>1. PICK g \in Entry : g.dir = Root /\ Entered(g) /\ Leads(g) = e.dir
        BY <3>1, <3>4, LeadsEverywhere
      <4>2. g \in Unread' /\ e.dir \in Dirs
        BY <2>1, <3>1, <3>4, <4>1
      <4> QED BY <2>1, <4>1, <4>2
    <3>5. CASE d # Root /\ e.dir # d
      <4>1. Root \in Ahead \/ e.dir \in Ahead \/ e \in returned \cup Current \cup Unread
        BY <1>1, <1>4, <2>4
      <4> QED BY <2>1, <3>1, <3>2, <3>5, <4>1
    <3> QED BY <3>3, <3>4, <3>5
  <2> QED BY <1>5, <2>3, <2>4 DEF CompleteInv
<1> QED BY <1>3, <1>7, <1>8, <1>9 DEF Kinds

\* When hasNext() says that there is nothing more, in a directory with one level
\* of sub-directories, and links among them or not, every entry that the filter
\* accepts has been returned, unless a call failed, timed out or was cancelled.
THEOREM NothingLeftOut == ASSUME OneLevel PROVE Spec => []EverythingListed
<1>1. TInv /\ CallInv /\ CompleteInv /\ [Next]_vars => CompleteInv'
  BY NextComplete
<1>2. Spec => []CompleteInv
  BY <1>1, CallHolds, InitComplete, PTL DEF Spec
<1>3. CompleteInv => EverythingListed
  BY DEF CompleteInv, EverythingListed, Target
<1> QED BY <1>2, <1>3, PTL

-----------------------------------------------------------------------------
(* The order of names                                                      *)

\* Induction, for a set of numbers.
LEMMA AllNumbers ==
    ASSUME NEW n \in Nat, NEW G, 0 \in G, \A k \in 1..n : k - 1 \in G => k \in G
    PROVE  \A k \in 0..n : k \in G
<1> DEFINE bad == {k \in 0..n : k \notin G}
<1> SUFFICES ASSUME bad # {} PROVE FALSE
  OBVIOUS
<1>1. PICK k \in bad : \A j \in bad : k <= j
  <2>1. bad \in SUBSET Nat
    OBVIOUS
  <2> HIDE DEF bad
  <2> QED BY <2>1, LeastNumber
<1>2. k \in 1..n /\ k - 1 \in 0..n /\ ~(k <= k - 1)
  BY <1>1
<1>3. k - 1 \notin bad
  BY <1>1, <1>2
<1> QED BY <1>1, <1>2, <1>3

\* Characters that the rules tell apart, as the properties about the order suppose.
PlainChars(chars) == chars \subseteq Char /\ Plain(chars)

\* Any two numbers are less, equal or greater.
LEMMA OrderMeans ==
    ASSUME NEW x \in Int, NEW y \in Int
    PROVE  /\ Order(x, y) \in {-1, 0, 1}
           /\ Order(x, y) = -1 <=> x < y
           /\ Order(x, y) = 0 <=> x = y
           /\ Order(x, y) = 1 <=> y < x
BY DEF Order

LEMMA CharTypes ==
    ASSUME NEW chars, PlainChars(chars), NEW c \in chars
    PROVE  /\ c.code \in Nat /\ c.weight \in Nat /\ c.fold \in Nat /\ c.lower \in BOOLEAN
           /\ c.type \in {NumberType, LetterType, HanType, SymbolType}
           /\ c.lower => c.type = LetterType
           /\ isNumber(c) <=> c.type = NumberType
<1>1. c \in Char
  BY DEF PlainChars
<1>2. c.code \in Nat /\ c.weight \in Nat /\ c.fold \in Nat /\ c.lower \in BOOLEAN /\ c.type \in 0..3
  BY <1>1 DEF Char, NumberType, SymbolType
<1>3. c.lower => c.type = LetterType
  BY <1>1 DEF Char
<1>4. c.type = NumberType => c.code < 65536
  BY DEF PlainChars, Plain
<1>5. c.type \in {NumberType, LetterType, HanType, SymbolType}
  BY <1>2 DEF NumberType, LetterType, HanType, SymbolType
<1> QED BY <1>2, <1>3, <1>4, <1>5 DEF isNumber

\* Of any characters the run of numbers at i ends where the name does or before the first other one.
LEMMA RunSpans ==
    ASSUME NEW chars, chars \subseteq Char, NEW s \in Seq(chars), NEW i \in 1..Len(s)
    PROVE  /\ RunLength(s, i) \in 0..(Len(s) + 1 - i)
           /\ \A k \in i..(i + RunLength(s, i) - 1) : isNumber(s[k])
           /\ i + RunLength(s, i) <= Len(s) => ~isNumber(s[i + RunLength(s, i)])
           /\ isNumber(s[i]) => RunLength(s, i) > 0
<1> DEFINE ends == {k \in i..(Len(s) + 1) : k <= Len(s) => ~isNumber(s[k])}
           end == Min(ends)
<1>1. Len(s) \in Nat /\ i \in Nat /\ \A k \in 1..Len(s) : isNumber(s[k]) \in BOOLEAN
  BY DEF isNumber
<1>3. Len(s) + 1 \in ends /\ ends \in SUBSET Nat
  BY <1>1
<1>4. \E k \in ends : \A l \in ends : k <= l
  <2> HIDE DEF ends
  <2> QED BY <1>3, LeastNumber
<1>5. end \in ends /\ \A l \in ends : end <= l
  <2> HIDE DEF ends
  <2> QED BY <1>4 DEF Min
<1>6. RunLength(s, i) = end - i
  BY DEF RunLength
<1>7. end \in i..(Len(s) + 1) /\ (end <= Len(s) => ~isNumber(s[end]))
  BY <1>1, <1>5
<1>8. ASSUME NEW k \in i..(end - 1) PROVE isNumber(s[k])
  <2>1. k \in 1..Len(s) /\ ~(end <= k)
    BY <1>1, <1>7
  <2>2. k \notin ends
    BY <1>5, <2>1
  <2> QED BY <1>1, <2>1, <2>2
<1> HIDE DEF end
<1>9. end - i \in 0..(Len(s) + 1 - i) /\ i + (end - i) = end
  BY <1>1, <1>7
<1>10. ASSUME isNumber(s[i]) PROVE end - i > 0
  <2>1. end # i
    BY <1>1, <1>7, <1>10
  <2> QED BY <1>1, <1>7, <2>1
<1> QED BY <1>6, <1>7, <1>8, <1>9, <1>10

\* The run of digits at i ends where the name does or before the first other character.
LEMMA RunMeans ==
    ASSUME NEW chars, PlainChars(chars), NEW s \in Seq(chars), NEW i \in 1..Len(s)
    PROVE  /\ RunLength(s, i) \in 0..(Len(s) + 1 - i)
           /\ \A k \in i..(i + RunLength(s, i) - 1) : s[k].type = NumberType
           /\ i + RunLength(s, i) <= Len(s) => s[i + RunLength(s, i)].type # NumberType
           /\ s[i].type = NumberType => RunLength(s, i) > 0
<1> DEFINE r == RunLength(s, i)
<1>1. /\ r \in 0..(Len(s) + 1 - i)
      /\ \A k \in i..(i + r - 1) : isNumber(s[k])
      /\ i + r <= Len(s) => ~isNumber(s[i + r])
      /\ isNumber(s[i]) => r > 0
  BY RunSpans DEF PlainChars
<1>2. \A k \in 1..Len(s) : isNumber(s[k]) <=> s[k].type = NumberType
  <2>1. \A k \in 1..Len(s) : s[k] \in chars
    OBVIOUS
  <2> QED BY <2>1, CharTypes
<1> HIDE DEF r
<1>3. /\ Len(s) \in Nat /\ i \in 1..Len(s) /\ (i + r <= Len(s) => i + r \in 1..Len(s))
      /\ \A k \in i..(i + r - 1) : k \in 1..Len(s)
  BY <1>1
<1> QED BY <1>1, <1>2, <1>3 DEF r

\* The value of a run is a number.
LEMMA ValueMeans ==
    ASSUME NEW chars, PlainChars(chars), NEW run \in Seq(chars) PROVE RunValue(run) \in Int
<1> DEFINE n == Len(run)
           body(g) == [k \in 0..n |-> IF k = 0 THEN 0 ELSE 10 * g[k - 1] + run[k].weight]
           value == CHOOSE g : g = body(g)
           Upto(g, m) == /\ g = [k \in 0..m |-> g[k]]
                         /\ g[0] = 0
                         /\ \A k \in 1..m : g[k] = 10 * g[k - 1] + run[k].weight
<1>1. n \in Nat /\ \A k \in 1..n : run[k].weight \in Nat
  BY CharTypes
<1> DEFINE G == {m \in 0..n : \E g : Upto(g, m)}
<1>2. 0 \in G
  <2> DEFINE g == [k \in 0..0 |-> 0]
  <2>1. Upto(g, 0)
    OBVIOUS
  <2> HIDE DEF g, Upto
  <2> QED BY <1>1, <2>1
<1>3. ASSUME NEW m \in 1..n, m - 1 \in G PROVE m \in G
  <2>1. PICK g : Upto(g, m - 1)
    BY <1>3
  <2> DEFINE h == [k \in 0..m |-> IF k = m THEN 10 * g[m - 1] + run[m].weight ELSE g[k]]
  <2>2. \A k \in 0..(m - 1) : k \in 0..m /\ k # m /\ h[k] = g[k]
    BY <1>1
  <2>3. h[m] = 10 * g[m - 1] + run[m].weight /\ h[m - 1] = g[m - 1] /\ h[0] = g[0]
    BY <1>1, <2>2
  <2>4. h = [k \in 0..m |-> h[k]]
    OBVIOUS
  <2> HIDE DEF h
  <2>5. ASSUME NEW k \in 1..m PROVE h[k] = 10 * h[k - 1] + run[k].weight
    <3>1. CASE k = m
      BY <2>3, <3>1
    <3>2. CASE k # m
      <4>1. k \in 1..(m - 1) /\ k \in 0..(m - 1) /\ k - 1 \in 0..(m - 1)
        BY <1>1, <3>2
      <4> QED BY <2>1, <2>2, <4>1
    <3> QED BY <3>1, <3>2
  <2>6. Upto(h, m)
    BY <2>1, <2>3, <2>4, <2>5
  <2> HIDE DEF Upto
  <2> QED BY <2>6
<1>4. n \in G
  <2> HIDE DEF G
  <2>1. \A k \in 1..n : k - 1 \in G => k \in G
    BY <1>3
  <2>2. \A k \in 0..n : k \in G
    BY <1>1, <1>2, <2>1, AllNumbers
  <2> QED BY <1>1, <2>2
<1>5. PICK g : Upto(g, n)
  BY <1>4
<1>6. g = body(g)
  <2>1. ASSUME NEW k \in 0..n PROVE g[k] = IF k = 0 THEN 0 ELSE 10 * g[k - 1] + run[k].weight
    <3>1. k = 0 \/ (k # 0 /\ k \in 1..n)
      BY <1>1
    <3> QED BY <1>5, <3>1
  <2> QED BY <1>5, <2>1
<1>7. value = body(value)
  <2> HIDE DEF body
  <2> QED BY <1>6
<1> HIDE DEF value
<1>8. value[0] = 0 /\ \A k \in 1..n : value[k] = 10 * value[k - 1] + run[k].weight
  BY <1>1, <1>7
<1> DEFINE V == {m \in 0..n : value[m] \in Nat}
<1>9. 0 \in V
  BY <1>1, <1>8
<1>10. ASSUME NEW k \in 1..n, k - 1 \in V PROVE k \in V
  BY <1>1, <1>8, <1>10
<1>11. n \in V
  <2> HIDE DEF V
  <2>1. \A k \in 1..n : k - 1 \in V => k \in V
    BY <1>10
  <2>2. \A k \in 0..n : k \in V
    BY <1>1, <1>9, <2>1, AllNumbers
  <2> QED BY <1>1, <2>2
<1>12. RunValue(run) = IF run = <<>> THEN -1 ELSE value[n]
  BY DEF RunValue, value
<1> QED BY <1>11, <1>12

\* What a key consists of, and of whose keys: at a digit, the value of the run and its length.
LEMMA KeyMeans ==
    ASSUME NEW chars, PlainChars(chars), NEW s \in Seq(chars), NEW i \in 1..Len(s)
    PROVE  /\ KeyAt(s, i) \in Int \X Int \X Int
           /\ KeyAt(s, i)[1] = s[i].type
           /\ s[i].type = NumberType =>
                 KeyAt(s, i) = <<NumberType, RunValue(numberStr(s, i)), -RunLength(s, i)>>
           /\ s[i].type \in {LetterType, HanType} =>
                 KeyAt(s, i) = <<s[i].type, s[i].weight, IF s[i].lower THEN 0 ELSE 1>>
           /\ s[i].type = SymbolType => KeyAt(s, i) = <<SymbolType, s[i].code, 0>>
<1> DEFINE c == s[i]
<1>1. Len(s) \in Nat /\ i \in Nat /\ \A k \in 1..Len(s) : s[k] \in chars
  OBVIOUS
<1>2. /\ c.code \in Nat /\ c.weight \in Nat
      /\ c.type \in {NumberType, LetterType, HanType, SymbolType}
  BY <1>1, CharTypes
<1>3. NumberType = 0 /\ LetterType = 1 /\ HanType = 2 /\ SymbolType = 3
  BY DEF NumberType, LetterType, HanType, SymbolType
<1>4. ASSUME c.type = NumberType
      PROVE  /\ KeyAt(s, i) = <<NumberType, RunValue(numberStr(s, i)), -RunLength(s, i)>>
             /\ KeyAt(s, i) \in Int \X Int \X Int
  <2> DEFINE r == RunLength(s, i)
             IsEnd(j) == /\ \A k \in i..j : s[k].type = NumberType
                         /\ j < Len(s) => s[j + 1].type # NumberType
             last == CHOOSE j \in i..Len(s) : IsEnd(j)
  <2>1. /\ r \in Nat /\ r > 0 /\ r <= Len(s) + 1 - i
        /\ \A k \in i..(i + r - 1) : s[k].type = NumberType
        /\ i + r <= Len(s) => s[i + r].type # NumberType
    <3>1. r \in 0..(Len(s) + 1 - i)
      BY RunMeans
    <3>2. r > 0
      BY <1>4, RunMeans
    <3> HIDE DEF r
    <3>3. r \in Nat /\ r <= Len(s) + 1 - i
      BY <1>1, <3>1
    <3> QED BY <3>2, <3>3, RunMeans DEF r
  <2> HIDE DEF r
  <2>2. i + r - 1 \in i..Len(s) /\ IsEnd(i + r - 1)
    <3>1. i + r - 1 \in i..Len(s) /\ (i + r - 1) + 1 = i + r
      BY <1>1, <2>1
    <3>2. i + r - 1 < Len(s) => i + r <= Len(s)
      BY <1>1, <2>1
    <3> QED BY <2>1, <3>1, <3>2
  <2>3. last \in i..Len(s) /\ IsEnd(last)
    <3> HIDE DEF IsEnd
    <3> QED BY <2>2
  <2> HIDE DEF last
  <2>4. ~(last < i + r - 1)
    <3> SUFFICES ASSUME last < i + r - 1 PROVE FALSE
      OBVIOUS
    <3>1. last < Len(s) /\ last + 1 \in i..(i + r - 1)
      BY <1>1, <2>1, <2>3
    <3> QED BY <2>1, <2>3, <3>1
  <2>5. ~(i + r - 1 < last)
    <3> SUFFICES ASSUME i + r - 1 < last PROVE FALSE
      OBVIOUS
    <3>1. i + r <= Len(s) /\ i + r \in i..last
      BY <1>1, <2>1, <2>3
    <3> QED BY <2>1, <2>3, <3>1
  <2>6. last = i + r - 1
    BY <1>1, <2>1, <2>3, <2>4, <2>5
  <2>7. RunAt(s, i) = numberStr(s, i)
    BY <2>6 DEF RunAt, numberStr, r, last
  <2>8. numberStr(s, i) = SubSeq(s, i, i + r - 1)
    BY DEF numberStr, r
  <2>9. numberStr(s, i) \in Seq(chars) /\ Len(numberStr(s, i)) = r
    <3>1. \A k \in i..(i + r - 1) : s[k] \in chars
      BY <1>1, <2>2
    <3>2. i \in Int /\ i + r - 1 \in Int
      BY <1>1, <2>1
    <3>3. SubSeq(s, i, i + r - 1) \in Seq(chars)
      BY <1>1, <2>2, <3>1, <3>2, SubSeqProperties
    <3>4. Len(SubSeq(s, i, i + r - 1)) = r
      BY <1>1, <2>1, <2>2, <3>2, SubSeqProperties
    <3> QED BY <2>8, <3>3, <3>4
  <2>10. RunValue(numberStr(s, i)) \in Int
    BY <2>9, ValueMeans
  <2>11. KeyAt(s, i) = <<NumberType, RunValue(RunAt(s, i)), -Len(RunAt(s, i))>>
    <3>1. c.type # LetterType /\ c.type # HanType /\ c.type # SymbolType
      BY <1>3, <1>4
    <3> QED BY <1>4, <3>1 DEF KeyAt
  <2>12. KeyAt(s, i) = <<NumberType, RunValue(numberStr(s, i)), -r>>
    BY <2>7, <2>9, <2>11
  <2> QED BY <1>3, <2>1, <2>10, <2>12 DEF r
<1>5. ASSUME c.type \in {LetterType, HanType}
      PROVE  KeyAt(s, i) = <<c.type, c.weight, IF c.lower THEN 0 ELSE 1>>
  <2>1. c.type # NumberType /\ c.type # SymbolType
    BY <1>3, <1>5
  <2> QED BY <1>5, <2>1 DEF KeyAt
<1>6. ASSUME c.type = SymbolType PROVE KeyAt(s, i) = <<SymbolType, c.code, 0>>
  BY <1>3, <1>6 DEF KeyAt
<1>7. KeyAt(s, i)[1] = c.type /\ KeyAt(s, i) \in Int \X Int \X Int
  BY <1>2, <1>3, <1>4, <1>5, <1>6
<1> QED BY <1>4, <1>5, <1>6, <1>7

\* Of two keys the lesser one is so at their first difference.
LEMMA LessMeans ==
    ASSUME NEW a \in Int \X Int \X Int, NEW b \in Int \X Int \X Int
    PROVE  KeyLess(a, b) <=> \/ a[1] < b[1]
                             \/ a[1] = b[1] /\ a[2] < b[2]
                             \/ a[1] = b[1] /\ a[2] = b[2] /\ a[3] < b[3]
<1>1. 1..(1 - 1) = {} /\ 1..(2 - 1) = {1} /\ 1..(3 - 1) = {1, 2} /\ 1..3 = {1, 2, 3}
  OBVIOUS
<1> QED BY <1>1 DEF KeyLess

\* Keys are in a strict order, and one of two different ones is less.
LEMMA KeysOrdered ==
    ASSUME NEW a \in Int \X Int \X Int, NEW b \in Int \X Int \X Int, NEW c \in Int \X Int \X Int
    PROVE  /\ ~KeyLess(a, a)
           /\ KeyLess(a, b) /\ KeyLess(b, c) => KeyLess(a, c)
<1>1. /\ a[1] \in Int /\ a[2] \in Int /\ a[3] \in Int
      /\ b[1] \in Int /\ b[2] \in Int /\ b[3] \in Int
      /\ c[1] \in Int /\ c[2] \in Int /\ c[3] \in Int
  OBVIOUS
<1>2. KeyLess(a, b) <=> \/ a[1] < b[1]
                        \/ a[1] = b[1] /\ a[2] < b[2]
                        \/ a[1] = b[1] /\ a[2] = b[2] /\ a[3] < b[3]
  BY LessMeans
<1>3. KeyLess(b, c) <=> \/ b[1] < c[1]
                        \/ b[1] = c[1] /\ b[2] < c[2]
                        \/ b[1] = c[1] /\ b[2] = c[2] /\ b[3] < c[3]
  BY LessMeans
<1>4. KeyLess(a, c) <=> \/ a[1] < c[1]
                        \/ a[1] = c[1] /\ a[2] < c[2]
                        \/ a[1] = c[1] /\ a[2] = c[2] /\ a[3] < c[3]
  BY LessMeans
<1>5. KeyLess(a, a) <=> \/ a[1] < a[1]
                        \/ a[1] = a[1] /\ a[2] < a[2]
                        \/ a[1] = a[1] /\ a[2] = a[2] /\ a[3] < a[3]
  BY LessMeans
<1> QED BY <1>1, <1>2, <1>3, <1>4, <1>5

\* At one position two names compare as their keys there.
LEMMA CompareMeans ==
    ASSUME NEW chars, PlainChars(chars), NEW s \in Seq(chars), NEW t \in Seq(chars),
           NEW i \in 1..Len(s), i \in 1..Len(t)
    PROVE  /\ CompareAt(s, t, i) \in {-1, 0, 1}
           /\ CompareAt(s, t, i) = -1 => KeyLess(KeyAt(s, i), KeyAt(t, i))
           /\ CompareAt(s, t, i) = 1 => KeyLess(KeyAt(t, i), KeyAt(s, i))
           /\ CompareAt(s, t, i) = 0 => KeyAt(s, i) = KeyAt(t, i)
<1> DEFINE c == s[i]
           d == t[i]
           a == KeyAt(s, i)
           b == KeyAt(t, i)
           C == CompareAt(s, t, i)
<1>1. c \in chars /\ d \in chars
  OBVIOUS
<1>2. /\ c.code \in Nat /\ c.weight \in Nat /\ c.lower \in BOOLEAN
      /\ c.type \in {NumberType, LetterType, HanType, SymbolType}
      /\ c.lower => c.type = LetterType
  BY <1>1, CharTypes
<1>3. /\ d.code \in Nat /\ d.weight \in Nat /\ d.lower \in BOOLEAN
      /\ d.type \in {NumberType, LetterType, HanType, SymbolType}
      /\ d.lower => d.type = LetterType
  BY <1>1, CharTypes
<1>4. NumberType = 0 /\ LetterType = 1 /\ HanType = 2 /\ SymbolType = 3
  BY DEF NumberType, LetterType, HanType, SymbolType
<1>5. a \in Int \X Int \X Int /\ a[1] = c.type
  BY KeyMeans
<1>6. b \in Int \X Int \X Int /\ b[1] = d.type
  BY KeyMeans
<1>7. KeyLess(a, b) <=> \/ a[1] < b[1]
                        \/ a[1] = b[1] /\ a[2] < b[2]
                        \/ a[1] = b[1] /\ a[2] = b[2] /\ a[3] < b[3]
  BY <1>5, <1>6, LessMeans
<1>8. KeyLess(b, a) <=> \/ b[1] < a[1]
                        \/ b[1] = a[1] /\ b[2] < a[2]
                        \/ b[1] = a[1] /\ b[2] = a[2] /\ b[3] < a[3]
  BY <1>5, <1>6, LessMeans
<1>9. a[1] = b[1] /\ a[2] = b[2] /\ a[3] = b[3] => a = b
  BY <1>5, <1>6
<1>10. CASE c.type # d.type
  <2>1. C = Order(c.type, d.type)
    BY <1>10 DEF CompareAt
  <2>2. c.type \in Int /\ d.type \in Int
    BY <1>2, <1>3, <1>4
  <2> HIDE DEF a, b, c, d, C
  <2> QED BY <1>5, <1>6, <1>7, <1>8, <1>10, <2>1, <2>2, OrderMeans DEF a, b, C
<1>11. CASE c.type = d.type /\ c.type = NumberType
  <2> DEFINE v == RunValue(numberStr(s, i))
             w == RunValue(numberStr(t, i))
             m == RunLength(s, i)
             n == RunLength(t, i)
  <2>1. a = <<NumberType, v, -m>> /\ b = <<NumberType, w, -n>>
    BY <1>11, KeyMeans
  <2>2. m \in 0..(Len(s) + 1 - i) /\ n \in 0..(Len(t) + 1 - i)
    BY RunMeans
  <2>3. C = IF Order(v, w) # 0 THEN Order(v, w) ELSE Order(n, m)
    BY <1>11 DEF CompareAt, CompareNumbers
  <2> HIDE DEF a, b, c, d, C, v, w, m, n
  <2>4. m \in Int /\ n \in Int /\ v \in Int /\ w \in Int
    BY <1>5, <1>6, <2>1, <2>2
  <2>5. a[1] = b[1] /\ a[2] = v /\ b[2] = w /\ a[3] = -m /\ b[3] = -n
    BY <2>1
  <2>6. /\ Order(v, w) \in {-1, 0, 1}
        /\ Order(v, w) = -1 <=> v < w
        /\ Order(v, w) = 0 <=> v = w
        /\ Order(v, w) = 1 <=> w < v
    BY <2>4, OrderMeans
  <2>7. /\ Order(n, m) \in {-1, 0, 1}
        /\ Order(n, m) = -1 <=> n < m
        /\ Order(n, m) = 0 <=> n = m
        /\ Order(n, m) = 1 <=> m < n
    BY <2>4, OrderMeans
  <2>8. n < m <=> -m < -n
    BY <2>4
  <2>9. m < n <=> -n < -m
    BY <2>4
  <2>10. CASE v # w
    BY <1>7, <1>8, <2>3, <2>5, <2>6, <2>10 DEF a, b, C
  <2>11. CASE v = w
    BY <1>7, <1>8, <1>9, <2>3, <2>5, <2>6, <2>7, <2>8, <2>9, <2>11 DEF a, b, C
  <2> QED BY <2>10, <2>11
<1>12. CASE c.type = d.type /\ c.type \in {LetterType, HanType}
  <2> DEFINE l == IF c.lower THEN 0 ELSE 1
             k == IF d.lower THEN 0 ELSE 1
  <2>1. a = <<c.type, c.weight, l>> /\ b = <<d.type, d.weight, k>>
    BY <1>12, KeyMeans
  <2>2. C = CompareLetters(c, d)
    <3>1. c.type # NumberType /\ c.type # SymbolType
      BY <1>4, <1>12
    <3> QED BY <1>12, <3>1 DEF CompareAt, CompareChars
  <2>3. c.weight = d.weight /\ c.lower # d.lower => c.fold = d.fold
    <3>1. c.lower # d.lower => c.type = LetterType /\ d.type = LetterType
      BY <1>2, <1>3, <1>12
    <3> QED BY <1>1, <3>1 DEF PlainChars, Plain
  <2>4. /\ Order(c.weight, d.weight) \in {-1, 0, 1}
        /\ Order(c.weight, d.weight) = -1 <=> c.weight < d.weight
        /\ Order(c.weight, d.weight) = 0 <=> c.weight = d.weight
        /\ Order(c.weight, d.weight) = 1 <=> d.weight < c.weight
    BY <1>2, <1>3, OrderMeans
  <2> HIDE DEF a, b, c, d, C
  <2>5. a[1] = b[1] /\ a[2] = c.weight /\ b[2] = d.weight /\ a[3] = l /\ b[3] = k
    BY <1>12, <2>1
  <2>6. CASE c.weight # d.weight
    BY <1>7, <1>8, <2>2, <2>4, <2>5, <2>6 DEF a, b, C, CompareLetters
  <2>7. CASE c.weight = d.weight /\ c.lower # d.lower
    <3>1. C = IF c.lower THEN -1 ELSE 1
      BY <2>2, <2>3, <2>7 DEF CompareLetters
    <3>2. (c.lower /\ l = 0 /\ k = 1 /\ C = -1) \/ (~c.lower /\ l = 1 /\ k = 0 /\ C = 1)
      BY <1>2, <1>3, <2>7, <3>1
    <3> HIDE DEF l, k
    <3> QED BY <1>7, <1>8, <2>5, <2>7, <3>2 DEF a, b, C
  <2>8. CASE c.weight = d.weight /\ c.lower = d.lower
    <3>1. C = 0 /\ l = k
      BY <2>2, <2>8 DEF CompareLetters
    <3> HIDE DEF l, k
    <3> QED BY <1>9, <2>5, <2>8, <3>1 DEF a, b, C
  <2> QED BY <2>6, <2>7, <2>8
<1>13. CASE c.type = d.type /\ c.type = SymbolType
  <2>1. a = <<SymbolType, c.code, 0>> /\ b = <<SymbolType, d.code, 0>>
    BY <1>13, KeyMeans
  <2>2. C = Order(c.code, d.code)
    <3>1. c.type # NumberType
      BY <1>4, <1>13
    <3> QED BY <1>13, <3>1 DEF CompareAt, CompareChars
  <2>3. c.code \in Int /\ d.code \in Int
    BY <1>2, <1>3
  <2> HIDE DEF a, b, c, d, C
  <2> QED BY <1>7, <1>8, <1>9, <2>1, <2>2, <2>3, OrderMeans DEF a, b, C
<1> QED BY <1>2, <1>10, <1>11, <1>12, <1>13

\* How far the comparison goes on after two equal keys.
Step(s, i) == IF s[i].type = NumberType THEN RunLength(s, i) ELSE 1

\* One step leads from a key to the next one or to the end.
LEMMA StepMeans ==
    ASSUME NEW chars, PlainChars(chars), NEW s \in Seq(chars), NEW i \in KeyStarts(s)
    PROVE  /\ Step(s, i) \in Nat /\ Step(s, i) > 0 /\ i + Step(s, i) <= Len(s) + 1
           /\ i + Step(s, i) <= Len(s) => i + Step(s, i) \in KeyStarts(s)
           /\ \A k \in KeyStarts(s) : k < i + Step(s, i) <=> k < i \/ k = i
<1>1. Len(s) \in Nat /\ DOMAIN s = 1..Len(s) /\ i \in 1..Len(s)
  BY DEF KeyStarts
<1>2. CASE s[i].type # NumberType
  <2>1. Step(s, i) = 1
    BY <1>2 DEF Step
  <2>2. i + 1 <= Len(s) => i + 1 \in KeyStarts(s)
    <3>1. (i + 1) - 1 = i
      BY <1>1
    <3> QED BY <1>1, <1>2, <3>1 DEF KeyStarts
  <2>3. \A k \in KeyStarts(s) : k \in 1..Len(s)
    BY <1>1 DEF KeyStarts
  <2> QED BY <1>1, <2>1, <2>2, <2>3
<1>3. CASE s[i].type = NumberType
  <2> DEFINE r == RunLength(s, i)
  <2>1. Step(s, i) = r
    BY <1>3 DEF Step
  <2>2. /\ r \in 0..(Len(s) + 1 - i)
        /\ \A k \in i..(i + r - 1) : s[k].type = NumberType
        /\ i + r <= Len(s) => s[i + r].type # NumberType
        /\ r > 0
    BY <1>1, <1>3, RunMeans
  <2> HIDE DEF r
  <2>3. r \in Nat /\ r <= Len(s) + 1 - i
    BY <1>1, <2>2
  <2>4. i + r <= Len(s) => i + r \in KeyStarts(s)
    <3>1. i + r <= Len(s) => i + r \in 1..Len(s)
      BY <1>1, <2>3
    <3> QED BY <1>1, <2>2, <3>1 DEF KeyStarts
  <2>5. ASSUME NEW k \in KeyStarts(s), i < k, k < i + r PROVE FALSE
    <3>1. k \in 1..Len(s) /\ k > 1 /\ k \in i..(i + r - 1) /\ k - 1 \in i..(i + r - 1)
      BY <1>1, <2>3, <2>5 DEF KeyStarts
    <3>2. s[k].type = NumberType /\ s[k - 1].type = NumberType
      BY <2>2, <3>1
    <3> QED BY <2>5, <3>1, <3>2 DEF KeyStarts
  <2>6. \A k \in KeyStarts(s) : k \in 1..Len(s)
    BY <1>1 DEF KeyStarts
  <2>7. \A k \in KeyStarts(s) : k < i + r <=> k < i \/ k = i
    BY <1>1, <2>2, <2>3, <2>5, <2>6
  <2> QED BY <1>1, <2>1, <2>2, <2>3, <2>4, <2>7
<1> QED BY <1>2, <1>3

\* One round of the loop of compareUnified(): what it returns, or what the rounds from further on do.
Round(g, s, t, i) ==
    IF i > Len(s) \/ i > Len(t) THEN Order(Len(s), Len(t))
    ELSE IF CompareAt(s, t, i) # 0 THEN CompareAt(s, t, i)
    ELSE IF Step(s, i) = 0 THEN Endless
    ELSE g[i + Step(s, i)]

IsLoop(g, s, t) == g = [i \in 1..(Len(s) + 1) |-> Round(g, s, t, i)]

\* The loop goes forward, so every round has a result.
LEMMA LoopExists ==
    ASSUME NEW chars, chars \subseteq Char, NEW s \in Seq(chars), NEW t
    PROVE  \E g : IsLoop(g, s, t)
<1> DEFINE n == Len(s)
           From(g, m) == g = [i \in m..(n + 1) |-> g[i]] /\ \A i \in m..(n + 1) : g[i] = Round(g, s, t, i)
           G == {k \in 0..n : \E g : From(g, n + 1 - k)}
<1>1. n \in Nat
  OBVIOUS
<1>2. \A i \in 1..n : Step(s, i) \in 0..(n + 1 - i)
  <2>1. \A i \in 1..n : RunLength(s, i) \in 0..(n + 1 - i)
    BY RunSpans
  <2>2. \A i \in 1..n : 1 \in 0..(n + 1 - i)
    BY <1>1
  <2> QED BY <2>1, <2>2 DEF Step
<1> HIDE DEF n
<1>3. 0 \in G
  <2> DEFINE g == [i \in (n + 1)..(n + 1) |-> Order(n, Len(t))]
  <2>1. \A i \in (n + 1)..(n + 1) : g[i] = Round(g, s, t, i)
    BY <1>1 DEF Round, n
  <2>2. g = [i \in (n + 1)..(n + 1) |-> g[i]]
    OBVIOUS
  <2>3. n + 1 - 0 = n + 1 /\ 0 \in 0..n
    BY <1>1
  <2> HIDE DEF g
  <2>4. From(g, n + 1 - 0)
    BY <2>1, <2>2, <2>3
  <2> HIDE DEF From
  <2> QED BY <2>3, <2>4
<1>4. ASSUME NEW k \in 1..n, k - 1 \in G PROVE k \in G
  <2> DEFINE m == n + 1 - k
  <2>1. m \in 1..n /\ n + 1 - (k - 1) = m + 1 /\ k \in 0..n
    BY <1>1
  <2>2. PICK g : From(g, m + 1)
    BY <1>4, <2>1
  <2> HIDE DEF m
  <2> DEFINE h == [i \in m..(n + 1) |-> IF i = m THEN Round(g, s, t, m) ELSE g[i]]
  <2>3. \A i \in (m + 1)..(n + 1) : i \in m..(n + 1) /\ i # m /\ h[i] = g[i]
    BY <1>1, <2>1
  <2>4. h[m] = Round(g, s, t, m)
    BY <1>1, <2>1
  <2>5. h = [i \in m..(n + 1) |-> h[i]]
    OBVIOUS
  <2> HIDE DEF h
  <2>6. ASSUME NEW i \in m..(n + 1) PROVE Round(h, s, t, i) = Round(g, s, t, i)
    <3>1. CASE i = n + 1
      BY <1>1, <3>1 DEF Round, n
    <3>2. CASE i # n + 1 /\ Step(s, i) # 0
      <4>1. i \in 1..n
        BY <1>1, <2>1, <3>2
      <4>2. Step(s, i) \in 0..(n + 1 - i)
        BY <1>2, <4>1
      <4>3. i + Step(s, i) \in (m + 1)..(n + 1)
        BY <1>1, <2>1, <3>2, <4>1, <4>2
      <4> QED BY <2>3, <4>3 DEF Round
    <3>3. CASE Step(s, i) = 0
      BY <3>3 DEF Round
    <3> QED BY <3>1, <3>2, <3>3
  <2>7. ASSUME NEW i \in m..(n + 1) PROVE h[i] = Round(h, s, t, i)
    <3>1. i = m \/ (i \in (m + 1)..(n + 1))
      BY <1>1, <2>1
    <3>2. h[i] = Round(g, s, t, i)
      BY <2>2, <2>3, <2>4, <3>1
    <3> QED BY <2>6, <3>2
  <2>8. From(h, m)
    BY <2>5, <2>7
  <2> HIDE DEF From
  <2> QED BY <2>1, <2>8 DEF m
<1>5. n \in G
  <2> HIDE DEF G
  <2>1. \A k \in 1..n : k - 1 \in G => k \in G
    BY <1>4
  <2>2. \A k \in 0..n : k \in G
    BY <1>1, <1>3, <2>1, AllNumbers
  <2> QED BY <1>1, <2>2
<1>6. PICK g : From(g, 1)
  <2>1. n + 1 - n = 1
    BY <1>1
  <2> QED BY <1>5, <2>1
<1>7. g = [i \in 1..(n + 1) |-> Round(g, s, t, i)]
  BY <1>6
<1> QED BY <1>7 DEF IsLoop, n

\* What every round of the loop returns.
LEMMA LoopMeans ==
    ASSUME NEW chars, chars \subseteq Char, NEW s \in Seq(chars), NEW t
    PROVE  \E g : /\ compareUnified(s, t) = g[1]
                  /\ \A i \in 1..(Len(s) + 1) : g[i] = Round(g, s, t, i)
<1> DEFINE body(g) == [i \in 1..(Len(s) + 1) |-> Round(g, s, t, i)]
           from == CHOOSE g : g = body(g)
<1>1. compareUnified(s, t) = from[1]
  BY DEF compareUnified, Round, Step
<1>2. from = body(from)
  <2>1. PICK g : IsLoop(g, s, t)
    BY LoopExists
  <2>2. g = body(g)
    BY <2>1 DEF IsLoop
  <2> HIDE DEF body
  <2> QED BY <2>2
<1> HIDE DEF from
<1> QED BY <1>1, <1>2

\* The keys of two names up to a position are the same.
LEMMA KeysBeforeMeans ==
    ASSUME NEW s, NEW t, NEW i
    PROVE  KeysBefore(s, i) = KeysBefore(t, i) <=>
              /\ {j \in KeyStarts(s) : j < i} = {j \in KeyStarts(t) : j < i}
              /\ \A k \in KeyStarts(s) : k < i => KeyAt(s, k) = KeyAt(t, k)
<1> DEFINE S == {j \in KeyStarts(s) : j < i}
           T == {j \in KeyStarts(t) : j < i}
<1>1. KeysBefore(s, i) = [k \in S |-> KeyAt(s, k)] /\ KeysBefore(t, i) = [k \in T |-> KeyAt(t, k)]
  BY DEF KeysBefore
<1>2. (\A k \in KeyStarts(s) : k < i => KeyAt(s, k) = KeyAt(t, k)) <=> \A k \in S : KeyAt(s, k) = KeyAt(t, k)
  OBVIOUS
<1> HIDE DEF S, T
<1>3. [k \in S |-> KeyAt(s, k)] = [k \in T |-> KeyAt(t, k)] <=> S = T /\ \A k \in S : KeyAt(s, k) = KeyAt(t, k)
  OBVIOUS
<1> QED BY <1>1, <1>2, <1>3 DEF S, T

\* Two names that are the same up to a key, and at it, are the same up to where the next one is.
LEMMA KeysGrow ==
    ASSUME NEW chars, PlainChars(chars), NEW s \in Seq(chars), NEW t \in Seq(chars),
           NEW i \in KeyStarts(s), i \in KeyStarts(t),
           KeysBefore(s, i) = KeysBefore(t, i), KeyAt(s, i) = KeyAt(t, i)
    PROVE  /\ Step(t, i) = Step(s, i)
           /\ KeysBefore(s, i + Step(s, i)) = KeysBefore(t, i + Step(s, i))
<1>1. i \in 1..Len(s) /\ i \in 1..Len(t)
  BY DEF KeyStarts
<1>2. s[i].type = t[i].type
  BY <1>1, KeyMeans
<1>3. Step(t, i) = Step(s, i)
  <2>1. CASE s[i].type # NumberType
    BY <1>2, <2>1 DEF Step
  <2>2. CASE s[i].type = NumberType
    <3>1. KeyAt(s, i) = <<NumberType, RunValue(numberStr(s, i)), -RunLength(s, i)>>
      BY <1>1, <2>2, KeyMeans
    <3>2. KeyAt(t, i) = <<NumberType, RunValue(numberStr(t, i)), -RunLength(t, i)>>
      BY <1>1, <1>2, <2>2, KeyMeans
    <3>3. RunLength(s, i) \in 0..(Len(s) + 1 - i) /\ RunLength(t, i) \in 0..(Len(t) + 1 - i)
      BY <1>1, RunMeans
    <3>4. RunLength(s, i) \in Int /\ RunLength(t, i) \in Int
      BY <3>3
    <3> DEFINE p == -RunLength(s, i)
               q == -RunLength(t, i)
    <3>5. p = q
      <4>1. KeyAt(s, i) = <<NumberType, RunValue(numberStr(s, i)), p>>
        BY <3>1
      <4>2. KeyAt(t, i) = <<NumberType, RunValue(numberStr(t, i)), q>>
        BY <3>2
      <4> HIDE DEF p, q
      <4>3. <<NumberType, RunValue(numberStr(s, i)), p>> = <<NumberType, RunValue(numberStr(t, i)), q>>
        BY <4>1, <4>2
      <4> QED BY <4>3
    <3>6. RunLength(s, i) = RunLength(t, i)
      BY <3>4, <3>5
    <3> QED BY <1>2, <3>6 DEF Step
  <2> QED BY <2>1, <2>2
<1> DEFINE e == i + Step(s, i)
<1>4. \A k \in KeyStarts(s) : k < e <=> k < i \/ k = i
  BY StepMeans
<1>5. \A k \in KeyStarts(t) : k < e <=> k < i \/ k = i
  BY <1>3, StepMeans
<1> HIDE DEF e
<1>6. /\ {j \in KeyStarts(s) : j < i} = {j \in KeyStarts(t) : j < i}
      /\ \A k \in KeyStarts(s) : k < i => KeyAt(s, k) = KeyAt(t, k)
  BY KeysBeforeMeans
<1>7. {j \in KeyStarts(s) : j < e} = {j \in KeyStarts(t) : j < e}
  BY <1>4, <1>5, <1>6
<1>8. \A k \in KeyStarts(s) : k < e => KeyAt(s, k) = KeyAt(t, k)
  BY <1>4, <1>6
<1>9. KeysBefore(s, e) = KeysBefore(t, e)
  BY <1>7, <1>8, KeysBeforeMeans
<1> QED BY <1>3, <1>9 DEF e

\* Two names with the same keys.
SameKeys(s, t) == Len(s) = Len(t) /\ KeysBefore(s, Len(s) + 1) = KeysBefore(t, Len(t) + 1)

\* The result c of the comparison is that of the rules.
ByRule(c, s, t) ==
    /\ c \in {-1, 0, 1}
    /\ c = -1 => ComesFirst(s, t)
    /\ c = 1 => ComesFirst(t, s)
    /\ c = 0 => SameKeys(s, t)

\* Wherever the names are the same so far, the rest of the loop decides as the rules do.
LEMMA LoopByRule ==
    ASSUME NEW chars, PlainChars(chars), NEW s \in Seq(chars), NEW t \in Seq(chars)
    PROVE  ByRule(compareUnified(s, t), s, t)
<1> DEFINE m == Len(s)
           n == Len(t)
           Ready(i) == /\ i \in KeyStarts(s) \/ i = m + 1
                       /\ i \in KeyStarts(t) \/ i = n + 1
                       /\ KeysBefore(s, i) = KeysBefore(t, i)
<1>1. m \in Nat /\ n \in Nat /\ \A i \in KeyStarts(s) : i \in 1..m
  BY DEF KeyStarts
<1>2. \A i \in KeyStarts(t) : i \in 1..n
  BY DEF KeyStarts
<1>3. PICK g : /\ compareUnified(s, t) = g[1]
               /\ \A i \in 1..(m + 1) : g[i] = Round(g, s, t, i)
  BY LoopMeans DEF PlainChars
<1> DEFINE bad == {k \in 0..m : Ready(m + 1 - k) /\ ~ByRule(g[m + 1 - k], s, t)}
<1>4. bad = {}
  <2> SUFFICES ASSUME bad # {} PROVE FALSE
    OBVIOUS
  <2>1. PICK k \in bad : \A l \in bad : k <= l
    <3>1. bad \in SUBSET Nat
      BY <1>1
    <3> HIDE DEF bad
    <3> QED BY <3>1, LeastNumber
  <2> DEFINE i == m + 1 - k
  <2>2. k \in 0..m /\ i \in 1..(m + 1) /\ Ready(i) /\ ~ByRule(g[i], s, t)
    BY <1>1, <2>1
  <2>3. g[i] = Round(g, s, t, i)
    BY <1>3, <2>2
  <2>4. CASE i = m + 1
    <3>1. g[i] = Order(m, n)
      BY <1>1, <2>3, <2>4 DEF Round
    <3> HIDE DEF m, n
    <3>2. m <= n
      BY <1>1, <1>2, <2>2, <2>4
    <3>3. CASE m = n
      <4>1. g[i] = 0
        BY <1>1, <3>1, <3>3, OrderMeans
      <4>2. SameKeys(s, t)
        BY <2>2, <2>4, <3>3 DEF SameKeys, m, n
      <4> QED BY <2>2, <4>1, <4>2 DEF ByRule
    <3>4. CASE m < n
      <4>1. g[i] = -1
        BY <1>1, <3>1, <3>4, OrderMeans
      <4>2. i \in KeyStarts(t) /\ i > m
        BY <1>1, <2>2, <2>4, <3>4
      <4>3. ComesFirst(s, t)
        BY <2>2, <4>2 DEF ComesFirst, m
      <4> QED BY <2>2, <4>1, <4>3 DEF ByRule
    <3> QED BY <1>1, <3>2, <3>3, <3>4
  <2>5. CASE i # m + 1 /\ i = n + 1
    <3>1. i \in KeyStarts(s) /\ i > n /\ n < m
      BY <1>1, <2>2, <2>5
    <3>2. g[i] = Order(m, n)
      BY <2>3, <3>1 DEF Round
    <3>3. g[i] = 1
      BY <1>1, <3>1, <3>2, OrderMeans
    <3>4. ComesFirst(t, s)
      BY <2>2, <3>1 DEF ComesFirst
    <3> QED BY <2>2, <3>3, <3>4 DEF ByRule
  <2>6. CASE i # m + 1 /\ i # n + 1
    <3>1. i \in KeyStarts(s) /\ i \in KeyStarts(t) /\ i \in 1..m /\ i \in 1..n
      BY <1>1, <1>2, <2>2, <2>6
    <3> DEFINE c == CompareAt(s, t, i)
               w == Step(s, i)
    <3>2. /\ c \in {-1, 0, 1}
          /\ c = -1 => KeyLess(KeyAt(s, i), KeyAt(t, i))
          /\ c = 1 => KeyLess(KeyAt(t, i), KeyAt(s, i))
          /\ c = 0 => KeyAt(s, i) = KeyAt(t, i)
      BY <3>1, CompareMeans
    <3>3. w \in Nat /\ w > 0 /\ i + w <= m + 1 /\ (i + w <= m => i + w \in KeyStarts(s))
      BY <3>1, StepMeans
    <3>4. ~(i > Len(s)) /\ ~(i > Len(t)) /\ w # 0
      BY <1>1, <3>1, <3>3
    <3>5. g[i] = IF c # 0 THEN c ELSE g[i + w]
      BY <2>3, <3>4 DEF Round
    <3>6. CASE c = -1
      <4>1. ComesFirst(s, t)
        BY <2>2, <3>1, <3>2, <3>6 DEF ComesFirst
      <4> QED BY <2>2, <3>5, <3>6, <4>1 DEF ByRule
    <3>7. CASE c = 1
      <4>1. ComesFirst(t, s)
        BY <2>2, <3>1, <3>2, <3>7 DEF ComesFirst
      <4> QED BY <2>2, <3>5, <3>7, <4>1 DEF ByRule
    <3>8. CASE c = 0
      <4>1. Step(t, i) = w /\ KeysBefore(s, i + w) = KeysBefore(t, i + w)
        BY <2>2, <3>1, <3>2, <3>8, KeysGrow
      <4>2. i + w <= n + 1 /\ (i + w <= n => i + w \in KeyStarts(t))
        BY <3>1, <4>1, StepMeans
      <4> HIDE DEF m, n, w, c, i
      <4>3. i \in Nat /\ i + w \in 1..(m + 1) /\ (i + w <= m \/ i + w = m + 1) /\ (i + w <= n \/ i + w = n + 1)
        BY <1>1, <3>1, <3>3, <4>2
      <4>4. Ready(i + w)
        BY <3>3, <4>1, <4>2, <4>3
      <4>5. k - w \in 0..m /\ m + 1 - (k - w) = i + w /\ ~(k <= k - w)
        BY <1>1, <2>2, <3>3, <4>3 DEF i
      <4>6. k - w \notin bad
        BY <2>1, <4>5
      <4>7. ByRule(g[i + w], s, t)
        BY <4>4, <4>5, <4>6
      <4> QED BY <2>2, <3>5, <3>8, <4>7
    <3> QED BY <3>2, <3>6, <3>7, <3>8
  <2> QED BY <2>4, <2>5, <2>6
<1>5. Ready(1)
  <2>1. m = 0 \/ 1 \in KeyStarts(s)
    BY <1>1 DEF KeyStarts
  <2>2. n = 0 \/ 1 \in KeyStarts(t)
    BY <1>1 DEF KeyStarts
  <2>3. {j \in KeyStarts(s) : j < 1} = {} /\ {j \in KeyStarts(t) : j < 1} = {}
    BY <1>1, <1>2
  <2>4. KeysBefore(s, 1) = KeysBefore(t, 1)
    BY <2>3, KeysBeforeMeans
  <2> QED BY <1>1, <2>1, <2>2, <2>4
<1>6. m \in 0..m /\ m + 1 - m = 1
  BY <1>1
<1>7. ByRule(g[1], s, t)
  <2> HIDE DEF Ready
  <2> QED BY <1>4, <1>5, <1>6
<1> QED BY <1>3, <1>7

\* The order of the rules is strict.
LEMMA FirstIsStrict ==
    ASSUME NEW chars, PlainChars(chars), NEW s \in Seq(chars), NEW t \in Seq(chars), NEW u \in Seq(chars)
    PROVE  /\ SameKeys(s, t) => ~ComesFirst(s, t)
           /\ ComesFirst(s, t) /\ ComesFirst(t, u) => ComesFirst(s, u)
<1>1. /\ Len(s) \in Nat /\ Len(t) \in Nat /\ Len(u) \in Nat
      /\ \A i \in KeyStarts(s) : i \in 1..Len(s)
      /\ \A i \in KeyStarts(t) : i \in 1..Len(t)
      /\ \A i \in KeyStarts(u) : i \in 1..Len(u)
  BY DEF KeyStarts
<1>2. /\ \A i \in KeyStarts(s) : KeyAt(s, i) \in Int \X Int \X Int
      /\ \A i \in KeyStarts(t) : KeyAt(t, i) \in Int \X Int \X Int
      /\ \A i \in KeyStarts(u) : KeyAt(u, i) \in Int \X Int \X Int
  BY <1>1, KeyMeans
<1>3. ASSUME SameKeys(s, t), ComesFirst(s, t) PROVE FALSE
  <2>1. PICK i \in KeyStarts(t) :
               /\ KeysBefore(s, i) = KeysBefore(t, i)
               /\ i > Len(s) \/ (i \in KeyStarts(s) /\ KeyLess(KeyAt(s, i), KeyAt(t, i)))
    BY <1>3 DEF ComesFirst
  <2>2. Len(s) = Len(t) /\ KeysBefore(s, Len(s) + 1) = KeysBefore(t, Len(s) + 1)
    BY <1>3 DEF SameKeys
  <2>3. \A k \in KeyStarts(s) : k < Len(s) + 1 => KeyAt(s, k) = KeyAt(t, k)
    BY <2>2, KeysBeforeMeans
  <2>4. i \in KeyStarts(s) /\ i < Len(s) + 1 /\ KeyLess(KeyAt(s, i), KeyAt(t, i))
    BY <1>1, <2>1, <2>2
  <2>5. KeyAt(s, i) = KeyAt(t, i)
    BY <2>3, <2>4
  <2> QED BY <1>2, <2>4, <2>5, KeysOrdered
<1>4. ASSUME ComesFirst(s, t), ComesFirst(t, u) PROVE ComesFirst(s, u)
  <2>1. PICK i \in KeyStarts(t) :
               /\ KeysBefore(s, i) = KeysBefore(t, i)
               /\ i > Len(s) \/ (i \in KeyStarts(s) /\ KeyLess(KeyAt(s, i), KeyAt(t, i)))
    BY <1>4 DEF ComesFirst
  <2>2. PICK j \in KeyStarts(u) :
               /\ KeysBefore(t, j) = KeysBefore(u, j)
               /\ j > Len(t) \/ (j \in KeyStarts(t) /\ KeyLess(KeyAt(t, j), KeyAt(u, j)))
    BY <1>4 DEF ComesFirst
  <2>3. i \in Nat /\ j \in Nat /\ i <= Len(t)
    BY <1>1
  <2>4. /\ {k \in KeyStarts(s) : k < i} = {k \in KeyStarts(t) : k < i}
        /\ \A k \in KeyStarts(s) : k < i => KeyAt(s, k) = KeyAt(t, k)
    BY <2>1, KeysBeforeMeans
  <2>5. /\ {k \in KeyStarts(t) : k < j} = {k \in KeyStarts(u) : k < j}
        /\ \A k \in KeyStarts(t) : k < j => KeyAt(t, k) = KeyAt(u, k)
    BY <2>2, KeysBeforeMeans
  <2>6. ASSUME NEW e \in Nat, e <= i, e <= j PROVE KeysBefore(s, e) = KeysBefore(u, e)
    <3>1. \A k \in KeyStarts(s) : k < e => k \in KeyStarts(u) /\ KeyAt(s, k) = KeyAt(u, k)
      BY <1>1, <2>3, <2>4, <2>5, <2>6
    <3>2. \A k \in KeyStarts(u) : k < e => k \in KeyStarts(s)
      BY <1>1, <2>3, <2>4, <2>5, <2>6
    <3>3. {k \in KeyStarts(s) : k < e} = {k \in KeyStarts(u) : k < e}
      BY <3>1, <3>2
    <3> QED BY <3>1, <3>3, KeysBeforeMeans
  <2>7. CASE i < j
    <3>1. i \in KeyStarts(u) /\ KeyAt(t, i) = KeyAt(u, i)
      BY <2>5, <2>7
    <3>2. KeysBefore(s, i) = KeysBefore(u, i)
      BY <2>3, <2>6, <2>7
    <3> QED BY <2>1, <3>1, <3>2 DEF ComesFirst
  <2>8. CASE j < i
    <3>1. j \in KeyStarts(t) /\ KeyLess(KeyAt(t, j), KeyAt(u, j))
      BY <2>2, <2>3, <2>8
    <3>2. j \in KeyStarts(s) /\ KeyAt(s, j) = KeyAt(t, j)
      BY <2>4, <2>8, <3>1
    <3>3. KeysBefore(s, j) = KeysBefore(u, j)
      BY <2>3, <2>6, <2>8
    <3> QED BY <3>1, <3>2, <3>3 DEF ComesFirst
  <2>9. CASE i = j
    <3>1. KeyLess(KeyAt(t, i), KeyAt(u, i)) /\ i \in KeyStarts(u)
      BY <2>2, <2>3, <2>9
    <3>2. KeysBefore(s, i) = KeysBefore(u, i)
      BY <2>3, <2>6, <2>9
    <3>3. i \in KeyStarts(s) /\ KeyLess(KeyAt(s, i), KeyAt(t, i)) => KeyLess(KeyAt(s, i), KeyAt(u, i))
      BY <1>2, <3>1, KeysOrdered
    <3> QED BY <2>1, <3>1, <3>2, <3>3 DEF ComesFirst
  <2> QED BY <2>3, <2>7, <2>8, <2>9
<1> QED BY <1>3, <1>4

\* compareUnified() returns, and a negative number just if the rules put the first name first.
LEMMA NamesCompareByRule ==
    ASSUME NEW chars, PlainChars(chars), NEW s \in Seq(chars), NEW t \in Seq(chars)
    PROVE  /\ compareUnified(s, t) \in {-1, 0, 1}
           /\ compareUnified(s, t) < 0 <=> ComesFirst(s, t)
           /\ compareUnified(s, t) = 0 <=> SameKeys(s, t)
<1> DEFINE c == compareUnified(s, t)
<1>1. /\ c \in {-1, 0, 1}
      /\ c = -1 => ComesFirst(s, t)
      /\ c = 1 => ComesFirst(t, s)
      /\ c = 0 => SameKeys(s, t)
  BY LoopByRule DEF ByRule
<1> HIDE DEF c
<1>2. SameKeys(s, s) /\ (SameKeys(s, t) => SameKeys(t, s))
  BY DEF SameKeys
<1>3. ~ComesFirst(s, s)
  BY <1>2, FirstIsStrict
<1>4. ~(ComesFirst(s, t) /\ ComesFirst(t, s))
  BY <1>3, FirstIsStrict
<1>5. SameKeys(s, t) => ~ComesFirst(s, t) /\ ~ComesFirst(t, s)
  BY <1>2, FirstIsStrict
<1>6. c < 0 <=> c = -1
  BY <1>1
<1> QED BY <1>1, <1>4, <1>5, <1>6 DEF c

\* Of plain names (no letters that differ in width only, no digits of two units) the comparison of
\* compareByStringEx() is a strict weak order, as sorting needs it: no name is before itself, before
\* is transitive, and so is neither before nor after.
THEOREM NamesAreOrdered ==
    ASSUME NEW chars, PlainChars(chars), NEW s \in Seq(chars), NEW t \in Seq(chars), NEW u \in Seq(chars)
    PROVE  LET Less(x, y) == compareUnified(x, y) < 0
               Tied(x, y) == ~Less(x, y) /\ ~Less(y, x)
           IN /\ ~Less(s, s)
              /\ Less(s, t) /\ Less(t, u) => Less(s, u)
              /\ Tied(s, t) /\ Tied(t, u) => Tied(s, u)
<1> DEFINE Less(x, y) == compareUnified(x, y) < 0
<1>1. ASSUME NEW x \in Seq(chars), NEW y \in Seq(chars)
      PROVE  /\ Less(x, y) <=> ComesFirst(x, y)
             /\ Less(x, y) \/ Less(y, x) \/ SameKeys(x, y)
             /\ SameKeys(x, y) => ~ComesFirst(x, y) /\ ~ComesFirst(y, x)
  <2>1. Less(x, y) <=> ComesFirst(x, y)
    BY NamesCompareByRule
  <2>2. Less(y, x) <=> ComesFirst(y, x)
    BY NamesCompareByRule
  <2>3. /\ compareUnified(x, y) \in {-1, 0, 1}
        /\ compareUnified(x, y) = 1 => ComesFirst(y, x)
        /\ compareUnified(x, y) = 0 => SameKeys(x, y)
    BY LoopByRule DEF ByRule
  <2>4. compareUnified(x, y) = -1 => Less(x, y)
    OBVIOUS
  <2>5. SameKeys(x, y) => SameKeys(y, x)
    BY DEF SameKeys
  <2>6. SameKeys(x, y) => ~ComesFirst(x, y) /\ ~ComesFirst(y, x)
    BY <2>5, FirstIsStrict
  <2> HIDE DEF Less
  <2> QED BY <2>1, <2>2, <2>3, <2>4, <2>6
<1> HIDE DEF Less
<1>2. ~Less(s, s)
  <2>1. SameKeys(s, s)
    BY DEF SameKeys
  <2> QED BY <1>1, <2>1
<1>3. Less(s, t) /\ Less(t, u) => Less(s, u)
  <2>1. ComesFirst(s, t) /\ ComesFirst(t, u) => ComesFirst(s, u)
    BY FirstIsStrict
  <2> QED BY <1>1, <2>1
<1>4. ASSUME ~Less(s, t), ~Less(t, s), ~Less(t, u), ~Less(u, t) PROVE ~Less(s, u) /\ ~Less(u, s)
  <2>1. SameKeys(s, t) /\ SameKeys(t, u)
    BY <1>1, <1>4
  <2>2. SameKeys(s, u)
    BY <2>1 DEF SameKeys
  <2> QED BY <1>1, <2>2
<1> QED BY <1>2, <1>3, <1>4 DEF Less

-----------------------------------------------------------------------------
(* The sorted listing compares names in that order                         *)

\* The directory stays what it is, and its names are sequences of characters.
NamesInv == directory \in Directories

LEMMA ListedNames ==
    ASSUME NamesInv, PlainNames
    PROVE  PlainChars(Chars) /\ \A i \in DOMAIN directory : directory[i].name \in Seq(Chars)
<1>1. \A j \in DOMAIN directory : directory[j].name \in Seq(Char)
  <2>1. directory \in Seq(FTSENT)
    BY DirectoriesAssumption DEF NamesInv
  <2> SUFFICES ASSUME NEW j \in DOMAIN directory PROVE directory[j].name \in Seq(Char)
    OBVIOUS
  <2>2. directory[j] \in FTSENT
    BY <2>1
  <2> QED BY <2>2 DEF FTSENT
<1>2. \A j \in DOMAIN directory : \A n \in DOMAIN directory[j].name :
          directory[j].name[n] \in Char /\ directory[j].name[n] \in Chars
  <2> SUFFICES ASSUME NEW j \in DOMAIN directory, NEW n \in DOMAIN directory[j].name
               PROVE  directory[j].name[n] \in Char /\ directory[j].name[n] \in Chars
    OBVIOUS
  <2>1. directory[j].name[n] \in Char
    BY <1>1
  <2>2. directory[j] \in {directory[k] : k \in DOMAIN directory}
    OBVIOUS
  <2>3. directory[j].name[n] \in {directory[j].name[k] : k \in DOMAIN directory[j].name}
    OBVIOUS
  <2> QED BY <2>1, <2>2, <2>3 DEF Chars
<1>3. Chars \subseteq Char
  BY <1>2 DEF Chars
<1>4. ASSUME NEW i \in DOMAIN directory PROVE directory[i].name \in Seq(Chars)
  <2> DEFINE name == directory[i].name
  <2>1. name \in Seq(Char) /\ \A n \in 1..Len(name) : name[n] \in Chars
    BY <1>1, <1>2
  <2> HIDE DEF name
  <2>2. name \in Seq(Chars)
    BY <2>1
  <2> QED BY <2>2 DEF name
<1> QED BY <1>3, <1>4 DEF PlainChars, PlainNames

\* Whatever directory is sorted, as long as its names are plain every two of them compare as the
\* rules say that compareByString() promises.
THEOREM ListingComparesByRule == ListingSpec => []NamesByRule
<1> USE DEF NamesInv
<1>1. ListingInit => NamesInv
  BY DEF ListingInit
<1>2. NamesInv /\ [ListingNext]_listingVars => NamesInv'
  BY DEF ListingNext, listingVars, disk, SetSort, InitSorted, SortFileInfoList, CancelListing,
         ReadDirectory, ReadNothing, Sort, InsertEntry, Return
<1>3. NamesInv => NamesByRule
  <2> SUFFICES ASSUME NamesInv, PlainNames, NEW i \in DOMAIN directory, NEW j \in DOMAIN directory
               PROVE  compareUnified(directory[i].name, directory[j].name) < 0
                         <=> ComesFirst(directory[i].name, directory[j].name)
    BY DEF NamesByRule
  <2>1. /\ PlainChars(Chars)
        /\ directory[i].name \in Seq(Chars) /\ directory[j].name \in Seq(Chars)
    BY ListedNames
  <2> QED BY <2>1, NamesCompareByRule
<1> QED BY <1>1, <1>2, <1>3, PTL DEF ListingSpec

-----------------------------------------------------------------------------
(* Sorting a directory                                                     *)

\* An order in which nothing stands before what the role puts first.
Ordered(role, s) == \A i, j \in DOMAIN s : i < j => ~Before(role, s[j], s[i])

\* The role compares these entries as Before() says, if at all.
Sortable(role, E) ==
    /\ \A e, f \in E : IF Compare(role, e, f) <= 0 THEN ~Before(role, f, e) ELSE ~Before(role, e, f)
    /\ \A e, f, g \in E : ~Before(role, e, f) /\ ~Before(role, f, g) => ~Before(role, e, g)

\* The comparison of each two of these entries ends.
Comparable(role, E) == \A e, f \in E : e # f => Compare(role, e, f) # Endless

\* A sequence holds these n entries, each once, and in order if they can be sorted at all.
Sorting(role, E, s, n, S) ==
    /\ s \in Seq(E) /\ Len(s) = n /\ ToSet(s) = S /\ IsInjective(s)
    /\ Sortable(role, E) => Ordered(role, s)

\* An entry put first.
LEMMA FirstMeans ==
    ASSUME NEW E, NEW e \in E, NEW s \in Seq(E)
    PROVE  /\ <<e>> \o s \in Seq(E) /\ Len(<<e>> \o s) = Len(s) + 1
           /\ DOMAIN (<<e>> \o s) = 1..(Len(s) + 1)
           /\ \A i \in 1..(Len(s) + 1) : (<<e>> \o s)[i] = IF i = 1 THEN e ELSE s[i - 1]
           /\ ToSet(<<e>> \o s) = ToSet(s) \cup {e}
           /\ e \notin ToSet(s) /\ IsInjective(s) => IsInjective(<<e>> \o s)
<1> DEFINE t == <<e>> \o s
           n == Len(s)
<1>1. /\ t \in Seq(E) /\ Len(t) = n + 1 /\ DOMAIN t = 1..(n + 1) /\ n \in Nat /\ DOMAIN s = 1..n
      /\ \A i \in 1..(n + 1) : t[i] = IF i = 1 THEN e ELSE s[i - 1]
  <2>1. <<e>> \in Seq(E) /\ Len(<<e>>) = 1 /\ <<e>>[1] = e
    OBVIOUS
  <2> DEFINE u == <<e>>
  <2> HIDE DEF u
  <2>2. u \in Seq(E) /\ Len(u) = 1 /\ u[1] = e
    BY <2>1 DEF u
  <2>3. n \in Nat /\ DOMAIN s = 1..n /\ u \o s \in Seq(E) /\ Len(u \o s) = n + 1
    <3>1. n \in Nat /\ DOMAIN s = 1..n
      OBVIOUS
    <3>2. u \o s \in Seq(E) /\ Len(u \o s) = Len(u) + n
      BY <2>2, ConcatProperties
    <3> QED BY <2>2, <3>1, <3>2
  <2>4. DOMAIN (u \o s) = 1..(n + 1)
    BY <2>3
  <2>5. (u \o s)[1] = e
    BY <2>2, <2>3
  <2>6. \A i \in 2..(n + 1) : (u \o s)[i] = s[i - 1]
    BY <2>2, <2>3
  <2>7. \A i \in 1..(n + 1) : i = 1 \/ i \in 2..(n + 1)
    BY <2>3
  <2> QED BY <2>3, <2>4, <2>5, <2>6, <2>7 DEF u
<1> HIDE DEF t, n
<1>2. ToSet(t) = ToSet(s) \cup {e}
  <2>1. ASSUME NEW x \in ToSet(t) PROVE x \in ToSet(s) \cup {e}
    <3>1. PICK i \in 1..(n + 1) : x = t[i]
      BY <1>1, <2>1 DEF ToSet
    <3>2. i = 1 \/ i - 1 \in 1..n
      BY <1>1
    <3> QED BY <1>1, <3>1, <3>2 DEF ToSet
  <2>2. ASSUME NEW x \in ToSet(s) PROVE x \in ToSet(t)
    <3>1. PICK i \in 1..n : x = s[i]
      BY <1>1, <2>2 DEF ToSet
    <3>2. i + 1 \in 1..(n + 1) /\ i + 1 # 1 /\ (i + 1) - 1 = i
      BY <1>1
    <3>3. t[i + 1] = x
      BY <1>1, <3>1, <3>2
    <3> QED BY <1>1, <3>2, <3>3 DEF ToSet
  <2>3. e \in ToSet(t)
    <3>1. 1 \in 1..(n + 1) /\ t[1] = e
      BY <1>1
    <3> QED BY <1>1, <3>1 DEF ToSet
  <2> QED BY <2>1, <2>2, <2>3
<1>3. ASSUME e \notin ToSet(s), IsInjective(s) PROVE IsInjective(t)
  <2> SUFFICES ASSUME NEW i \in 1..(n + 1), NEW j \in 1..(n + 1), t[i] = t[j] PROVE i = j
    BY <1>1 DEF IsInjective
  <2>1. \A k \in 1..n : s[k] # e
    BY <1>1, <1>3 DEF ToSet
  <2>2. (i = 1 \/ i - 1 \in 1..n) /\ (j = 1 \/ j - 1 \in 1..n)
    BY <1>1
  <2>3. i - 1 \in 1..n /\ j - 1 \in 1..n /\ s[i - 1] = s[j - 1] => i - 1 = j - 1
    BY <1>1, <1>3 DEF IsInjective
  <2> QED BY <1>1, <2>1, <2>2, <2>3
<1> QED BY <1>1, <1>2, <1>3 DEF t, n

\* What may stand before all others.
LEMMA FirstSorting ==
    ASSUME NEW role, NEW E, NEW s, NEW n \in Nat, NEW S, Sorting(role, E, s, n, S), NEW e \in E, e \notin S,
           Sortable(role, E) => \A x \in S : ~Before(role, x, e)
    PROVE  Sorting(role, E, <<e>> \o s, n + 1, S \cup {e})
<1> DEFINE t == <<e>> \o s
<1>1. s \in Seq(E) /\ Len(s) = n /\ ToSet(s) = S /\ IsInjective(s)
  BY DEF Sorting
<1>2. /\ t \in Seq(E) /\ Len(t) = n + 1 /\ DOMAIN t = 1..(n + 1)
      /\ \A i \in 1..(n + 1) : t[i] = IF i = 1 THEN e ELSE s[i - 1]
      /\ ToSet(t) = S \cup {e} /\ IsInjective(t)
  BY <1>1, FirstMeans
<1> HIDE DEF t
<1>3. ASSUME Sortable(role, E) PROVE Ordered(role, t)
  <2>1. Ordered(role, s)
    BY <1>3 DEF Sorting
  <2> SUFFICES ASSUME NEW i \in 1..(n + 1), NEW j \in 1..(n + 1), i < j PROVE ~Before(role, t[j], t[i])
    BY <1>2 DEF Ordered
  <2>2. j # 1 /\ j - 1 \in 1..n /\ t[j] = s[j - 1] /\ DOMAIN s = 1..n
    BY <1>1, <1>2
  <2>3. CASE i = 1
    <3>1. s[j - 1] \in S
      BY <1>1, <2>2 DEF ToSet
    <3>2. ~Before(role, s[j - 1], e)
      BY <1>3, <3>1
    <3> QED BY <1>2, <2>2, <2>3, <3>2
  <2>4. CASE i # 1
    <3>1. i - 1 \in 1..n /\ i - 1 < j - 1 /\ t[i] = s[i - 1]
      BY <1>2, <2>4
    <3> QED BY <2>1, <2>2, <3>1 DEF Ordered
  <2> QED BY <2>3, <2>4
<1> QED BY <1>2, <1>3 DEF Sorting, t

\* The entries at the places from i to j.
Part(s, i, j) == {s[k] : k \in i..j}

LEMMA PartMeans ==
    ASSUME NEW role, NEW E, NEW s \in Seq(E), IsInjective(s), Sortable(role, E) => Ordered(role, s),
           NEW i \in 1..(Len(s) + 1)
    PROVE  /\ Sorting(role, E, SubSeq(s, i, Len(s)), Len(s) + 1 - i, Part(s, i, Len(s)))
           /\ i <= Len(s) => /\ s[i] \in E /\ s[i] \notin Part(s, i + 1, Len(s))
                             /\ Part(s, i, Len(s)) = Part(s, i + 1, Len(s)) \cup {s[i]}
                             /\ Sortable(role, E) =>
                                   \A x \in Part(s, i + 1, Len(s)) : ~Before(role, x, s[i])
           /\ Part(s, i, Len(s)) \subseteq ToSet(s) /\ Part(s, 1, Len(s)) = ToSet(s)
<1> DEFINE n == Len(s)
           t == SubSeq(s, i, n)
<1>1. n \in Nat /\ DOMAIN s = 1..n /\ i \in 1..(n + 1) /\ \A k \in 1..n : s[k] \in E
  OBVIOUS
<1>2. /\ t \in Seq(E) /\ Len(t) = n + 1 - i /\ DOMAIN t = 1..(n + 1 - i)
      /\ \A k \in 1..(n + 1 - i) : t[k] = s[i + k - 1] /\ i + k - 1 \in i..n
  <2>1. \A k \in 1..(n + 1 - i) : i + k - 1 \in i..n /\ i + k - 1 \in 1..n
    BY <1>1
  <2>2. Len(t) = n + 1 - i /\ DOMAIN t = 1..(n + 1 - i) /\ \A k \in 1..(n + 1 - i) : t[k] = s[i + k - 1]
    BY <1>1
  <2>3. t \in Seq(E)
    <3>1. \A k \in i..n : s[k] \in E
      BY <1>1
    <3> QED BY <1>1, <3>1
  <2> QED BY <2>1, <2>2, <2>3
<1> HIDE DEF n, t
<1>3. ToSet(t) = Part(s, i, n)
  <2>1. ASSUME NEW x \in Part(s, i, n) PROVE x \in ToSet(t)
    <3>1. PICK k \in i..n : x = s[k]
      BY <2>1 DEF Part
    <3>2. k + 1 - i \in 1..(n + 1 - i) /\ i + (k + 1 - i) - 1 = k
      BY <1>1
    <3>3. t[k + 1 - i] = x
      BY <1>2, <3>1, <3>2
    <3> QED BY <1>2, <3>2, <3>3 DEF ToSet
  <2>2. ASSUME NEW x \in ToSet(t) PROVE x \in Part(s, i, n)
    <3>1. PICK k \in 1..(n + 1 - i) : x = t[k]
      BY <1>2, <2>2 DEF ToSet
    <3> QED BY <1>2, <3>1 DEF Part
  <2> QED BY <2>1, <2>2
<1>4. IsInjective(t)
  <2> SUFFICES ASSUME NEW k \in 1..(n + 1 - i), NEW l \in 1..(n + 1 - i), t[k] = t[l] PROVE k = l
    BY <1>2 DEF IsInjective
  <2>1. i + k - 1 \in 1..n /\ i + l - 1 \in 1..n /\ s[i + k - 1] = s[i + l - 1]
    BY <1>1, <1>2
  <2>2. i + k - 1 = i + l - 1
    BY <1>1, <2>1 DEF IsInjective
  <2> QED BY <1>1, <2>2
<1>5. ASSUME Sortable(role, E) PROVE Ordered(role, t)
  <2> SUFFICES ASSUME NEW k \in 1..(n + 1 - i), NEW l \in 1..(n + 1 - i), k < l PROVE ~Before(role, t[l], t[k])
    BY <1>2 DEF Ordered
  <2>1. i + k - 1 \in 1..n /\ i + l - 1 \in 1..n /\ i + k - 1 < i + l - 1
    BY <1>1, <1>2
  <2> QED BY <1>1, <1>2, <1>5, <2>1 DEF Ordered
<1>6. ASSUME i <= n
      PROVE  /\ s[i] \in E /\ s[i] \notin Part(s, i + 1, n)
             /\ Part(s, i, n) = Part(s, i + 1, n) \cup {s[i]}
             /\ Sortable(role, E) => \A x \in Part(s, i + 1, n) : ~Before(role, x, s[i])
  <2>1. i \in 1..n /\ \A k \in (i + 1)..n : k \in 1..n /\ i < k
    BY <1>1, <1>6
  <2>2. i..n = ((i + 1)..n) \cup {i}
    BY <1>1, <1>6
  <2>3. s[i] \notin Part(s, i + 1, n)
    BY <1>1, <2>1 DEF Part, IsInjective
  <2>4. Sortable(role, E) => \A x \in Part(s, i + 1, n) : ~Before(role, x, s[i])
    BY <1>1, <2>1 DEF Part, Ordered
  <2>5. Part(s, i, n) = Part(s, i + 1, n) \cup {s[i]}
    BY <2>2 DEF Part
  <2> QED BY <1>1, <2>1, <2>3, <2>4, <2>5
<1>7. Part(s, i, n) \subseteq ToSet(s) /\ Part(s, 1, n) = ToSet(s)
  <2>1. \A k \in i..n : k \in 1..n
    BY <1>1
  <2> QED BY <1>1, <2>1 DEF Part, ToSet
<1>8. Sorting(role, E, t, n + 1 - i, Part(s, i, n))
  BY <1>2, <1>3, <1>4, <1>5 DEF Sorting
<1> QED BY <1>6, <1>7, <1>8 DEF n, t

\* What is left of two sorted sequences from two places on, merged: one step of Merge().
Places(a, b) == (1..(Len(a) + 1)) \X (1..(Len(b) + 1))
After(a, b, p) == (Len(a) + 1 - p[1]) + (Len(b) + 1 - p[2])
MergeFrom(g, role, a, b, p) ==
    IF p[1] > Len(a) \/ p[2] > Len(b) THEN SubSeq(a, p[1], Len(a)) \o SubSeq(b, p[2], Len(b))
    ELSE LET c == Compare(role, a[p[1]], b[p[2]])
             rest == IF c <= 0 THEN g[<<p[1] + 1, p[2]>>] ELSE g[<<p[1], p[2] + 1>>]
         IN IF c = Endless \/ rest = Stuck THEN Stuck
            ELSE <<IF c <= 0 THEN a[p[1]] ELSE b[p[2]]>> \o rest

IsMerging(g, role, a, b) == g = [p \in Places(a, b) |-> MergeFrom(g, role, a, b, p)]

\* The next places.
LEMMA NextPlaces ==
    ASSUME NEW E, NEW a \in Seq(E), NEW b \in Seq(E), NEW p \in Places(a, b)
    PROVE  /\ After(a, b, p) \in 0..(Len(a) + Len(b))
           /\ p[1] \in 1..(Len(a) + 1) /\ p[2] \in 1..(Len(b) + 1)
           /\ ~(p[1] > Len(a) \/ p[2] > Len(b)) =>
                 /\ <<p[1] + 1, p[2]>> \in Places(a, b) /\ After(a, b, <<p[1] + 1, p[2]>>) = After(a, b, p) - 1
                 /\ <<p[1], p[2] + 1>> \in Places(a, b) /\ After(a, b, <<p[1], p[2] + 1>>) = After(a, b, p) - 1
<1> DEFINE m == Len(a)
           n == Len(b)
           i == p[1]
           j == p[2]
           q == <<i + 1, j>>
           r == <<i, j + 1>>
<1>1. m \in Nat /\ n \in Nat /\ i \in 1..(m + 1) /\ j \in 1..(n + 1)
  BY DEF Places
<1>2. After(a, b, p) = (m + 1 - i) + (n + 1 - j)
  BY DEF After
<1>3. After(a, b, q) = (m + 1 - (i + 1)) + (n + 1 - j) /\ After(a, b, r) = (m + 1 - i) + (n + 1 - (j + 1))
  BY DEF After
<1>4. /\ i + 1 \in 1..(m + 1) => q \in Places(a, b)
      /\ j + 1 \in 1..(n + 1) => r \in Places(a, b)
  BY <1>1 DEF Places
<1> HIDE DEF m, n, i, j, q, r
<1>5. After(a, b, p) \in 0..(m + n)
  BY <1>1, <1>2
<1>6. ~(i > m \/ j > n) => /\ i + 1 \in 1..(m + 1) /\ After(a, b, q) = After(a, b, p) - 1
                           /\ j + 1 \in 1..(n + 1) /\ After(a, b, r) = After(a, b, p) - 1
  BY <1>1, <1>2, <1>3
<1> QED BY <1>1, <1>4, <1>5, <1>6 DEF m, n, i, j, q, r

\* Every step leads further on, so the merge has a result.
LEMMA MergingExists ==
    ASSUME NEW role, NEW E, NEW a \in Seq(E), NEW b \in Seq(E)
    PROVE  \E g : IsMerging(g, role, a, b)
<1> DEFINE n == Len(a) + Len(b) + 1
           D == Places(a, b)
           From(g, k) == /\ g = [p \in D |-> g[p]]
                         /\ \A p \in D : After(a, b, p) < k => g[p] = MergeFrom(g, role, a, b, p)
           G == {k \in 0..n : \E g : From(g, k)}
<1>1. n \in Nat /\ \A p \in D : After(a, b, p) \in Nat /\ After(a, b, p) < n
  <2> DEFINE l == Len(a)
             m == Len(b)
  <2>1. l \in Nat /\ m \in Nat
    OBVIOUS
  <2>2. \A p \in D : After(a, b, p) \in 0..(l + m)
    BY NextPlaces
  <2> HIDE DEF l, m, D
  <2>3. l + m + 1 \in Nat /\ \A k \in 0..(l + m) : k \in Nat /\ k < l + m + 1
    BY <2>1
  <2> QED BY <2>2, <2>3 DEF l, m
<1> HIDE DEF n
<1>2. 0 \in G
  <2> DEFINE g == [p \in D |-> 0]
  <2>1. g = [p \in D |-> g[p]] /\ 0 \in 0..n
    <3>1. g = [p \in D |-> g[p]]
      OBVIOUS
    <3>2. 0 \in 0..n
      BY <1>1
    <3> QED BY <3>1, <3>2
  <2> HIDE DEF g, D
  <2>2. \A p \in D : ~(After(a, b, p) < 0)
    BY <1>1
  <2>3. From(g, 0)
    BY <2>1, <2>2
  <2> HIDE DEF From
  <2> QED BY <2>1, <2>3
<1>3. ASSUME NEW k \in 1..n, k - 1 \in G PROVE k \in G
  <2>1. PICK g : From(g, k - 1)
    BY <1>3
  <2> DEFINE h == [p \in D |-> MergeFrom(g, role, a, b, p)]
  <2>2. h = [p \in D |-> h[p]] /\ \A p \in D : h[p] = MergeFrom(g, role, a, b, p)
    OBVIOUS
  <2> HIDE DEF h
  <2>3. ASSUME NEW p \in D, After(a, b, p) < k PROVE h[p] = MergeFrom(h, role, a, b, p)
    <3>1. CASE p[1] > Len(a) \/ p[2] > Len(b)
      <4>1. MergeFrom(h, role, a, b, p) = MergeFrom(g, role, a, b, p)
        BY <3>1 DEF MergeFrom
      <4> QED BY <2>2, <4>1
    <3>2. CASE ~(p[1] > Len(a) \/ p[2] > Len(b))
      <4> DEFINE q == <<p[1] + 1, p[2]>>
                 r == <<p[1], p[2] + 1>>
      <4>1. /\ q \in D /\ After(a, b, q) = After(a, b, p) - 1
            /\ r \in D /\ After(a, b, r) = After(a, b, p) - 1
        BY <3>2, NextPlaces
      <4> HIDE DEF q, r, D
      <4>2. After(a, b, q) < k - 1 /\ After(a, b, r) < k - 1
        BY <1>1, <2>3, <4>1
      <4>3. h[q] = g[q] /\ h[r] = g[r]
        BY <2>1, <2>2, <4>1, <4>2
      <4>4. MergeFrom(h, role, a, b, p) = MergeFrom(g, role, a, b, p)
        BY <4>3 DEF MergeFrom, q, r
      <4> QED BY <2>2, <4>4
    <3> QED BY <3>1, <3>2
  <2>4. From(h, k) /\ k \in 0..n
    BY <1>1, <2>2, <2>3
  <2> HIDE DEF From
  <2> QED BY <2>4
<1>4. n \in G
  <2> HIDE DEF G
  <2>1. \A k \in 1..n : k - 1 \in G => k \in G
    BY <1>3
  <2>2. \A k \in 0..n : k \in G
    BY <1>1, <1>2, <2>1, AllNumbers
  <2> QED BY <1>1, <2>2
<1>5. PICK g : From(g, n)
  BY <1>4
<1>6. g = [p \in D |-> MergeFrom(g, role, a, b, p)]
  BY <1>1, <1>5
<1> QED BY <1>6 DEF IsMerging

LEMMA MergingMeans ==
    ASSUME NEW role, NEW E, NEW a \in Seq(E), NEW b \in Seq(E)
    PROVE  \E g : /\ Merge(role, a, b) = g[<<1, 1>>]
                  /\ \A p \in Places(a, b) : g[p] = MergeFrom(g, role, a, b, p)
<1> DEFINE body(g) == [p \in Places(a, b) |-> MergeFrom(g, role, a, b, p)]
           from == CHOOSE g : g = body(g)
<1>1. Merge(role, a, b) = from[<<1, 1>>]
  BY DEF Merge, MergeFrom, Places
<1>2. from = body(from)
  <2>1. PICK g : IsMerging(g, role, a, b)
    BY MergingExists
  <2>2. g = body(g)
    BY <2>1 DEF IsMerging
  <2> HIDE DEF body
  <2> QED BY <2>2
<1> HIDE DEF from
<1> QED BY <1>1, <1>2

\* Two sorted sequences merged are sorted, and hold what they held.
LEMMA MergeSorting ==
    ASSUME NEW role, NEW E, NEW a, NEW b, NEW m \in Nat, NEW n \in Nat, NEW S, NEW T,
           Sorting(role, E, a, m, S), Sorting(role, E, b, n, T), S \cap T = {}
    PROVE  /\ Merge(role, a, b) = Stuck \/ Sorting(role, E, Merge(role, a, b), m + n, S \cup T)
           /\ Comparable(role, E) /\ Stuck \notin Seq(E) => Merge(role, a, b) # Stuck
<1> DEFINE sortable == Sortable(role, E)
           safe == Comparable(role, E) /\ Stuck \notin Seq(E)
<1>1. /\ a \in Seq(E) /\ Len(a) = m /\ ToSet(a) = S /\ IsInjective(a) /\ (sortable => Ordered(role, a))
      /\ b \in Seq(E) /\ Len(b) = n /\ ToSet(b) = T /\ IsInjective(b) /\ (sortable => Ordered(role, b))
  BY DEF Sorting
<1>2. PICK g : /\ Merge(role, a, b) = g[<<1, 1>>]
               /\ \A p \in Places(a, b) : g[p] = MergeFrom(g, role, a, b, p)
  BY <1>1, MergingMeans
<1> DEFINE A(i) == Part(a, i, m)
           B(j) == Part(b, j, n)
           Good(p) == /\ g[p] = Stuck \/ Sorting(role, E, g[p], After(a, b, p), A(p[1]) \cup B(p[2]))
                      /\ safe => g[p] # Stuck
           G == {k \in 0..(m + n) : \A p \in Places(a, b) : After(a, b, p) = k => Good(p)}
<1>3. ASSUME NEW i \in 1..(m + 1)
      PROVE  /\ Sorting(role, E, SubSeq(a, i, m), m + 1 - i, A(i)) /\ A(i) \subseteq S
             /\ i <= m => /\ a[i] \in E /\ a[i] \notin A(i + 1) /\ A(i) = A(i + 1) \cup {a[i]}
                          /\ sortable => \A x \in A(i + 1) : ~Before(role, x, a[i])
  BY <1>1, PartMeans
<1>4. ASSUME NEW j \in 1..(n + 1)
      PROVE  /\ Sorting(role, E, SubSeq(b, j, n), n + 1 - j, B(j)) /\ B(j) \subseteq T
             /\ j <= n => /\ b[j] \in E /\ b[j] \notin B(j + 1) /\ B(j) = B(j + 1) \cup {b[j]}
                          /\ sortable => \A x \in B(j + 1) : ~Before(role, x, b[j])
  BY <1>1, PartMeans
<1>5. A(1) = S /\ B(1) = T
  <2>1. 1 \in 1..(m + 1) /\ 1 \in 1..(n + 1)
    OBVIOUS
  <2> QED BY <1>1, <2>1, PartMeans
<1>6. S \subseteq E /\ T \subseteq E
  BY <1>1 DEF ToSet
<1>7. A(m + 1) = {} /\ B(n + 1) = {} /\ SubSeq(a, m + 1, m) = <<>> /\ SubSeq(b, n + 1, n) = <<>>
  BY <1>1 DEF Part
<1> HIDE DEF A, B, sortable, safe
\* The end of one of them.
<1>8. ASSUME NEW p \in Places(a, b), p[1] > m \/ p[2] > n PROVE Good(p)
  <2> DEFINE i == p[1]
             j == p[2]
             r == g[p]
  <2>1. i \in 1..(m + 1) /\ j \in 1..(n + 1) /\ After(a, b, p) = (m + 1 - i) + (n + 1 - j)
    BY <1>1, NextPlaces DEF After
  <2>2. r = SubSeq(a, i, m) \o SubSeq(b, j, n)
    BY <1>1, <1>2, <1>8 DEF MergeFrom
  <2>3. /\ Sorting(role, E, SubSeq(a, i, m), m + 1 - i, A(i))
        /\ Sorting(role, E, SubSeq(b, j, n), n + 1 - j, B(j))
    BY <1>3, <1>4, <2>1
  <2> HIDE DEF i, j, r
  <2>4. Sorting(role, E, r, After(a, b, p), A(i) \cup B(j))
    <3>1. CASE i > m
      <4>1. i = m + 1 /\ After(a, b, p) = n + 1 - j
        BY <2>1, <3>1
      <4>2. r = <<>> \o SubSeq(b, j, n)
        BY <1>7, <2>2, <4>1
      <4>3. r = SubSeq(b, j, n)
        BY <2>3, <4>2, ConcatEmptySeq DEF Sorting
      <4> QED BY <1>7, <2>3, <4>1, <4>3
    <3>2. CASE j > n
      <4>1. j = n + 1 /\ After(a, b, p) = m + 1 - i
        BY <2>1, <3>2
      <4>2. r = SubSeq(a, i, m) \o <<>>
        BY <1>7, <2>2, <4>1
      <4>3. r = SubSeq(a, i, m)
        BY <2>3, <4>2, ConcatEmptySeq DEF Sorting
      <4> QED BY <1>7, <2>3, <4>1, <4>3
    <3> QED BY <1>8, <3>1, <3>2 DEF i, j
  <2>5. r \in Seq(E)
    BY <2>4 DEF Sorting
  <2> QED BY <2>4, <2>5 DEF i, j, r, safe
\* One of the two heads comes next.
<1>9. ASSUME NEW p \in Places(a, b), ~(p[1] > m \/ p[2] > n), NEW q,
             \/ q = <<p[1] + 1, p[2]>> /\ Compare(role, a[p[1]], b[p[2]]) <= 0
             \/ q = <<p[1], p[2] + 1>> /\ ~(Compare(role, a[p[1]], b[p[2]]) <= 0),
             Good(q)
      PROVE  Good(p)
  <2> DEFINE i == p[1]
             j == p[2]
             e == a[i]
             f == b[j]
             c == Compare(role, e, f)
             rest == g[q]
             head == IF c <= 0 THEN e ELSE f
             X == A(q[1]) \cup B(q[2])
             k == After(a, b, q)
  <2>1. i \in 1..m /\ j \in 1..n /\ i \in 1..(m + 1) /\ j \in 1..(n + 1)
    <3>1. i \in 1..(m + 1) /\ j \in 1..(n + 1)
      BY <1>1, NextPlaces
    <3> HIDE DEF i, j
    <3>2. ~(i > m) /\ ~(j > n)
      BY <1>9 DEF i, j
    <3> QED BY <3>1, <3>2
  <2>2. /\ e \in E /\ e \notin A(i + 1) /\ A(i) = A(i + 1) \cup {e} /\ A(i) \subseteq S
        /\ sortable => \A x \in A(i + 1) : ~Before(role, x, e)
    BY <1>3, <2>1
  <2>3. /\ f \in E /\ f \notin B(j + 1) /\ B(j) = B(j + 1) \cup {f} /\ B(j) \subseteq T
        /\ sortable => \A x \in B(j + 1) : ~Before(role, x, f)
    BY <1>4, <2>1
  <2>4. k \in Nat /\ After(a, b, p) = k + 1
    <3> DEFINE u == <<p[1] + 1, p[2]>>
               v == <<p[1], p[2] + 1>>
    <3>3. /\ After(a, b, p) \in 0..(m + n)
          /\ u \in Places(a, b) /\ After(a, b, u) = After(a, b, p) - 1
          /\ v \in Places(a, b) /\ After(a, b, v) = After(a, b, p) - 1
      <4> HIDE DEF Good, e, f, c, rest, head, X, k, i, j
      <4>1. a \in Seq(E) /\ b \in Seq(E) /\ Len(a) = m /\ Len(b) = n
        BY <1>1
      <4>2. p \in Places(a, b) /\ ~(p[1] > m \/ p[2] > n)
        BY <1>9
      <4>3. /\ After(a, b, p) \in 0..(Len(a) + Len(b))
            /\ ~(p[1] > Len(a) \/ p[2] > Len(b)) =>
                  /\ u \in Places(a, b) /\ After(a, b, u) = After(a, b, p) - 1
                  /\ v \in Places(a, b) /\ After(a, b, v) = After(a, b, p) - 1
        BY <4>1, <4>2, NextPlaces, SMTT(30)
      <4> HIDE DEF u, v
      <4> QED BY <4>1, <4>2, <4>3
    <3>4. q = u \/ q = v
      BY <1>9
    <3> HIDE DEF u, v
    <3>1. After(a, b, p) \in 0..(m + n) /\ q \in Places(a, b) /\ k = After(a, b, p) - 1
      BY <3>3, <3>4
    <3>2. k \in 0..(m + n)
      BY <1>1, <3>1, NextPlaces
    <3> HIDE DEF k
    <3> QED BY <3>1, <3>2
  <2>5. g[p] = IF c = Endless \/ rest = Stuck THEN Stuck ELSE <<head>> \o rest
    BY <1>1, <1>2, <1>9 DEF MergeFrom
  <2>6. /\ sortable => IF c <= 0 THEN ~Before(role, f, e) ELSE ~Before(role, e, f)
        /\ safe => c # Endless
    <3>1. sortable => IF c <= 0 THEN ~Before(role, f, e) ELSE ~Before(role, e, f)
      BY <2>2, <2>3 DEF sortable, Sortable
    <3>2. safe => c # Endless
      BY <2>2, <2>3 DEF safe, Comparable
    <3> QED BY <3>1, <3>2
  <2>7. \/ c <= 0 /\ head = e /\ X = A(i + 1) \cup B(j)
        \/ ~(c <= 0) /\ head = f /\ X = A(i) \cup B(j + 1)
    BY <1>9
  <2>8. (rest = Stuck \/ Sorting(role, E, rest, k, X)) /\ (safe => rest # Stuck)
    BY <1>9
  <2> HIDE DEF e, f, c, rest, head, X, k
  <2>9. head \in E /\ head \notin X /\ A(i) \cup B(j) = X \cup {head}
    <3>1. e \notin B(j) /\ f \notin A(i)
      BY <2>2, <2>3
    <3> QED BY <2>2, <2>3, <2>7, <3>1
  <2>10. sortable => \A x \in X : ~Before(role, x, head)
    <3> SUFFICES ASSUME sortable, NEW x \in X PROVE ~Before(role, x, head)
      OBVIOUS
    <3>1. x \in E
      BY <1>6, <2>2, <2>3, <2>7
    <3>2. \A y \in E, z \in E : ~Before(role, x, y) /\ ~Before(role, y, z) => ~Before(role, x, z)
      BY <3>1 DEF sortable, Sortable
    <3>3. CASE c <= 0
      <4>1. x \in A(i + 1) \/ x = f \/ x \in B(j + 1)
        BY <2>3, <2>7, <3>3
      <4>2. ~Before(role, f, e) /\ head = e
        BY <2>6, <2>7, <3>3
      <4> QED BY <2>2, <2>3, <3>2, <4>1, <4>2
    <3>4. CASE ~(c <= 0)
      <4>1. x \in B(j + 1) \/ x = e \/ x \in A(i + 1)
        BY <2>2, <2>7, <3>4
      <4>2. ~Before(role, e, f) /\ head = f
        BY <2>6, <2>7, <3>4
      <4> QED BY <2>2, <2>3, <3>2, <4>1, <4>2
    <3> QED BY <3>3, <3>4
  <2>11. CASE c = Endless \/ rest = Stuck
    BY <2>5, <2>6, <2>8, <2>11
  <2>12. CASE ~(c = Endless \/ rest = Stuck)
    <3> DEFINE t == <<head>> \o rest
    <3>1. g[p] = t
      BY <2>5, <2>12
    <3>2. Sorting(role, E, t, k + 1, X \cup {head})
      BY <2>4, <2>8, <2>9, <2>10, <2>12, FirstSorting DEF sortable
    <3> HIDE DEF t
    <3>3. t \in Seq(E)
      BY <3>2 DEF Sorting
    <3> QED BY <2>4, <2>9, <3>1, <3>2, <3>3 DEF safe
  <2> QED BY <2>11, <2>12
<1> HIDE DEF Good
<1>10. 0 \in G
  <2>1. ASSUME NEW p \in Places(a, b), After(a, b, p) = 0 PROVE p[1] > m \/ p[2] > n
    <3> DEFINE i == p[1]
               j == p[2]
    <3>1. i \in 1..(m + 1) /\ j \in 1..(n + 1) /\ (m + 1 - i) + (n + 1 - j) = 0
      BY <1>1, <2>1, NextPlaces DEF After
    <3> HIDE DEF i, j
    <3>2. i > m \/ j > n
      BY <3>1
    <3> QED BY <3>2 DEF i, j
  <2> QED BY <1>8, <2>1
<1>11. ASSUME NEW k \in 1..(m + n), k - 1 \in G PROVE k \in G
  <2> SUFFICES ASSUME NEW p \in Places(a, b), After(a, b, p) = k PROVE Good(p)
    OBVIOUS
  <2>1. CASE p[1] > m \/ p[2] > n
    BY <1>8, <2>1
  <2>2. CASE ~(p[1] > m \/ p[2] > n)
    <3> DEFINE q == <<p[1] + 1, p[2]>>
               r == <<p[1], p[2] + 1>>
    <3>1. q \in Places(a, b) /\ After(a, b, q) = k - 1 /\ r \in Places(a, b) /\ After(a, b, r) = k - 1
      BY <1>1, <2>2, NextPlaces
    <3> HIDE DEF q, r
    <3>2. Good(q) /\ Good(r)
      BY <1>11, <3>1
    <3> QED BY <1>9, <2>2, <3>2 DEF q, r
  <2> QED BY <2>1, <2>2
<1>12. m + n \in G
  <2> HIDE DEF G
  <2>1. \A k \in 1..(m + n) : k - 1 \in G => k \in G
    BY <1>11
  <2>2. m + n \in Nat
    OBVIOUS
  <2>3. \A k \in 0..(m + n) : k \in G
    BY <1>10, <2>1, <2>2, AllNumbers
  <2> QED BY <2>2, <2>3
<1> DEFINE first == <<1, 1>>
<1>13. first \in Places(a, b) /\ After(a, b, first) = m + n /\ first[1] = 1 /\ first[2] = 1
  BY <1>1 DEF Places, After
<1> HIDE DEF first
<1>14. Good(first)
  BY <1>12, <1>13
<1> QED BY <1>2, <1>5, <1>13, <1>14 DEF Good, first, sortable, safe

\* The entries between two places, sorted: one step of MergeSort().
Ranges(s) == (1..(Len(s) + 1)) \X (0..Len(s))
SortFrom(g, role, s, p) ==
    IF p[1] >= p[2] THEN SubSeq(s, p[1], p[2])
    ELSE LET half == (p[1] + p[2] - 1) \div 2
             left == g[<<p[1], half>>]
             right == g[<<half + 1, p[2]>>]
         IN IF left = Stuck \/ right = Stuck THEN Stuck ELSE Merge(role, left, right)

IsSort(g, role, s) == g = [p \in Ranges(s) |-> SortFrom(g, role, s, p)]

\* The two halves are shorter.
LEMMA Halves ==
    ASSUME NEW n \in Nat, NEW i \in 1..(n + 1), NEW j \in 0..n, ~(i >= j)
    PROVE  LET half == (i + j - 1) \div 2 IN half \in 1..n /\ i <= half /\ half < j
<1> DEFINE half == (i + j - 1) \div 2
<1>1. half \in Int /\ 2 * half <= i + j - 1 /\ i + j - 1 < 2 * half + 2
  OBVIOUS
<1> HIDE DEF half
<1>2. half \in 1..n /\ i <= half /\ half < j
  BY <1>1
<1> QED BY <1>2 DEF half

\* So every range has a result.
LEMMA SortExists ==
    ASSUME NEW role, NEW E, NEW s \in Seq(E)
    PROVE  \E g : IsSort(g, role, s)
<1> DEFINE n == Len(s)
           D == Ranges(s)
           From(g, k) == /\ g = [p \in D |-> g[p]]
                         /\ \A p \in D : p[2] - p[1] < k => g[p] = SortFrom(g, role, s, p)
           G == {k \in 0..n : \E g : From(g, k)}
<1>1. n \in Nat /\ \A p \in D : p[1] \in 1..(n + 1) /\ p[2] \in 0..n
  BY DEF Ranges
<1>2. \A i \in 1..(n + 1), j \in 0..n : <<i, j>> \in D
  BY DEF Ranges
<1> HIDE DEF n, D
<1>3. 0 \in G
  <2> DEFINE g == [p \in D |-> SubSeq(s, p[1], p[2])]
  <2>1. g = [p \in D |-> g[p]] /\ 0 \in 0..n
    <3>1. g = [p \in D |-> g[p]]
      OBVIOUS
    <3>2. 0 \in 0..n
      BY <1>1
    <3> QED BY <3>1, <3>2
  <2>2. ASSUME NEW p \in D, p[2] - p[1] < 0 PROVE g[p] = SortFrom(g, role, s, p)
    <3> DEFINE i == p[1]
               j == p[2]
    <3>1. i \in 1..(n + 1) /\ j \in 0..n /\ j - i < 0
      BY <1>1, <2>2
    <3> HIDE DEF i, j
    <3>2. i >= j
      BY <1>1, <3>1
    <3> QED BY <3>2 DEF SortFrom, i, j
  <2> HIDE DEF g
  <2>3. From(g, 0)
    BY <2>1, <2>2
  <2> HIDE DEF From
  <2> QED BY <2>1, <2>3
<1>4. ASSUME NEW k \in 1..n, k - 1 \in G PROVE k \in G
  <2>1. PICK g : From(g, k - 1)
    BY <1>4
  <2> DEFINE h == [p \in D |-> SortFrom(g, role, s, p)]
  <2>2. h = [p \in D |-> h[p]] /\ \A p \in D : h[p] = SortFrom(g, role, s, p)
    OBVIOUS
  <2> HIDE DEF h
  <2>3. ASSUME NEW p \in D, p[2] - p[1] < k PROVE h[p] = SortFrom(h, role, s, p)
    <3> DEFINE i == p[1]
               j == p[2]
    <3>1. i \in 1..(n + 1) /\ j \in 0..n /\ j - i < k
      BY <1>1, <2>3
    <3>2. CASE i >= j
      <4>1. SortFrom(h, role, s, p) = SortFrom(g, role, s, p)
        BY <3>2 DEF SortFrom
      <4> QED BY <2>2, <4>1
    <3>3. CASE ~(i >= j)
      <4> DEFINE half == (i + j - 1) \div 2
                 q == <<i, half>>
                 r == <<half + 1, j>>
      <4>1. half \in 1..n /\ i <= half /\ half < j
        <5> HIDE DEF i, j
        <5> QED BY <1>1, <3>1, <3>3, Halves
      <4>2. q[1] = i /\ q[2] = half /\ r[1] = half + 1 /\ r[2] = j
        OBVIOUS
      <4> HIDE DEF half, i, j
      <4>3. half + 1 \in 1..(n + 1) /\ half \in 0..n /\ half - i < k - 1 /\ j - (half + 1) < k - 1
        BY <1>1, <3>1, <4>1
      <4>4. q \in D /\ r \in D
        BY <1>2, <3>1, <4>3
      <4> HIDE DEF q, r
      <4>5. h[q] = g[q] /\ h[r] = g[r]
        BY <2>1, <2>2, <4>2, <4>3, <4>4
      <4>6. SortFrom(h, role, s, p) = SortFrom(g, role, s, p)
        BY <4>5 DEF SortFrom, q, r, half, i, j
      <4> QED BY <2>2, <4>6
    <3> QED BY <3>2, <3>3
  <2>4. From(h, k) /\ k \in 0..n
    BY <1>1, <2>2, <2>3
  <2> HIDE DEF From
  <2> QED BY <2>4
<1>5. n \in G
  <2> HIDE DEF G
  <2>1. \A k \in 1..n : k - 1 \in G => k \in G
    BY <1>4
  <2>2. \A k \in 0..n : k \in G
    BY <1>1, <1>3, <2>1, AllNumbers
  <2> QED BY <1>1, <2>2
<1>6. PICK g : From(g, n)
  BY <1>5
<1>7. ASSUME NEW p \in D PROVE p[2] - p[1] < n
  <2> DEFINE i == p[1]
             j == p[2]
  <2>1. i \in 1..(n + 1) /\ j \in 0..n
    BY <1>1
  <2> HIDE DEF i, j
  <2>2. j - i < n
    BY <1>1, <2>1
  <2> QED BY <2>2 DEF i, j
<1>8. g = [p \in D |-> SortFrom(g, role, s, p)]
  BY <1>6, <1>7
<1> QED BY <1>8 DEF IsSort, D

LEMMA SortMeans ==
    ASSUME NEW role, NEW E, NEW s \in Seq(E)
    PROVE  \E g : /\ MergeSort(role, s) = g[<<1, Len(s)>>]
                  /\ \A p \in Ranges(s) : g[p] = SortFrom(g, role, s, p)
<1> DEFINE body(g) == [p \in Ranges(s) |-> SortFrom(g, role, s, p)]
           sorted == CHOOSE g : g = body(g)
<1>1. MergeSort(role, s) = sorted[<<1, Len(s)>>]
  BY DEF MergeSort, SortFrom, Ranges
<1>2. sorted = body(sorted)
  <2>1. PICK g : IsSort(g, role, s)
    BY SortExists
  <2>2. g = body(g)
    BY <2>1 DEF IsSort
  <2> HIDE DEF body
  <2> QED BY <2>2
<1> HIDE DEF sorted
<1> QED BY <1>1, <1>2

\* None or one entry is sorted.
LEMMA OneSorting ==
    ASSUME NEW role, NEW E, NEW s \in Seq(E), NEW i \in 1..(Len(s) + 1), NEW j \in 0..Len(s), j = i \/ j = i - 1
    PROVE  Sorting(role, E, SubSeq(s, i, j), j + 1 - i, Part(s, i, j))
<1> DEFINE t == SubSeq(s, i, j)
           n == Len(s)
<1>1. n \in Nat /\ \A k \in 1..n : s[k] \in E
  OBVIOUS
<1>2. CASE j = i - 1
  <2>1. t = <<>> /\ i..j = {}
    BY <1>1, <1>2
  <2>2. ToSet(<<>>) = {} /\ IsInjective(<<>>) /\ <<>> \in Seq(E) /\ Len(<<>>) = 0 /\ Ordered(role, <<>>)
    BY DEF ToSet, IsInjective, Ordered
  <2>3. j + 1 - i = 0 /\ Part(s, i, j) = {}
    BY <1>2, <2>1 DEF Part
  <2> HIDE DEF t
  <2>4. Sorting(role, E, t, j + 1 - i, Part(s, i, j))
    BY <2>1, <2>2, <2>3 DEF Sorting
  <2> QED BY <2>4 DEF t
<1>3. CASE j = i
  <2>1. i \in 1..n /\ s[i] \in E
    BY <1>1, <1>3
  <2>2. t \in Seq(E) /\ Len(t) = 1 /\ t[1] = s[i] /\ DOMAIN t = {1}
    <3>1. SubSeq(s, i, i) \in Seq(E) /\ Len(SubSeq(s, i, i)) = 1 /\ SubSeq(s, i, i)[1] = s[i]
      BY <2>1
    <3>2. 1..1 = {1}
      OBVIOUS
    <3> QED BY <1>3, <3>1, <3>2
  <2>3. j + 1 - i = 1 /\ i..j = {i}
    BY <1>3
  <2> HIDE DEF t, n
  <2>4. Part(s, i, j) = {s[i]}
    BY <2>3 DEF Part
  <2>5. ToSet(t) = {s[i]} /\ IsInjective(t)
    BY <2>2 DEF ToSet, IsInjective
  <2>6. Ordered(role, t)
    BY <2>2 DEF Ordered
  <2>7. Sorting(role, E, t, j + 1 - i, Part(s, i, j))
    BY <2>2, <2>3, <2>4, <2>5, <2>6 DEF Sorting
  <2> QED BY <2>7 DEF t
<1> QED BY <1>2, <1>3

\* A merge sort keeps the entries and puts them in order.
LEMMA MergeSortSorting ==
    ASSUME NEW role, NEW E, NEW s \in Seq(E), IsInjective(s)
    PROVE  /\ MergeSort(role, s) = Stuck \/ Sorting(role, E, MergeSort(role, s), Len(s), ToSet(s))
           /\ Comparable(role, E) /\ Stuck \notin Seq(E) => MergeSort(role, s) # Stuck
<1> DEFINE n == Len(s)
           D == Ranges(s)
           safe == Comparable(role, E) /\ Stuck \notin Seq(E)
<1>1. PICK g : /\ MergeSort(role, s) = g[<<1, n>>]
               /\ \A p \in D : g[p] = SortFrom(g, role, s, p)
  BY SortMeans
<1> DEFINE Good(i, j) == /\ g[<<i, j>>] = Stuck \/ Sorting(role, E, g[<<i, j>>], j + 1 - i, Part(s, i, j))
                         /\ safe => g[<<i, j>>] # Stuck
           G == {k \in 0..n : \A i \in 1..(n + 1), j \in 0..n : i <= j + 1 /\ j + 1 - i <= k => Good(i, j)}
<1>2. n \in Nat /\ DOMAIN s = 1..n
  OBVIOUS
<1>3. ASSUME NEW i \in 1..(n + 1), NEW j \in 0..n
      PROVE  LET half == (i + j - 1) \div 2 IN
             /\ <<i, j>> \in D
             /\ i >= j => g[<<i, j>>] = SubSeq(s, i, j)
             /\ ~(i >= j) => g[<<i, j>>] = IF g[<<i, half>>] = Stuck \/ g[<<half + 1, j>>] = Stuck THEN Stuck
                                           ELSE Merge(role, g[<<i, half>>], g[<<half + 1, j>>])
  <2>1. <<i, j>> \in D /\ <<i, j>>[1] = i /\ <<i, j>>[2] = j
    BY DEF Ranges
  <2> DEFINE p == <<i, j>>
  <2> HIDE DEF p, D
  <2>2. p \in D /\ p[1] = i /\ p[2] = j
    BY <2>1 DEF p
  <2>3. g[p] = SortFrom(g, role, s, p)
    BY <1>1, <2>2
  <2> QED BY <2>2, <2>3 DEF SortFrom, p
<1>4. ASSUME NEW i \in 1..(n + 1), NEW j \in 0..n, i <= j + 1, i >= j PROVE Good(i, j)
  <2>1. j = i \/ j = i - 1
    BY <1>4
  <2> DEFINE t == SubSeq(s, i, j)
  <2>2. g[<<i, j>>] = t /\ Sorting(role, E, t, j + 1 - i, Part(s, i, j))
    BY <1>3, <1>4, <2>1, OneSorting
  <2> HIDE DEF t
  <2>3. t \in Seq(E)
    BY <2>2 DEF Sorting
  <2> QED BY <2>2, <2>3
<1> HIDE DEF n
<1>5. ASSUME NEW i \in 1..(n + 1), NEW j \in 0..n, ~(i >= j), NEW h \in 1..n, h = (i + j - 1) \div 2,
             i <= h, h < j, Good(i, h), Good(h + 1, j)
      PROVE  Good(i, j)
  <2> DEFINE l == g[<<i, h>>]
             r == g[<<h + 1, j>>]
             S == Part(s, i, h)
             T == Part(s, h + 1, j)
             m == Merge(role, l, r)
             half == (i + j - 1) \div 2
  <2>1. half = h
    BY <1>5
  <2>9. ~(i >= j) => g[<<i, j>>] = IF g[<<i, half>>] = Stuck \/ g[<<half + 1, j>>] = Stuck THEN Stuck
                                           ELSE Merge(role, g[<<i, half>>], g[<<half + 1, j>>])
    BY <1>3
  <2> HIDE DEF half
  <2>10. g[<<i, j>>] = IF l = Stuck \/ r = Stuck THEN Stuck ELSE m
    BY <1>5, <2>1, <2>9
  <2>2. S \cap T = {} /\ S \cup T = Part(s, i, j)
    <3>1. \A k \in i..h, k2 \in (h + 1)..j : k \in 1..n /\ k2 \in 1..n /\ k # k2
      BY <1>2, <1>5
    <3>2. i..j = (i..h) \cup ((h + 1)..j)
      BY <1>2, <1>5
    <3>3. S \cap T = {}
      BY <1>2, <3>1 DEF Part, IsInjective
    <3>4. S \cup T = Part(s, i, j)
      BY <3>2 DEF Part
    <3> QED BY <3>3, <3>4
  <2>3. /\ l = Stuck \/ Sorting(role, E, l, h + 1 - i, S)
        /\ r = Stuck \/ Sorting(role, E, r, j + 1 - (h + 1), T)
        /\ safe => l # Stuck /\ r # Stuck
    BY <1>5
  <2>4. h + 1 - i \in Nat /\ j + 1 - (h + 1) \in Nat /\ (h + 1 - i) + (j + 1 - (h + 1)) = j + 1 - i
    <3> HIDE DEF Good
    <3>1. i \in Int /\ j \in Int /\ h \in Int /\ i <= h /\ h < j
      BY <1>2, <1>5
    <3> QED BY <3>1
  <2> HIDE DEF l, r, S, T
  <2>5. CASE l = Stuck \/ r = Stuck
    BY <2>3, <2>5, <2>10
  <2>6. CASE ~(l = Stuck \/ r = Stuck)
    <3>1. /\ m = Stuck \/ Sorting(role, E, m, (h + 1 - i) + (j + 1 - (h + 1)), S \cup T)
          /\ safe => m # Stuck
      BY <2>2, <2>3, <2>4, <2>6, MergeSorting
    <3> HIDE DEF m
    <3>2. g[<<i, j>>] = m
      BY <2>6, <2>10
    <3> QED BY <2>2, <2>4, <3>1, <3>2
  <2> QED BY <2>5, <2>6
<1> HIDE DEF Good
<1>6. 0 \in G
  <2>1. \A i \in 1..(n + 1), j \in 0..n : j + 1 - i <= 0 => i >= j
    BY <1>2
  <2> QED BY <1>2, <1>4, <2>1
<1>7. ASSUME NEW k \in 1..n, k - 1 \in G PROVE k \in G
  <2> SUFFICES ASSUME NEW i \in 1..(n + 1), NEW j \in 0..n, i <= j + 1, j + 1 - i <= k PROVE Good(i, j)
    BY <1>2
  <2>1. CASE i >= j
    BY <1>4, <1>7, <2>1
  <2>2. CASE ~(i >= j)
    <3> DEFINE h == (i + j - 1) \div 2
    <3>1. h \in 1..n /\ i <= h /\ h < j
      BY <1>2, <2>2, Halves
    <3>2. h = (i + j - 1) \div 2
      OBVIOUS
    <3> HIDE DEF h
    <3>3. /\ h \in 0..n /\ i <= h + 1 /\ h + 1 - i <= k - 1
          /\ h + 1 \in 1..(n + 1) /\ h + 1 <= j + 1 /\ j + 1 - (h + 1) <= k - 1
      BY <1>2, <3>1
    <3>4. Good(i, h) /\ Good(h + 1, j)
      BY <1>7, <3>3
    <3> QED BY <1>5, <2>2, <3>1, <3>2, <3>4
  <2> QED BY <2>1, <2>2
<1>8. n \in G
  <2> HIDE DEF G
  <2>1. \A k \in 1..n : k - 1 \in G => k \in G
    BY <1>7
  <2>2. \A k \in 0..n : k \in G
    BY <1>2, <1>6, <2>1, AllNumbers
  <2> QED BY <1>2, <2>2
<1>9. Good(1, n)
  <2>1. 1 \in 1..(n + 1) /\ n \in 0..n /\ 1 <= n + 1 /\ n + 1 - 1 <= n
    BY <1>2
  <2> QED BY <1>8, <2>1
<1>10. Part(s, 1, n) = ToSet(s) /\ n + 1 - 1 = n
  BY <1>2 DEF Part, ToSet
<1> QED BY <1>1, <1>9, <1>10 DEF Good, n

\* Entries with plain names.
PlainEntries(chars) == {e \in FTSENT : e.name \in Seq(chars)}

\* Where the rules put two names, and a third one.
LEMMA NamesMean ==
    ASSUME NEW chars, PlainChars(chars), NEW e \in PlainEntries(chars), NEW f \in PlainEntries(chars)
    PROVE  /\ compareByName(e, f) \in {-1, 1}
           /\ compareByName(e, f) = -1 => ~ComesFirst(f.name, e.name)
           /\ compareByName(e, f) = 1 => ~ComesFirst(e.name, f.name)
           /\ \A g \in PlainEntries(chars) :
                 ~ComesFirst(e.name, f.name) /\ ~ComesFirst(f.name, g.name) => ~ComesFirst(e.name, g.name)
<1> DEFINE c == compareUnified(e.name, f.name)
<1>1. \A x \in PlainEntries(chars) : x.name \in Seq(chars)
  BY DEF PlainEntries
<1>2. ASSUME NEW x \in PlainEntries(chars), NEW y \in PlainEntries(chars)
      PROVE  /\ compareUnified(x.name, y.name) \in {-1, 0, 1}
             /\ compareUnified(x.name, y.name) < 0 <=> ComesFirst(x.name, y.name)
  BY <1>1, NamesCompareByRule
<1>3. ~(ComesFirst(e.name, f.name) /\ ComesFirst(f.name, e.name))
  <2>1. SameKeys(e.name, e.name)
    BY DEF SameKeys
  <2> QED BY <1>1, <2>1, FirstIsStrict
<1>4. c \in {-1, 0, 1} /\ (c < 0 <=> ComesFirst(e.name, f.name))
  BY <1>2
<1>5. compareByName(e, f) = IF c = Endless THEN Endless ELSE IF c < 0 THEN -1 ELSE 1
  BY DEF compareByName
<1> HIDE DEF c
<1>6. c # Endless
  BY <1>4 DEF Endless
<1>7. compareByName(e, f) = IF c < 0 THEN -1 ELSE 1
  BY <1>5, <1>6
<1>8. ASSUME c < 0 PROVE compareByName(e, f) = -1 /\ ~ComesFirst(f.name, e.name)
  <2>1. compareByName(e, f) = -1
    BY <1>7, <1>8
  <2>2. ~ComesFirst(f.name, e.name)
    BY <1>3, <1>4, <1>8
  <2> QED BY <2>1, <2>2
<1>9. ASSUME ~(c < 0) PROVE compareByName(e, f) = 1 /\ ~ComesFirst(e.name, f.name)
  <2>1. compareByName(e, f) = 1
    BY <1>7, <1>9
  <2>2. ~ComesFirst(e.name, f.name)
    BY <1>4, <1>9
  <2> QED BY <2>1, <2>2
<1>10. ASSUME NEW g \in PlainEntries(chars), ~ComesFirst(e.name, f.name), ~ComesFirst(f.name, g.name),
              ComesFirst(e.name, g.name)
       PROVE  FALSE
  <2> DEFINE Less(x, y) == ComesFirst(x.name, y.name)
  <2>1. ASSUME NEW x \in PlainEntries(chars), NEW y \in PlainEntries(chars), NEW z \in PlainEntries(chars)
        PROVE  /\ Less(x, y) /\ Less(y, z) => Less(x, z)
               /\ ~Less(x, y) /\ ~Less(y, x) /\ ~Less(y, z) /\ ~Less(z, y) => ~Less(x, z)
    <3> DEFINE L(s, t) == compareUnified(s, t) < 0
    <3>1. /\ L(x.name, y.name) /\ L(y.name, z.name) => L(x.name, z.name)
          /\ ~L(x.name, y.name) /\ ~L(y.name, x.name) /\ ~L(y.name, z.name) /\ ~L(z.name, y.name)
                => ~L(x.name, z.name)
      BY <1>1, NamesAreOrdered
    <3>2. ASSUME NEW u \in PlainEntries(chars), NEW v \in PlainEntries(chars)
          PROVE  L(u.name, v.name) <=> Less(u, v)
      BY <1>2
    <3> HIDE DEF L, Less
    <3> QED BY <3>1, <3>2
  <2>2. ~Less(e, f) /\ ~Less(f, g) /\ Less(e, g)
    BY <1>10
  <2> HIDE DEF Less
  <2>3. ~Less(f, e)
    BY <2>1, <2>2
  <2>4. ~Less(g, f)
    BY <2>1, <2>2
  <2> QED BY <2>1, <2>2, <2>3, <2>4
<1>11. /\ compareByName(e, f) \in {-1, 1}
       /\ compareByName(e, f) = -1 => ~ComesFirst(f.name, e.name)
       /\ compareByName(e, f) = 1 => ~ComesFirst(e.name, f.name)
  BY <1>8, <1>9
<1> QED BY <1>10, <1>11

\* Of entries with plain names every role has an order, and compares by it.
LEMMA RolesSort ==
    ASSUME NEW chars, PlainChars(chars), NEW role \in {"FileName", "FileSize", "LastModified", "LastRead"}
    PROVE  Sortable(role, PlainEntries(chars)) /\ Comparable(role, PlainEntries(chars))
<1> DEFINE X == PlainEntries(chars)
           size(e) == fileSizeByEnt(e)
           time(e) == TimeOf(role, e)
           first(e, f) == ComesFirst(e.name, f.name)
<1>1. \A e \in X : size(e) \in Int
  BY DEF PlainEntries, FTSENT, fileSizeByEnt
<1>2. \A e \in X : time(e)[1] \in Int /\ time(e)[2] \in Int
  BY DEF PlainEntries, FTSENT, TimeOf
<1>3. ASSUME NEW e \in X, NEW f \in X
      PROVE  /\ compareByName(e, f) \in {-1, 1}
             /\ compareByName(e, f) = -1 => ~first(f, e)
             /\ compareByName(e, f) = 1 => ~first(e, f)
             /\ \A g \in X : ~first(e, f) /\ ~first(f, g) => ~first(e, g)
  BY NamesMean
<1>4. CASE role = "FileName"
  <2>1. \A e, f : Compare(role, e, f) = compareByName(e, f) /\ (Before(role, e, f) <=> first(e, f))
    BY <1>4 DEF Compare, Before
  <2>2. ASSUME NEW e \in X, NEW f \in X
        PROVE  LET c == Compare(role, e, f)
               IN c # Endless /\ IF c <= 0 THEN ~Before(role, f, e) ELSE ~Before(role, e, f)
    <3> HIDE DEF first
    <3>1. CASE compareByName(e, f) = -1
      BY <1>3, <2>1, <3>1 DEF Endless
    <3>2. CASE compareByName(e, f) = 1
      BY <1>3, <2>1, <3>2 DEF Endless
    <3> QED BY <1>3, <3>1, <3>2
  <2> HIDE DEF first, X
  <2> QED BY <1>3, <2>1, <2>2 DEF Sortable, Comparable, X
<1>5. CASE role = "FileSize"
  <2>1. \A e, f : /\ Compare(role, e, f) = compareBySize(e, f)
                  /\ Before(role, e, f) <=> size(e) < size(f) \/ (size(e) = size(f) /\ first(e, f))
    BY <1>5 DEF Compare, Before
  <2>2. ASSUME NEW e \in X, NEW f \in X
        PROVE  LET c == Compare(role, e, f)
               IN c # Endless /\ IF c <= 0 THEN ~Before(role, f, e) ELSE ~Before(role, e, f)
    <3>1. Compare(role, e, f) = IF size(e) = size(f) THEN compareByName(e, f)
                                ELSE IF size(e) > size(f) THEN 1 ELSE 0
      BY <2>1 DEF compareBySize
    <3> HIDE DEF first, size
    <3>2. CASE size(e) = size(f)
      <4>1. Compare(role, e, f) = compareByName(e, f) /\ ~(size(e) < size(f)) /\ ~(size(f) < size(e))
        BY <1>1, <3>1, <3>2
      <4>2. CASE compareByName(e, f) = -1
        BY <1>3, <2>1, <4>1, <4>2 DEF Endless
      <4>3. CASE compareByName(e, f) = 1
        BY <1>3, <2>1, <4>1, <4>3 DEF Endless
      <4> QED BY <1>3, <4>2, <4>3
    <3>3. CASE size(e) > size(f)
      <4>1. Compare(role, e, f) = 1 /\ ~(size(e) < size(f)) /\ size(e) # size(f)
        BY <1>1, <3>1, <3>3
      <4> QED BY <2>1, <4>1 DEF Endless
    <3>4. CASE size(e) < size(f)
      <4>1. Compare(role, e, f) = 0 /\ ~(size(f) < size(e)) /\ size(e) # size(f)
        BY <1>1, <3>1, <3>4
      <4> QED BY <2>1, <4>1 DEF Endless
    <3> QED BY <1>1, <3>2, <3>3, <3>4
  <2>3. ASSUME NEW e \in X, NEW f \in X, NEW g \in X, ~Before(role, e, f), ~Before(role, f, g)
        PROVE  ~Before(role, e, g)
    <3> HIDE DEF size, first
    <3>1. size(e) >= size(f) /\ size(f) >= size(g)
      BY <1>1, <2>1, <2>3
    <3>2. CASE size(e) = size(f) /\ size(f) = size(g)
      BY <1>1, <1>3, <2>1, <2>3, <3>2
    <3>3. CASE ~(size(e) = size(f) /\ size(f) = size(g))
      <4>1. ~(size(e) < size(g)) /\ size(e) # size(g)
        BY <1>1, <3>1, <3>3
      <4> QED BY <2>1, <4>1
    <3> QED BY <3>2, <3>3
  <2> HIDE DEF X
  <2> QED BY <2>2, <2>3 DEF Sortable, Comparable, X
<1>6. CASE role \in {"LastModified", "LastRead"}
  <2>1. \A e, f : /\ Compare(role, e, f) = compareByTime(e, f, time(e), time(f))
                  /\ Before(role, e, f) <=> time(e)[1] < time(f)[1]
    BY <1>6 DEF Compare, Before, TimeOf
  <2>2. ASSUME NEW e \in X, NEW f \in X
        PROVE  LET c == Compare(role, e, f)
               IN c # Endless /\ IF c <= 0 THEN ~Before(role, f, e) ELSE ~Before(role, e, f)
    <3> DEFINE s == time(e)[1]
               t == time(f)[1]
    <3>1. Compare(role, e, f) = IF s # t THEN IF s > t THEN 1 ELSE 0
                                ELSE IF time(e)[2] > time(f)[2] THEN compareByName(e, f) ELSE 0
      BY <2>1 DEF compareByTime
    <3>2. s \in Int /\ t \in Int /\ (Before(role, e, f) <=> s < t) /\ (Before(role, f, e) <=> t < s)
      BY <1>2, <2>1
    <3> HIDE DEF s, t, time
    <3>3. CASE s = t
      <4>1. Compare(role, e, f) \in {-1, 0, 1} /\ ~Before(role, e, f) /\ ~Before(role, f, e)
        BY <1>3, <3>1, <3>2, <3>3
      <4> QED BY <4>1 DEF Endless
    <3>4. CASE s > t
      <4>1. Compare(role, e, f) = 1 /\ ~Before(role, e, f)
        BY <3>1, <3>2, <3>4
      <4> QED BY <4>1 DEF Endless
    <3>5. CASE s < t
      <4>1. Compare(role, e, f) = 0 /\ ~Before(role, f, e)
        BY <3>1, <3>2, <3>5
      <4> QED BY <4>1 DEF Endless
    <3> QED BY <3>2, <3>3, <3>4, <3>5
  <2>3. ASSUME NEW e \in X, NEW f \in X, NEW g \in X, ~Before(role, e, f), ~Before(role, f, g)
        PROVE  ~Before(role, e, g)
    <3> HIDE DEF time
    <3> QED BY <1>2, <2>1, <2>3
  <2> HIDE DEF X
  <2> QED BY <2>2, <2>3 DEF Sortable, Comparable, X
<1> QED BY <1>4, <1>5, <1>6

\* What fts reads, in whatever role: the directory's entries, each once.  It has a result if all
\* comparisons end; if names are plain it has one, in the order of the role.
LEMMA ReadOrderMeans ==
    ASSUME NEW d \in Directories, NEW role \in Roles \cup {"Default"}
    PROVE  LET order == ReadOrder[role][d]
           IN /\ order = Stuck \/ Sorting(role, ToSet(d), order, Len(d), ToSet(d))
              /\ role = "Default" \/ Comparable(role, ToSet(d)) => order # Stuck
              /\ \A chars : PlainChars(chars) /\ (\A i \in DOMAIN d : d[i].name \in Seq(chars)) =>
                     order # Stuck /\ Ordered(role, order)
<1> DEFINE E == ToSet(d)
           order == ReadOrder[role][d]
<1>1. d \in Seq(FTSENT) /\ IsInjective(d)
  BY DirectoriesAssumption DEF IsInjective
<1>2. d \in Seq(E) /\ E \subseteq FTSENT /\ Seq(E) \subseteq Seq(FTSENT)
  <2>1. \A i \in 1..Len(d) : d[i] \in E /\ d[i] \in FTSENT
    BY <1>1 DEF ToSet
  <2>2. E \subseteq FTSENT
    BY <1>1, <2>1 DEF ToSet
  <2> HIDE DEF E
  <2>3. d \in Seq(E)
    BY <1>1, <2>1
  <2>4. Seq(E) \subseteq Seq(FTSENT)
    BY <2>2
  <2> QED BY <2>2, <2>3, <2>4
<1>3. Stuck \notin Seq(E)
  BY <1>2, NothingAssumption
<1>4. order = IF role = "Default" THEN d ELSE MergeSort(role, d)
  BY DEF ReadOrder
<1> HIDE DEF order, E
<1>5. CASE role = "Default"
  <2>1. order = d
    BY <1>4, <1>5
  <2>2. Ordered(role, order)
    BY <1>5 DEF Ordered, Before
  <2>3. Sorting(role, E, order, Len(d), E)
    BY <1>1, <1>2, <2>1, <2>2 DEF Sorting, E
  <2> QED BY <1>2, <1>3, <2>1, <2>2, <2>3 DEF order, E
<1>6. CASE role # "Default"
  <2>1. role \in {"FileName", "FileSize", "LastModified", "LastRead"}
    BY <1>6, RolesAssumption
  <2>2. /\ order = Stuck \/ Sorting(role, E, order, Len(d), E)
        /\ Comparable(role, E) => order # Stuck
    BY <1>1, <1>2, <1>3, <1>4, <1>6, MergeSortSorting DEF E
  <2>3. ASSUME NEW chars, PlainChars(chars), \A i \in DOMAIN d : d[i].name \in Seq(chars)
        PROVE  Sortable(role, E) /\ Comparable(role, E)
    <3>1. Sortable(role, PlainEntries(chars)) /\ Comparable(role, PlainEntries(chars))
      BY <2>1, <2>3, RolesSort
    <3>2. E \subseteq PlainEntries(chars)
      BY <1>2, <2>3 DEF PlainEntries, ToSet, E
    <3> QED BY <3>1, <3>2 DEF Sortable, Comparable
  <2> QED BY <1>6, <2>2, <2>3 DEF Sorting, order, E
<1> QED BY <1>5, <1>6

\* Whatever plain names the entries of a directory have, the sort ends; it keeps every entry, once,
\* and nothing that the role puts first comes after what it puts later.
THEOREM DirectoryIsSorted ==
    ASSUME NEW d \in Directories, NEW role \in Roles \cup {"Default"},
           NEW chars, PlainChars(chars), \A i \in DOMAIN d : d[i].name \in Seq(chars)
    PROVE  LET order == ReadOrder[role][d]
           IN /\ order # Stuck
              /\ IsInjective(order) /\ Len(order) = Len(d) /\ ToSet(order) = ToSet(d)
              /\ \A i, j \in DOMAIN order : i < j => ~Before(role, order[j], order[i])
<1> DEFINE order == ReadOrder[role][d]
<1>1. order = Stuck \/ Sorting(role, ToSet(d), order, Len(d), ToSet(d))
  BY ReadOrderMeans
<1>2. order # Stuck /\ Ordered(role, order)
  BY ReadOrderMeans
<1> HIDE DEF order
<1> QED BY <1>1, <1>2 DEF Sorting, Ordered, order

-----------------------------------------------------------------------------
(* What a sorted listing returns                                           *)

Apart(s, t) == ToSet(s) \cap ToSet(t) = {}

\* In the order asked for.
Lined(role, s) == \A i, j \in DOMAIN s : i < j => ~Early(role, s[j], s[i])

\* The entries not yet walked and the two lists hold the directory's, each once, the list of
\* directories only directories.
Distributed(left, dirs, files) ==
    /\ left \in Seq(FTSENT) /\ dirs \in Seq(FTSENT) /\ files \in Seq(FTSENT)
    /\ IsInjective(left) /\ IsInjective(dirs) /\ IsInjective(files)
    /\ Apart(left, dirs) /\ Apart(left, files) /\ Apart(dirs, files)
    /\ ToSet(left) \cup ToSet(dirs) \cup ToSet(files) = ToSet(directory)
    /\ Len(left) + Len(dirs) + Len(files) = Len(directory)
    /\ \A e \in ToSet(dirs) : Group(e) = 0
    /\ \A e \in ToSet(files) : Group(e) = 1

\* Nothing still to be walked belongs before what is in the lists.
InLine(role, left, dirs, files) ==
    /\ Ordered(role, left) /\ Lined(role, dirs) /\ Lined(role, files)
    /\ \A e \in ToSet(dirs) \cup ToSet(files), f \in ToSet(left) : ~Before(role, f, e)

Stream == [role : Roles \cup {"Default"}, sorted : BOOLEAN, left : Seq(FTSENT)]

StreamTypes ==
    /\ directory \in Directories /\ readable \in BOOLEAN
    /\ sortRoleFlag \in Roles \cup {"Default"}
    /\ phase \in {"idle", "reading", "sorting"}
    /\ fts = NoStream \/ fts \in Stream
    /\ phase # "idle" => fts # NoStream
    /\ fts # NoStream /\ phase # "reading" => fts.sorted = FALSE
    /\ phase = "sorting" => readable = TRUE
    /\ fts # NoStream /\ (fts.sorted = FALSE \/ readable = FALSE) => fts.left = <<>>

SortedInv ==
    /\ StreamTypes
    /\ phase # "idle" /\ (fts.sorted = FALSE \/ readable = FALSE) => listDir = <<>> /\ listFile = <<>>
    /\ phase # "idle" /\ fts.sorted = TRUE /\ readable = TRUE =>
          /\ Distributed(fts.left, listDir, listFile)
          /\ PlainNames => InLine(fts.role, fts.left, listDir, listFile)

\* An entry put last.
LEMMA LastMeans ==
    ASSUME NEW E, NEW e \in E, NEW s \in Seq(E)
    PROVE  /\ Append(s, e) \in Seq(E) /\ Len(Append(s, e)) = Len(s) + 1
           /\ DOMAIN Append(s, e) = 1..(Len(s) + 1)
           /\ \A i \in 1..(Len(s) + 1) : Append(s, e)[i] = IF i = Len(s) + 1 THEN e ELSE s[i]
           /\ ToSet(Append(s, e)) = ToSet(s) \cup {e}
           /\ e \notin ToSet(s) /\ IsInjective(s) => IsInjective(Append(s, e))
<1> DEFINE t == Append(s, e)
           n == Len(s)
<1>1. /\ t \in Seq(E) /\ Len(t) = n + 1 /\ DOMAIN t = 1..(n + 1) /\ n \in Nat /\ DOMAIN s = 1..n
      /\ \A i \in 1..(n + 1) : t[i] = IF i = n + 1 THEN e ELSE s[i]
  OBVIOUS
<1> HIDE DEF t, n
<1>2. ToSet(t) = ToSet(s) \cup {e}
  <2>1. 1..(n + 1) = (1..n) \cup {n + 1} /\ n + 1 \notin 1..n
    BY <1>1
  <2>2. \A i \in 1..n : t[i] = s[i]
    BY <1>1, <2>1
  <2>3. t[n + 1] = e
    BY <1>1, <2>1
  <2> QED BY <1>1, <2>1, <2>2, <2>3 DEF ToSet
<1>3. ASSUME e \notin ToSet(s), IsInjective(s) PROVE IsInjective(t)
  <2> SUFFICES ASSUME NEW i \in 1..(n + 1), NEW j \in 1..(n + 1), t[i] = t[j] PROVE i = j
    BY <1>1 DEF IsInjective
  <2>1. \A k \in 1..n : s[k] # e
    BY <1>1, <1>3 DEF ToSet
  <2>2. (i = n + 1 \/ i \in 1..n) /\ (j = n + 1 \/ j \in 1..n)
    BY <1>1
  <2>3. i \in 1..n /\ j \in 1..n /\ s[i] = s[j] => i = j
    BY <1>1, <1>3 DEF IsInjective
  <2> QED BY <1>1, <2>1, <2>2, <2>3
<1> QED BY <1>1, <1>2, <1>3 DEF t, n

\* The first entry and the others.
LEMMA HeadMeans ==
    ASSUME NEW E, NEW s \in Seq(E), s # <<>>, IsInjective(s)
    PROVE  /\ Head(s) \in E /\ Tail(s) \in Seq(E) /\ Len(s) = Len(Tail(s)) + 1
           /\ ToSet(s) = ToSet(Tail(s)) \cup {Head(s)} /\ Head(s) \notin ToSet(Tail(s))
           /\ IsInjective(Tail(s))
           /\ \A role : Ordered(role, s) => /\ Ordered(role, Tail(s))
                                            /\ \A x \in ToSet(Tail(s)) : ~Before(role, x, Head(s))
<1> DEFINE e == Head(s)
           t == Tail(s)
           n == Len(t)
<1>1. /\ e \in E /\ t \in Seq(E) /\ n \in Nat /\ Len(s) = n + 1 /\ e = s[1]
      /\ DOMAIN s = 1..(n + 1) /\ DOMAIN t = 1..n
      /\ \A i \in 1..n : t[i] = s[i + 1] /\ i + 1 \in 1..(n + 1)
  OBVIOUS
<1> HIDE DEF e, t, n
<1>2. ToSet(s) = ToSet(t) \cup {e}
  <2>1. ASSUME NEW x \in ToSet(s) PROVE x \in ToSet(t) \cup {e}
    <3>1. PICK i \in 1..(n + 1) : x = s[i]
      BY <1>1, <2>1 DEF ToSet
    <3>2. CASE i = 1
      BY <1>1, <3>1, <3>2
    <3>3. CASE i # 1
      <4>1. i - 1 \in 1..n /\ (i - 1) + 1 = i
        BY <1>1, <3>3
      <4>2. x = t[i - 1]
        BY <1>1, <3>1, <4>1
      <4> QED BY <1>1, <4>1, <4>2 DEF ToSet
    <3> QED BY <3>2, <3>3
  <2>2. ASSUME NEW x \in ToSet(t) PROVE x \in ToSet(s)
    BY <1>1, <2>2 DEF ToSet
  <2>3. e \in ToSet(s)
    <3>1. 1 \in 1..(n + 1)
      BY <1>1
    <3> QED BY <1>1, <3>1 DEF ToSet
  <2> QED BY <2>1, <2>2, <2>3
<1>3. e \notin ToSet(t)
  <2>1. \A i \in 1..n : s[i + 1] # s[1]
    <3>1. \A i \in 1..n : i + 1 # 1 /\ i + 1 \in 1..(n + 1) /\ 1 \in 1..(n + 1)
      BY <1>1
    <3> QED BY <1>1, <3>1 DEF IsInjective
  <2> QED BY <1>1, <2>1 DEF ToSet
<1>4. IsInjective(t)
  <2> SUFFICES ASSUME NEW i \in 1..n, NEW j \in 1..n, t[i] = t[j] PROVE i = j
    BY <1>1 DEF IsInjective
  <2>1. i + 1 = j + 1
    BY <1>1 DEF IsInjective
  <2> QED BY <1>1, <2>1
<1>5. ASSUME NEW role, Ordered(role, s)
      PROVE  Ordered(role, t) /\ \A x \in ToSet(t) : ~Before(role, x, e)
  <2>1. \A i, j \in 1..(n + 1) : i < j => ~Before(role, s[j], s[i])
    BY <1>1, <1>5 DEF Ordered
  <2>2. \A i, j \in 1..n : i < j => i + 1 < j + 1
    BY <1>1
  <2>3. \A j \in 1..n : 1 < j + 1 /\ 1 \in 1..(n + 1)
    BY <1>1
  <2>4. Ordered(role, t)
    BY <1>1, <2>1, <2>2 DEF Ordered
  <2>5. \A x \in ToSet(t) : ~Before(role, x, e)
    BY <1>1, <2>1, <2>3 DEF ToSet
  <2> QED BY <2>4, <2>5
<1> QED BY <1>1, <1>2, <1>3, <1>4, <1>5 DEF e, t, n

\* An entry put into a list, at the end that the order asks for.
LEMMA PutMeans ==
    ASSUME NEW E, NEW e \in E, NEW s \in Seq(E), e \notin ToSet(s), IsInjective(s)
    PROVE  /\ Put(s, e) \in Seq(E) /\ Len(Put(s, e)) = Len(s) + 1
           /\ ToSet(Put(s, e)) = ToSet(s) \cup {e} /\ IsInjective(Put(s, e))
           /\ \A role : Lined(role, s) /\ (\A x \in ToSet(s) : ~Before(role, e, x)) => Lined(role, Put(s, e))
<1> DEFINE t == Put(s, e)
           n == Len(s)
<1>1. n \in Nat /\ DOMAIN s = 1..n
  OBVIOUS
<1>2. CASE sortOrder = "Descending"
  <2>1. t = <<e>> \o s
    BY <1>2 DEF Put
  <2>2. /\ t \in Seq(E) /\ Len(t) = n + 1 /\ DOMAIN t = 1..(n + 1)
        /\ \A i \in 1..(n + 1) : t[i] = IF i = 1 THEN e ELSE s[i - 1]
        /\ ToSet(t) = ToSet(s) \cup {e} /\ IsInjective(t)
    BY <2>1, FirstMeans
  <2> HIDE DEF t, n
  <2>3. ASSUME NEW role, Lined(role, s), \A x \in ToSet(s) : ~Before(role, e, x) PROVE Lined(role, t)
    <3> SUFFICES ASSUME NEW i \in 1..(n + 1), NEW j \in 1..(n + 1), i < j PROVE ~Before(role, t[i], t[j])
      BY <1>2, <2>2 DEF Lined, Early
    <3>1. \A k, l \in 1..n : k < l => ~Before(role, s[k], s[l])
      BY <1>1, <1>2, <2>3 DEF Lined, Early
    <3>2. j - 1 \in 1..n /\ t[j] = s[j - 1]
      BY <1>1, <2>2
    <3>3. CASE i = 1
      <4>1. t[i] = e /\ s[j - 1] \in ToSet(s)
        BY <1>1, <2>2, <3>2, <3>3 DEF ToSet
      <4> QED BY <2>3, <3>2, <4>1
    <3>4. CASE i # 1
      <4>1. i - 1 \in 1..n /\ t[i] = s[i - 1] /\ i - 1 < j - 1
        BY <1>1, <2>2, <3>4
      <4> QED BY <3>1, <3>2, <4>1
    <3> QED BY <3>3, <3>4
  <2> QED BY <2>2, <2>3 DEF t, n
<1>3. CASE sortOrder # "Descending"
  <2>1. t = Append(s, e)
    BY <1>3 DEF Put
  <2>2. /\ t \in Seq(E) /\ Len(t) = n + 1 /\ DOMAIN t = 1..(n + 1)
        /\ \A i \in 1..(n + 1) : t[i] = IF i = n + 1 THEN e ELSE s[i]
        /\ ToSet(t) = ToSet(s) \cup {e} /\ IsInjective(t)
    BY <2>1, LastMeans
  <2> HIDE DEF t, n
  <2>3. ASSUME NEW role, Lined(role, s), \A x \in ToSet(s) : ~Before(role, e, x) PROVE Lined(role, t)
    <3> SUFFICES ASSUME NEW i \in 1..(n + 1), NEW j \in 1..(n + 1), i < j PROVE ~Before(role, t[j], t[i])
      BY <1>3, <2>2 DEF Lined, Early
    <3>1. \A k, l \in 1..n : k < l => ~Before(role, s[l], s[k])
      BY <1>1, <1>3, <2>3 DEF Lined, Early
    <3>2. i \in 1..n /\ i # n + 1 /\ t[i] = s[i] /\ s[i] \in ToSet(s)
      <4>1. i \in 1..n /\ i # n + 1
        BY <1>1
      <4> QED BY <1>1, <2>2, <4>1 DEF ToSet
    <3>3. CASE j = n + 1
      <4>1. t[j] = e
        BY <2>2, <3>3
      <4> QED BY <2>3, <3>2, <4>1
    <3>4. CASE j # n + 1
      <4>1. j \in 1..n /\ t[j] = s[j]
        BY <1>1, <2>2, <3>4
      <4> QED BY <3>1, <3>2, <4>1
    <3> QED BY <3>3, <3>4
  <2> QED BY <2>2, <2>3 DEF t, n
<1> QED BY <1>2, <1>3

\* An entry walked.
LEMMA WalkMeans ==
    ASSUME NEW left, NEW dirs, NEW files, Distributed(left, dirs, files), left # <<>>, NEW dirs2, NEW files2,
           \/ Group(Head(left)) = 0 /\ dirs2 = Put(dirs, Head(left)) /\ files2 = files
           \/ Group(Head(left)) = 1 /\ files2 = Put(files, Head(left)) /\ dirs2 = dirs
    PROVE  /\ Distributed(Tail(left), dirs2, files2)
           /\ \A role : InLine(role, left, dirs, files) => InLine(role, Tail(left), dirs2, files2)
<1> DEFINE e == Head(left)
           rest == Tail(left)
<1>1. /\ left \in Seq(FTSENT) /\ dirs \in Seq(FTSENT) /\ files \in Seq(FTSENT)
      /\ IsInjective(left) /\ IsInjective(dirs) /\ IsInjective(files)
      /\ ToSet(left) \cap ToSet(dirs) = {} /\ ToSet(left) \cap ToSet(files) = {}
      /\ ToSet(dirs) \cap ToSet(files) = {}
      /\ ToSet(left) \cup ToSet(dirs) \cup ToSet(files) = ToSet(directory)
      /\ Len(left) + Len(dirs) + Len(files) = Len(directory)
      /\ \A x \in ToSet(dirs) : Group(x) = 0
      /\ \A x \in ToSet(files) : Group(x) = 1
  BY DEF Distributed, Apart
<1>2. /\ e \in FTSENT /\ rest \in Seq(FTSENT) /\ Len(left) = Len(rest) + 1
      /\ ToSet(left) = ToSet(rest) \cup {e} /\ e \notin ToSet(rest) /\ IsInjective(rest)
      /\ \A role : Ordered(role, left) => Ordered(role, rest) /\ \A x \in ToSet(rest) : ~Before(role, x, e)
  BY <1>1, HeadMeans
<1>3. Len(rest) \in Nat /\ Len(dirs) \in Nat /\ Len(files) \in Nat
  BY <1>1, <1>2
<1> HIDE DEF e, rest
<1>4. e \notin ToSet(dirs) /\ e \notin ToSet(files)
  BY <1>1, <1>2
<1>5. ASSUME NEW role, InLine(role, left, dirs, files)
      PROVE  /\ Ordered(role, rest) /\ Lined(role, dirs) /\ Lined(role, files)
             /\ \A x \in ToSet(dirs) \cup ToSet(files) : ~Before(role, e, x)
             /\ \A x \in ToSet(dirs) \cup ToSet(files) \cup {e}, y \in ToSet(rest) : ~Before(role, y, x)
  BY <1>2, <1>5 DEF InLine
<1>6. CASE Group(e) = 0 /\ dirs2 = Put(dirs, e) /\ files2 = files
  <2>1. /\ dirs2 \in Seq(FTSENT) /\ Len(dirs2) = Len(dirs) + 1
        /\ ToSet(dirs2) = ToSet(dirs) \cup {e} /\ IsInjective(dirs2)
        /\ \A role : Lined(role, dirs) /\ (\A x \in ToSet(dirs) : ~Before(role, e, x)) => Lined(role, dirs2)
    BY <1>1, <1>2, <1>4, <1>6, PutMeans
  <2>2. Len(rest) + Len(dirs2) + Len(files2) = Len(directory)
    BY <1>1, <1>2, <1>3, <1>6, <2>1
  <2>3. Apart(rest, dirs2) /\ Apart(rest, files2) /\ Apart(dirs2, files2)
    BY <1>1, <1>2, <1>4, <1>6, <2>1 DEF Apart
  <2>4. ToSet(rest) \cup ToSet(dirs2) \cup ToSet(files2) = ToSet(directory)
    BY <1>1, <1>2, <1>6, <2>1
  <2>5. Distributed(rest, dirs2, files2)
    BY <1>1, <1>2, <1>6, <2>1, <2>2, <2>3, <2>4 DEF Distributed
  <2>6. ASSUME NEW role, InLine(role, left, dirs, files) PROVE InLine(role, rest, dirs2, files2)
    <3>1. Lined(role, dirs2)
      BY <1>5, <2>1, <2>6
    <3>2. ToSet(dirs2) \cup ToSet(files2) = ToSet(dirs) \cup ToSet(files) \cup {e}
      BY <1>6, <2>1
    <3> QED BY <1>5, <1>6, <2>6, <3>1, <3>2 DEF InLine
  <2> QED BY <2>5, <2>6 DEF rest
<1>7. CASE Group(e) = 1 /\ files2 = Put(files, e) /\ dirs2 = dirs
  <2>1. /\ files2 \in Seq(FTSENT) /\ Len(files2) = Len(files) + 1
        /\ ToSet(files2) = ToSet(files) \cup {e} /\ IsInjective(files2)
        /\ \A role : Lined(role, files) /\ (\A x \in ToSet(files) : ~Before(role, e, x)) => Lined(role, files2)
    BY <1>1, <1>2, <1>4, <1>7, PutMeans
  <2>2. Len(rest) + Len(dirs2) + Len(files2) = Len(directory)
    BY <1>1, <1>2, <1>3, <1>7, <2>1
  <2>3. Apart(rest, dirs2) /\ Apart(rest, files2) /\ Apart(dirs2, files2)
    BY <1>1, <1>2, <1>4, <1>7, <2>1 DEF Apart
  <2>4. ToSet(rest) \cup ToSet(dirs2) \cup ToSet(files2) = ToSet(directory)
    BY <1>1, <1>2, <1>7, <2>1
  <2>5. Distributed(rest, dirs2, files2)
    BY <1>1, <1>2, <1>7, <2>1, <2>2, <2>3, <2>4 DEF Distributed
  <2>6. ASSUME NEW role, InLine(role, left, dirs, files) PROVE InLine(role, rest, dirs2, files2)
    <3>1. Lined(role, files2)
      BY <1>5, <2>1, <2>6
    <3>2. ToSet(dirs2) \cup ToSet(files2) = ToSet(dirs) \cup ToSet(files) \cup {e}
      BY <1>7, <2>1
    <3> QED BY <1>5, <1>7, <2>6, <3>1, <3>2 DEF InLine
  <2> QED BY <2>5, <2>6 DEF rest
<1> QED BY <1>6, <1>7 DEF e

\* The two lists, one after the other.
LEMMA ListsJoined ==
    ASSUME NEW left, NEW dirs, NEW files, Distributed(left, dirs, files)
    PROVE  LET r == dirs \o files
           IN /\ r \in Seq(FTSENT) /\ IsInjective(r) /\ ToSet(r) \subseteq ToSet(directory)
              /\ left = <<>> => Len(r) = Len(directory)
              /\ isMixDirAndFile => r = files
              /\ \A role, i : i \in 1..(Len(r) - 1) =>
                    \/ Group(r[i]) < Group(r[i + 1])
                    \/ /\ Group(r[i]) = Group(r[i + 1])
                       /\ InLine(role, left, dirs, files) => ~Early(role, r[i + 1], r[i])
<1> DEFINE r == dirs \o files
           m == Len(dirs)
           n == Len(files)
<1>1. /\ left \in Seq(FTSENT) /\ dirs \in Seq(FTSENT) /\ files \in Seq(FTSENT)
      /\ IsInjective(dirs) /\ IsInjective(files) /\ ToSet(dirs) \cap ToSet(files) = {}
      /\ ToSet(left) \cup ToSet(dirs) \cup ToSet(files) = ToSet(directory)
      /\ Len(left) + m + n = Len(directory)
      /\ \A x \in ToSet(dirs) : Group(x) = 0
      /\ \A x \in ToSet(files) : Group(x) = 1
  BY DEF Distributed, Apart
<1>2. m \in Nat /\ n \in Nat /\ DOMAIN dirs = 1..m /\ DOMAIN files = 1..n
  BY <1>1
<1>3. /\ r \in Seq(FTSENT) /\ Len(r) = m + n /\ DOMAIN r = 1..(m + n)
      /\ \A i \in 1..(m + n) : r[i] = IF i <= m THEN dirs[i] ELSE files[i - m]
  <2>1. /\ r \in Seq(FTSENT) /\ Len(r) = m + n
        /\ \A i \in 1..(m + n) : r[i] = IF i <= m THEN dirs[i] ELSE files[i - m]
    BY <1>1, ConcatProperties
  <2> QED BY <1>2, <2>1
<1> HIDE DEF r, m, n
<1>4. \A i \in 1..m : dirs[i] \in ToSet(dirs)
  BY <1>2 DEF ToSet
<1>5. \A i \in 1..n : files[i] \in ToSet(files)
  BY <1>2 DEF ToSet
<1>6. ASSUME NEW i \in 1..(m + n)
      PROVE  \/ i \in 1..m /\ r[i] = dirs[i] /\ r[i] \in ToSet(dirs)
             \/ i - m \in 1..n /\ r[i] = files[i - m] /\ r[i] \in ToSet(files)
  <2>1. CASE i <= m
    <3>1. i \in 1..m /\ r[i] = dirs[i]
      BY <1>2, <1>3, <2>1
    <3> QED BY <1>4, <3>1
  <2>2. CASE ~(i <= m)
    <3>1. i - m \in 1..n /\ r[i] = files[i - m]
      BY <1>2, <1>3, <2>2
    <3> QED BY <1>5, <3>1
  <2> QED BY <2>1, <2>2
<1>7. IsInjective(r)
  <2> SUFFICES ASSUME NEW i \in 1..(m + n), NEW j \in 1..(m + n), r[i] = r[j] PROVE i = j
    BY <1>3 DEF IsInjective
  <2>1. CASE r[i] \in ToSet(dirs)
    <3>1. i \in 1..m /\ j \in 1..m /\ dirs[i] = dirs[j]
      BY <1>1, <1>6, <2>1
    <3> QED BY <1>1, <1>2, <3>1 DEF IsInjective
  <2>2. CASE r[i] \in ToSet(files)
    <3>1. i - m \in 1..n /\ j - m \in 1..n /\ files[i - m] = files[j - m]
      BY <1>1, <1>6, <2>2
    <3>2. i - m = j - m
      BY <1>1, <1>2, <3>1 DEF IsInjective
    <3> QED BY <1>2, <3>2
  <2> QED BY <1>6, <2>1, <2>2
<1>8. ToSet(r) \subseteq ToSet(directory)
  <2>1. \A i \in 1..(m + n) : r[i] \in ToSet(dirs) \cup ToSet(files)
    BY <1>6
  <2>2. ToSet(r) \subseteq ToSet(dirs) \cup ToSet(files)
    BY <1>3, <2>1 DEF ToSet
  <2> QED BY <1>1, <2>2
<1>9. left = <<>> => Len(r) = Len(directory)
  <2>1. Len(<<>>) = 0
    OBVIOUS
  <2> QED BY <1>1, <1>2, <1>3, <2>1
<1>10. ASSUME isMixDirAndFile PROVE r = files
  <2>1. \A x : Group(x) = 1
    BY <1>10 DEF Group
  <2>2. ~(m >= 1)
    <3> SUFFICES ASSUME m >= 1 PROVE FALSE
      OBVIOUS
    <3>1. 1 \in 1..m
      BY <1>2
    <3>2. Group(dirs[1]) = 0
      BY <1>1, <1>4, <3>1
    <3> QED BY <2>1, <3>2
  <2>3. m = 0
    BY <1>2, <2>2
  <2>4. dirs = <<>>
    BY <1>1, <2>3 DEF m
  <2> QED BY <1>1, <2>4, ConcatEmptySeq DEF r
<1>11. ASSUME NEW role, NEW i \in 1..(Len(r) - 1)
       PROVE  \/ Group(r[i]) < Group(r[i + 1])
              \/ /\ Group(r[i]) = Group(r[i + 1])
                 /\ InLine(role, left, dirs, files) => ~Early(role, r[i + 1], r[i])
  <2>1. i \in 1..(m + n) /\ i + 1 \in 1..(m + n) /\ i < i + 1
    BY <1>2, <1>3
  <2>2. CASE i + 1 <= m
    <3>1. i \in 1..m /\ i + 1 \in 1..m /\ r[i] = dirs[i] /\ r[i + 1] = dirs[i + 1]
      BY <1>2, <1>3, <2>1, <2>2
    <3>2. Group(r[i]) = 0 /\ Group(r[i + 1]) = 0
      BY <1>1, <1>4, <3>1
    <3>3. Lined(role, dirs) => ~Early(role, r[i + 1], r[i])
      BY <1>2, <2>1, <3>1 DEF Lined
    <3> QED BY <3>2, <3>3 DEF InLine
  <2>3. CASE i = m
    <3>1. i \in 1..m /\ r[i] = dirs[i]
      BY <1>2, <1>3, <2>1, <2>3
    <3>2. r[i + 1] = files[(i + 1) - m] /\ (i + 1) - m \in 1..n
      BY <1>2, <1>3, <2>1, <2>3
    <3>3. Group(r[i]) = 0 /\ Group(r[i + 1]) = 1
      BY <1>1, <1>4, <1>5, <3>1, <3>2
    <3> QED BY <3>3
  <2>4. CASE i > m
    <3>1. /\ i - m \in 1..n /\ (i + 1) - m \in 1..n /\ i - m < (i + 1) - m
          /\ r[i] = files[i - m] /\ r[i + 1] = files[(i + 1) - m]
      <4>1. i - m \in 1..n /\ (i + 1) - m \in 1..n /\ i - m < (i + 1) - m /\ ~(i <= m) /\ ~(i + 1 <= m)
        BY <1>2, <1>3, <2>1, <2>4
      <4>2. i \in 1..(m + n) /\ i + 1 \in 1..(m + n)
        BY <1>2, <1>3, <2>1
      <4> QED BY <1>3, <4>1, <4>2
    <3>2. Group(r[i]) = 1 /\ Group(r[i + 1]) = 1
      BY <1>1, <1>5, <3>1
    <3>3. Lined(role, files) => ~Early(role, r[i + 1], r[i])
      BY <1>2, <3>1 DEF Lined
    <3> QED BY <3>2, <3>3 DEF InLine
  <2> QED BY <1>2, <2>1, <2>2, <2>3, <2>4
<1> QED BY <1>3, <1>7, <1>8, <1>9, <1>10, <1>11 DEF r

\* The stream that a call opens or finds open.
LEMMA OpenMeans ==
    ASSUME StreamTypes, EnsureOpen, phase = "idle"
    PROVE  \/ fts' = NoStream /\ error' = TRUE
           \/ fts' \in Stream /\ fts' # NoStream /\ fts'.sorted = FALSE /\ fts'.left = <<>>
<1>1. CASE fts = NoStream
  <2> DEFINE s == [role |-> sortRoleFlag, sorted |-> FALSE, left |-> <<>>]
  <2>1. s \in Stream /\ s.sorted = FALSE /\ s.left = <<>>
    <3>1. <<>> \in Seq(FTSENT) /\ FALSE \in BOOLEAN /\ sortRoleFlag \in Roles \cup {"Default"}
      BY DEF StreamTypes
    <3> QED BY <3>1 DEF Stream
  <2>2. s # NoStream
    BY <2>1, NothingAssumption DEF Stream
  <2>3. fts' = s \/ (fts' = NoStream /\ error' = TRUE)
    BY <1>1 DEF EnsureOpen, openDirByfts
  <2> HIDE DEF s
  <2> QED BY <2>1, <2>2, <2>3
<1>2. CASE fts # NoStream
  <2>1. fts' = fts
    BY <1>2 DEF EnsureOpen
  <2> QED BY <1>2, <2>1 DEF StreamTypes
<1> QED BY <1>1, <1>2

LEMMA InitListing == ListingInit => SortedInv
<1> SUFFICES ASSUME ListingInit PROVE SortedInv
  OBVIOUS
<1> QED BY DEF ListingInit, SortedInv, StreamTypes

\* A step that leaves the directory and the settings alone.
LEMMA KeptAsAsked ==
    ASSUME UNCHANGED <<directory, settings>>, NEW left, NEW dirs, NEW files,
           fts'.left = left, listDir' = dirs, listFile' = files
    PROVE  /\ Distributed(left, dirs, files) => Distributed(fts.left, listDir, listFile)'
           /\ PlainNames' <=> PlainNames
           /\ InLine(fts'.role, left, dirs, files) => InLine(fts.role, fts.left, listDir, listFile)'
<1>1. directory' = directory /\ isMixDirAndFile' = isMixDirAndFile /\ sortOrder' = sortOrder
  BY DEF settings
<1>2. Distributed(left, dirs, files) => Distributed(fts.left, listDir, listFile)'
  BY <1>1 DEF Distributed, Group
<1>3. PlainNames' <=> PlainNames
  BY <1>1 DEF PlainNames, Chars
<1>4. InLine(fts'.role, left, dirs, files) => InLine(fts.role, fts.left, listDir, listFile)'
  BY <1>1 DEF InLine, Lined, Early
<1> QED BY <1>2, <1>3, <1>4

LEMMA NextListing == ASSUME SortedInv, [ListingNext]_listingVars PROVE SortedInv'
<1>1. /\ directory \in Directories /\ sortRoleFlag \in Roles \cup {"Default"}
      /\ phase \in {"idle", "reading", "sorting"} /\ (fts = NoStream \/ fts \in Stream)
      /\ phase # "idle" => fts # NoStream /\ fts \in Stream
      /\ fts # NoStream /\ phase # "reading" => fts.sorted = FALSE
      /\ readable \in BOOLEAN /\ (phase = "sorting" => readable = TRUE)
      /\ fts # NoStream /\ (fts.sorted = FALSE \/ readable = FALSE) => fts.left = <<>>
  BY DEF SortedInv, StreamTypes
<1>2. ASSUME NEW s \in Stream PROVE s.sorted \in BOOLEAN /\ s.role \in Roles \cup {"Default"} /\ s.left \in Seq(FTSENT)
  BY DEF Stream
\* No stream, or one of which nothing was read.
<1>3. ASSUME UNCHANGED disk, sortRoleFlag' \in Roles \cup {"Default"},
             phase' \in {"idle", "reading", "sorting"}, phase' = "sorting" => readable = TRUE,
             fts' = NoStream \/ (fts' \in Stream /\ fts'.sorted = FALSE /\ fts'.left = <<>>),
             phase' # "idle" => fts' # NoStream /\ listDir' = <<>> /\ listFile' = <<>>
      PROVE  SortedInv'
  BY <1>1, <1>3 DEF SortedInv, StreamTypes, disk
<1>4. ASSUME UNCHANGED <<disk, settings, fts, phase, listDir, listFile>> PROVE SortedInv'
  <2>1. /\ directory' = directory /\ readable' = readable /\ sortRoleFlag' = sortRoleFlag
        /\ fts' = fts /\ phase' = phase /\ listDir' = listDir /\ listFile' = listFile
    BY <1>4 DEF settings, disk
  <2>2. StreamTypes'
    BY <2>1 DEF SortedInv, StreamTypes
  <2> DEFINE left == fts.left
             dirs == listDir
             files == listFile
  <2>3. /\ Distributed(left, dirs, files) => Distributed(fts.left, listDir, listFile)'
        /\ PlainNames' <=> PlainNames
        /\ InLine(fts'.role, left, dirs, files) => InLine(fts.role, fts.left, listDir, listFile)'
    BY <1>4, <2>1, KeptAsAsked
  <2>4. /\ phase' # "idle" /\ fts'.sorted = TRUE /\ readable' = TRUE =>
              Distributed(fts.left, listDir, listFile)'
              /\ (PlainNames' => InLine(fts.role, fts.left, listDir, listFile)')
        /\ phase' # "idle" /\ (fts'.sorted = FALSE \/ readable' = FALSE) =>
              listDir' = <<>> /\ listFile' = <<>>
    BY <2>1, <2>3 DEF SortedInv
  <2> QED BY <2>2, <2>4 DEF SortedInv
<1>5. CASE UNCHANGED listingVars
  BY <1>4, <1>5 DEF listingVars
<1>6. CASE SetSort
  <2>1. /\ phase = "idle" /\ phase' = phase /\ UNCHANGED disk /\ fts' = fts
        /\ sortRoleFlag' \in Roles \cup {"Default"}
    BY <1>1, <1>6 DEF SetSort, BetweenCalls
  <2> QED BY <1>1, <1>3, <2>1
<1>7. CASE InitSorted
  <2>1. /\ phase = "idle" /\ phase' = phase /\ UNCHANGED disk /\ sortRoleFlag' = sortRoleFlag
        /\ EnsureOpen /\ StreamTypes
    BY <1>7 DEF InitSorted, BetweenCalls, settings, SortedInv
  <2>2. fts' = NoStream \/ (fts' \in Stream /\ fts' # NoStream /\ fts'.sorted = FALSE /\ fts'.left = <<>>)
    BY <2>1, OpenMeans
  <2> QED BY <1>1, <1>3, <2>1, <2>2
<1>8. CASE SortFileInfoList
  <2>1. /\ phase = "idle" /\ UNCHANGED disk /\ sortRoleFlag' = sortRoleFlag
        /\ listDir' = <<>> /\ listFile' = <<>> /\ EnsureOpen /\ StreamTypes
        /\ IF fts' = NoStream THEN phase' = "idle" ELSE phase' = "reading"
    BY <1>8 DEF SortFileInfoList, BetweenCalls, settings, SortedInv
  <2>2. fts' = NoStream \/ (fts' \in Stream /\ fts' # NoStream /\ fts'.sorted = FALSE /\ fts'.left = <<>>)
    BY <2>1, OpenMeans
  <2> QED BY <1>1, <1>3, <2>1, <2>2
<1>9. CASE CancelListing
  BY <1>4, <1>9 DEF CancelListing
<1>10. CASE ReadDirectory
  <2>1. /\ phase = "reading" /\ ~fts.sorted /\ phase' = "sorting" /\ UNCHANGED disk /\ readable
        /\ sortRoleFlag' = sortRoleFlag /\ fts' = fts /\ listDir' = listDir /\ listFile' = listFile
    BY <1>10 DEF ReadDirectory, settings
  <2>2. fts # NoStream /\ fts \in Stream
    BY <1>1, <2>1
  <2>3. fts.sorted = FALSE
    BY <1>2, <2>1, <2>2
  <2>4. listDir = <<>> /\ listFile = <<>> /\ fts.left = <<>> /\ readable = TRUE
    BY <1>1, <2>1, <2>2, <2>3 DEF SortedInv
  <2> QED BY <1>1, <1>3, <2>1, <2>2, <2>3, <2>4
<1>14. CASE ReadNothing
  <2>1. /\ phase = "reading" /\ ~fts.sorted /\ phase' = phase /\ UNCHANGED <<disk, settings>> /\ ~readable
        /\ fts' = [fts EXCEPT !.sorted = TRUE] /\ listDir' = listDir /\ listFile' = listFile
    BY <1>14 DEF ReadNothing
  <2>2. fts \in Stream /\ fts # NoStream /\ readable = FALSE
    BY <1>1, <2>1
  <2>3. fts.sorted = FALSE /\ fts.left = <<>>
    BY <1>1, <1>2, <2>1, <2>2
  <2>4. listDir = <<>> /\ listFile = <<>>
    BY <2>1, <2>3 DEF SortedInv
  <2>5. fts' \in Stream /\ fts'.left = <<>> /\ fts'.sorted = TRUE
    BY <2>1, <2>2, <2>3 DEF Stream
  <2>6. fts' # NoStream
    BY <2>5, NothingAssumption DEF Stream
  <2>7. StreamTypes'
    BY <1>1, <2>1, <2>2, <2>5, <2>6 DEF StreamTypes, settings, disk
  <2> QED BY <2>1, <2>2, <2>4, <2>7 DEF SortedInv, disk
<1>11. CASE Sort
  <2> DEFINE order == ReadOrder[fts.role][directory]
  <2>1. /\ phase = "sorting" /\ phase' = "reading" /\ UNCHANGED <<directory, settings>> /\ order # Stuck
        /\ fts' = [fts EXCEPT !.sorted = TRUE, !.left = order] /\ listDir' = listDir /\ listFile' = listFile
        /\ readable' = readable
    BY <1>11 DEF Sort, disk
  <2>16. readable = TRUE
    BY <1>1, <2>1
  <2>2. fts \in Stream /\ fts.sorted = FALSE
    BY <1>1, <2>1
  <2>3. listDir' = <<>> /\ listFile' = <<>>
    BY <2>1, <2>2 DEF SortedInv
  <2>4. /\ Sorting(fts.role, ToSet(directory), order, Len(directory), ToSet(directory))
        /\ PlainNames => Ordered(fts.role, order)
    <3>1. fts.role \in Roles \cup {"Default"}
      BY <1>2, <2>2
    <3>2. PlainNames => PlainChars(Chars) /\ \A i \in DOMAIN directory : directory[i].name \in Seq(Chars)
      BY <1>1, ListedNames DEF NamesInv
    <3> QED BY <1>1, <2>1, <3>1, <3>2, ReadOrderMeans
  <2> HIDE DEF order
  <2>5. order \in Seq(ToSet(directory)) /\ Len(order) = Len(directory)
        /\ ToSet(order) = ToSet(directory) /\ IsInjective(order)
    BY <2>4 DEF Sorting
  <2>6. order \in Seq(FTSENT)
    <3>1. directory \in Seq(FTSENT)
      BY <1>1, DirectoriesAssumption
    <3>2. ToSet(directory) \subseteq FTSENT
      BY <3>1 DEF ToSet
    <3> QED BY <2>5, <3>2
  <2>7. fts' \in Stream /\ fts'.sorted = TRUE /\ fts'.left = order /\ fts'.role = fts.role
    BY <2>1, <2>2, <2>6 DEF Stream
  <2>8. ToSet(<<>>) = {} /\ IsInjective(<<>>) /\ Len(<<>>) = 0 /\ <<>> \in Seq(FTSENT)
    BY DEF ToSet, IsInjective
  <2>9. Len(order) \in Nat
    BY <2>6
  <2>10. Distributed(order, <<>>, <<>>)
    BY <2>5, <2>6, <2>8, <2>9 DEF Distributed, Apart
  <2>11. PlainNames => InLine(fts.role, order, <<>>, <<>>)
    BY <2>4, <2>8 DEF InLine, Lined
  <2> DEFINE none == <<>>
  <2> HIDE DEF none
  <2>12. /\ Distributed(order, none, none) => Distributed(fts.left, listDir, listFile)'
         /\ PlainNames' <=> PlainNames
         /\ InLine(fts'.role, order, none, none) => InLine(fts.role, fts.left, listDir, listFile)'
    BY <2>1, <2>3, <2>7, KeptAsAsked DEF none
  <2>13. Distributed(fts.left, listDir, listFile)' /\ (PlainNames' => InLine(fts.role, fts.left, listDir, listFile)')
    BY <2>7, <2>10, <2>11, <2>12 DEF none
  <2>14. fts' # NoStream
    BY <2>7, NothingAssumption DEF Stream
  <2>15. StreamTypes'
    BY <1>1, <2>1, <2>7, <2>14, <2>16 DEF StreamTypes, settings
  <2> QED BY <2>1, <2>7, <2>13, <2>15, <2>16 DEF SortedInv
<1>12. CASE InsertEntry
  <2> DEFINE e == Head(fts.left)
             left == Tail(fts.left)
             dirs == IF Group(e) = 0 THEN Put(listDir, e) ELSE listDir
             files == IF Group(e) = 0 THEN listFile ELSE Put(listFile, e)
  <2>1. /\ phase = "reading" /\ phase' = phase /\ fts.sorted /\ fts.left # <<>> /\ UNCHANGED <<directory, settings>>
        /\ insertSortFileInfoList(e) /\ fts' = [fts EXCEPT !.left = Tail(@)] /\ readable' = readable
    BY <1>12 DEF InsertEntry, disk
  <2>2. fts \in Stream /\ fts.sorted = TRUE /\ readable = TRUE
    BY <1>1, <1>2, <2>1
  <2>3. Group(e) \in {0, 1} /\ (Group(e) = 0 <=> e.dir /\ ~isMixDirAndFile)
    BY DEF Group
  <2>4. listDir' = dirs /\ listFile' = files
    <3> HIDE DEF e
    <3> QED BY <2>1, <2>3 DEF insertSortFileInfoList
  <2>5. /\ Distributed(fts.left, listDir, listFile)
        /\ PlainNames => InLine(fts.role, fts.left, listDir, listFile)
    BY <2>1, <2>2 DEF SortedInv
  <2>6. /\ Distributed(left, dirs, files)
        /\ PlainNames => InLine(fts.role, left, dirs, files)
    BY <2>1, <2>3, <2>5, WalkMeans
  <2>7. left \in Seq(FTSENT)
    BY <2>6 DEF Distributed
  <2> HIDE DEF left
  <2>8. fts' = [fts EXCEPT !.left = left]
    BY <2>1 DEF left
  <2>9. fts' \in Stream /\ fts'.sorted = TRUE /\ fts'.left = left /\ fts'.role = fts.role
    BY <2>2, <2>7, <2>8 DEF Stream
  <2> HIDE DEF e, dirs, files
  <2>10. /\ Distributed(left, dirs, files) => Distributed(fts.left, listDir, listFile)'
         /\ PlainNames' <=> PlainNames
         /\ InLine(fts'.role, left, dirs, files) => InLine(fts.role, fts.left, listDir, listFile)'
    BY <2>1, <2>4, <2>9, KeptAsAsked
  <2>11. Distributed(fts.left, listDir, listFile)' /\ (PlainNames' => InLine(fts.role, fts.left, listDir, listFile)')
    BY <2>6, <2>9, <2>10
  <2>12. fts' # NoStream
    BY <2>9, NothingAssumption DEF Stream
  <2>13. StreamTypes'
    BY <1>1, <2>1, <2>2, <2>9, <2>12 DEF StreamTypes, settings
  <2> QED BY <2>1, <2>2, <2>9, <2>11, <2>13 DEF SortedInv
<1>13. CASE Return
  <2>1. phase' = "idle" /\ fts' = NoStream /\ UNCHANGED disk /\ sortRoleFlag' = sortRoleFlag
    BY <1>13 DEF Return, settings
  <2> QED BY <1>1, <1>3, <2>1
<1> QED BY <1>5, <1>6, <1>7, <1>8, <1>9, <1>10, <1>11, <1>12, <1>13, <1>14 DEF ListingNext

\* A step that ends a call ends it as the caller asked.
LEMMA ReturnsListed == ASSUME SortedInv, ListingNext PROVE ReturnsAsAsked
<1>1. ASSUME lists' # lists, phase' = "idle" PROVE error'
  <2>1. SortFileInfoList
    BY <1>1 DEF ListingNext, SetSort, InitSorted, CancelListing, ReadDirectory, ReadNothing,
          Sort, InsertEntry, Return
  <2>2. phase = "idle" /\ EnsureOpen /\ fts' = NoStream
    BY <1>1, <2>1 DEF SortFileInfoList, BetweenCalls
  <2>3. StreamTypes
    BY DEF SortedInv
  <2> QED BY <2>2, <2>3, OpenMeans
<1>2. ASSUME phase = "reading", phase' = "idle"
      PROVE  /\ IsInjective(result') /\ ToSet(result') \subseteq ToSet(directory)
             /\ ftsCanceled \/ Len(result') = (IF readable THEN Len(directory) ELSE 0)
             /\ ~readable => result' = <<>> /\ UNCHANGED error
             /\ \A i \in 1..(Len(result') - 1) :
                   LET e == result'[i]
                       f == result'[i + 1]
                   IN \/ Group(e) < Group(f)
                      \/ Group(e) = Group(f) /\ (PlainNames => ~Early(sortedBy', f, e))
  <2>1. Return
    BY <1>2 DEF ListingNext, SetSort, InitSorted, SortFileInfoList, BetweenCalls, CancelListing, ReadDirectory,
                ReadNothing, Sort, InsertEntry
  <2>2. /\ ftsCanceled \/ (fts.sorted /\ fts.left = <<>>)
        /\ result' = (IF isMixDirAndFile THEN listFile ELSE listDir \o listFile) /\ sortedBy' = fts.role
        /\ UNCHANGED error
    BY <2>1 DEF Return
  <2>6. readable \in BOOLEAN
    BY DEF SortedInv, StreamTypes
  <2>3. fts \in Stream /\ fts.sorted \in BOOLEAN
    <3>1. fts \in Stream
      BY <1>2 DEF SortedInv, StreamTypes
    <3> QED BY <3>1 DEF Stream
  <2>4. CASE fts.sorted = FALSE \/ readable = FALSE
    <3>1. listDir = <<>> /\ listFile = <<>>
      BY <1>2, <2>4 DEF SortedInv
    <3>2. result' = <<>>
      BY <2>2, <3>1
    <3>3. ftsCanceled \/ readable = FALSE
      BY <2>2, <2>4
    <3>4. ToSet(<<>>) = {} /\ IsInjective(<<>>) /\ 1..(Len(<<>>) - 1) = {}
      BY DEF ToSet, IsInjective
    <3>5. ftsCanceled \/ Len(result') = (IF readable THEN Len(directory) ELSE 0)
      <4>1. Len(result') = 0
        BY <3>2
      <4>2. ftsCanceled \/ ~readable
        BY <3>3
      <4> QED BY <4>1, <4>2
    <3>6. ToSet(result') = {} /\ IsInjective(result') /\ 1..(Len(result') - 1) = {}
      BY <3>2, <3>4
    <3> QED BY <2>2, <3>2, <3>5, <3>6
  <2>5. CASE fts.sorted = TRUE /\ readable = TRUE
    <3> DEFINE r == listDir \o listFile
    <3>1. /\ Distributed(fts.left, listDir, listFile)
          /\ PlainNames => InLine(fts.role, fts.left, listDir, listFile)
      BY <1>2, <2>5 DEF SortedInv
    <3>2. /\ IsInjective(r) /\ ToSet(r) \subseteq ToSet(directory)
          /\ fts.left = <<>> => Len(r) = Len(directory)
          /\ isMixDirAndFile => r = listFile
          /\ \A i \in 1..(Len(r) - 1) :
                \/ Group(r[i]) < Group(r[i + 1])
                \/ /\ Group(r[i]) = Group(r[i + 1])
                   /\ InLine(fts.role, fts.left, listDir, listFile) => ~Early(fts.role, r[i + 1], r[i])
      BY <3>1, ListsJoined
    <3>3. result' = r
      BY <2>2, <3>2
    <3> HIDE DEF r
    <3>4. ftsCanceled \/ Len(result') = (IF readable THEN Len(directory) ELSE 0)
      <4>1. ftsCanceled \/ Len(result') = Len(directory)
        BY <2>2, <3>2, <3>3
      <4>2. readable
        BY <2>5
      <4> QED BY <4>1, <4>2
    <3>5. ~readable => result' = <<>> /\ UNCHANGED error
      BY <2>5
    <3> QED BY <2>2, <3>1, <3>2, <3>3, <3>4, <3>5
  <2> QED BY <2>3, <2>4, <2>5, <2>6
<1> QED BY <1>1, <1>2 DEF ReturnsAsAsked

\* sortFileInfoList() of any directory, with any settings and however often it is cancelled, returns
\* every entry once or, if cancelled, some of them; directories first unless mixed; and, of plain
\* names, in the order that was asked for.  Of one that is missing or cannot be read it returns none
\* and leaves lastError() alone; none and an error is what a stream that could not be opened gives.
THEOREM ListingIsAsAsked == ListingSpec => ListedAsAsked
<1>1. SortedInv /\ [ListingNext]_listingVars => [ReturnsAsAsked]_listingVars
  BY ReturnsListed
<1>2. SortedInv /\ [ListingNext]_listingVars => SortedInv'
  BY NextListing
<1> QED BY <1>1, <1>2, InitListing, PTL DEF ListingSpec, ListedAsAsked

-----------------------------------------------------------------------------
(* The sort ends                                                           *)

Beyond(c) == c.type = NumberType /\ c.code >= 65536

\* The comparison of two names does not end only if both hold a digit beyond the BMP, at one place.
LEMMA ComparisonEnds ==
    ASSUME NEW s \in Seq(Char), NEW t \in Seq(Char), compareUnified(s, t) = Endless
    PROVE  (\E i \in DOMAIN s : Beyond(s[i])) /\ (\E i \in DOMAIN t : Beyond(t[i]))
<1> DEFINE m == Len(s)
           n == Len(t)
<1>1. PICK g : compareUnified(s, t) = g[1] /\ \A i \in 1..(m + 1) : g[i] = Round(g, s, t, i)
  BY LoopMeans
<1>2. m \in Nat /\ n \in Nat /\ DOMAIN s = 1..m /\ DOMAIN t = 1..n
  OBVIOUS
<1> DEFINE endless == {k \in 0..m : g[m + 1 - k] = Endless}
\* The last round that does not end.
<1>3. PICK k \in endless : \A l \in endless : k <= l
  <2>1. m \in endless /\ endless \in SUBSET Nat
    <3>1. m + 1 - m = 1 /\ m \in 0..m
      BY <1>2
    <3> HIDE DEF m
    <3> QED BY <1>1, <3>1
  <2> HIDE DEF endless
  <2> QED BY <2>1, LeastNumber
<1> DEFINE i == m + 1 - k
           c == CompareAt(s, t, i)
           step == Step(s, i)
<1>4. i \in 1..(m + 1) /\ k = m + 1 - i /\ g[i] = Endless
  BY <1>2
<1>5. g[i] = IF i > m \/ i > n THEN Order(m, n)
             ELSE IF c # 0 THEN c ELSE IF step = 0 THEN Endless ELSE g[i + step]
  BY <1>1, <1>4 DEF Round
<1> HIDE DEF i, c, step, m, n
<1>6. ~(i > m) /\ ~(i > n)
  <2>1. Order(m, n) # Endless
    BY DEF Order, Endless
  <2> QED BY <1>4, <1>5, <2>1
<1>7. i \in 1..m /\ i \in 1..n
  BY <1>2, <1>4, <1>6
<1>8. c = 0
  <2>1. c # Endless
    BY DEF c, CompareAt, CompareNumbers, CompareChars, CompareLetters, Order, Endless
  <2> QED BY <1>4, <1>5, <1>6, <2>1
<1>9. step = 0
  <2> SUFFICES ASSUME step # 0 PROVE FALSE
    OBVIOUS
  <2>1. RunLength(s, i) \in 0..(m + 1 - i)
    BY <1>7, RunSpans DEF m
  <2>2. step \in 1..(m + 1 - i)
    BY <1>2, <1>7, <2>1 DEF step, Step
  <2>3. g[i + step] = Endless
    BY <1>4, <1>5, <1>6, <1>8
  <2> DEFINE l == k - step
  <2>4. l \in 0..m /\ m + 1 - l = i + step /\ ~(k <= l)
    BY <1>2, <1>4, <1>7, <2>2
  <2> HIDE DEF l
  <2>5. l \in endless
    BY <2>3, <2>4
  <2> QED BY <1>3, <2>4, <2>5
<1>10. s[i].type = NumberType /\ RunLength(s, i) = 0
  BY <1>9 DEF step, Step
<1>11. t[i].type = NumberType /\ RunLength(t, i) = 0
  <2>1. \A x, y : Order(x, y) = 0 => ~(x < y) /\ ~(x > y)
    BY DEF Order
  <2>2. s[i].type \in 0..3 /\ t[i].type \in 0..3
    <3>1. s[i] \in Char /\ t[i] \in Char
      BY <1>7 DEF m, n
    <3> QED BY <3>1 DEF Char, NumberType, SymbolType
  <2>3. s[i].type = t[i].type
    BY <1>8, <2>1, <2>2 DEF c, CompareAt
  <2>4. Order(RunLength(t, i), RunLength(s, i)) = 0
    BY <1>8, <1>10, <2>3 DEF c, CompareAt, CompareNumbers
  <2>5. RunLength(t, i) \in 0..(n + 1 - i)
    BY <1>7, RunSpans DEF n
  <2>6. RunLength(t, i) \in Nat
    BY <1>2, <1>7, <2>5
  <2> QED BY <1>10, <2>1, <2>3, <2>4, <2>6
<1>12. ASSUME NEW u \in Seq(Char), i \in 1..Len(u), u[i].type = NumberType, RunLength(u, i) = 0
       PROVE  i \in DOMAIN u /\ Beyond(u[i])
  <2>1. ~isNumber(u[i])
    BY <1>12, RunSpans
  <2>2. u[i] \in Char
    BY <1>12
  <2>3. u[i].code \in Nat
    BY <2>2 DEF Char
  <2>4. Beyond(u[i])
    BY <1>12, <2>1, <2>3 DEF isNumber, Beyond
  <2> QED BY <1>12, <2>4
<1>13. i \in DOMAIN s /\ Beyond(s[i])
  BY <1>7, <1>10, <1>12 DEF m
<1>14. i \in DOMAIN t /\ Beyond(t[i])
  BY <1>7, <1>11, <1>12 DEF n
<1> QED BY <1>13, <1>14

\* Nor does that of two entries, in whatever role.
LEMMA RolesEnd ==
    ASSUME NEW role \in {"FileName", "FileSize", "LastModified", "LastRead"}, NEW e \in FTSENT, NEW f \in FTSENT,
           Compare(role, e, f) = Endless
    PROVE  BeyondBMP(e) /\ BeyondBMP(f)
<1> DEFINE c == compareByName(e, f)
           d == compareUnified(e.name, f.name)
<1>1. c = Endless
  <2>1. CASE role = "FileName"
    BY <2>1 DEF Compare
  <2>2. CASE role = "FileSize"
    <3>1. compareBySize(e, f) = Endless
      BY <2>2 DEF Compare
    <3> HIDE DEF c
    <3> QED BY <3>1 DEF compareBySize, Endless, c
  <2>3. CASE role \in {"LastModified", "LastRead"}
    <3>1. compareByTime(e, f, TimeOf(role, e), TimeOf(role, f)) = Endless
      BY <2>3 DEF Compare
    <3> HIDE DEF c
    <3> QED BY <3>1 DEF compareByTime, Endless, c
  <2> QED BY <2>1, <2>2, <2>3
<1>2. c = IF d = Endless THEN Endless ELSE IF d < 0 THEN -1 ELSE 1
  BY DEF compareByName
<1> HIDE DEF c, d
<1>3. d = Endless
  BY <1>1, <1>2 DEF Endless
<1>4. e.name \in Seq(Char) /\ f.name \in Seq(Char)
  BY DEF FTSENT
<1>5. /\ \E i \in DOMAIN e.name : Beyond(e.name[i])
      /\ \E i \in DOMAIN f.name : Beyond(f.name[i])
  BY <1>3, <1>4, ComparisonEnds DEF d
<1> QED BY <1>5 DEF Beyond, BeyondBMP

\* If one entry at most has such a name, each two of them can be compared.
LEMMA OneIsComparable ==
    ASSUME directory \in Directories, ComparesAll,
           NEW role \in {"FileName", "FileSize", "LastModified", "LastRead"}
    PROVE  Comparable(role, ToSet(directory))
<1> DEFINE odd == {i \in DOMAIN directory : BeyondBMP(directory[i])}
<1>1. directory \in Seq(FTSENT)
  BY DirectoriesAssumption
<1>2. DOMAIN directory = 1..Len(directory) /\ Len(directory) \in Nat
  BY <1>1
<1>3. IsFiniteSet(odd)
  <2>1. IsFiniteSet(1..Len(directory))
    BY <1>2, FS_Interval
  <2> QED BY <1>2, <2>1, FS_Subset
<1>4. Cardinality(odd) <= 1
  BY DEF ComparesAll
<1>5. ASSUME NEW i \in odd, NEW j \in odd, i # j PROVE FALSE
  <2> HIDE DEF odd
  <2>1. Cardinality({i}) = 1 /\ IsFiniteSet({i})
    BY FS_Singleton
  <2>2. Cardinality({i} \cup {j}) = 2
    <3> DEFINE S == {i}
    <3>1. j \notin S
      BY <1>5
    <3>2. IsFiniteSet(S) /\ Cardinality(S) = 1
      BY <2>1
    <3> HIDE DEF S
    <3>3. Cardinality(S \cup {j}) = Cardinality(S) + 1
      BY <3>1, <3>2, FS_AddElement
    <3>4. Cardinality(S \cup {j}) = 2
      BY <3>2, <3>3
    <3> QED BY <3>4 DEF S
  <2>3. {i} \cup {j} \subseteq odd
    OBVIOUS
  <2>4. Cardinality({i} \cup {j}) <= Cardinality(odd) /\ Cardinality(odd) \in Nat
    BY <1>3, <2>3, FS_Subset, FS_CardinalityType
  <2> QED BY <1>4, <2>2, <2>4
<1>6. SUFFICES ASSUME NEW e \in ToSet(directory), NEW f \in ToSet(directory), e # f, Compare(role, e, f) = Endless
              PROVE  FALSE
  BY DEF Comparable
<1>7. PICK i \in DOMAIN directory : e = directory[i]
  BY DEF ToSet
<1>8. PICK j \in DOMAIN directory : f = directory[j]
  BY DEF ToSet
<1>9. e \in FTSENT /\ f \in FTSENT
  BY <1>1, <1>7, <1>8
<1>10. BeyondBMP(e) /\ BeyondBMP(f)
  BY <1>6, <1>9, RolesEnd
<1> QED BY <1>5, <1>6, <1>7, <1>8, <1>10

\* qsort() returns whenever it is called for a directory in which at most one name has a digit beyond
\* the BMP: it never meets a comparison that goes round for ever.
THEOREM SortingEnds ==
    ListingSpec => [](phase = "sorting" /\ ComparesAll => ReadOrder[fts.role][directory] # Stuck)
<1>1. SortedInv /\ [ListingNext]_listingVars => SortedInv'
  BY NextListing
<1>2. SortedInv => (phase = "sorting" /\ ComparesAll => ReadOrder[fts.role][directory] # Stuck)
  <2> SUFFICES ASSUME SortedInv, phase = "sorting", ComparesAll PROVE ReadOrder[fts.role][directory] # Stuck
    OBVIOUS
  <2>1. directory \in Directories /\ fts \in Stream
    BY DEF SortedInv, StreamTypes
  <2>2. fts.role \in Roles \cup {"Default"}
    BY <2>1 DEF Stream
  <2> DEFINE role == fts.role
  <2> HIDE DEF role
  <2>3. role \in Roles \cup {"Default"}
    BY <2>2 DEF role
  <2>4. role = "Default" \/ Comparable(role, ToSet(directory))
    <3>1. role # "Default" => role \in {"FileName", "FileSize", "LastModified", "LastRead"}
      BY <2>3, RolesAssumption
    <3> QED BY <2>1, <3>1, OneIsComparable
  <2>5. ReadOrder[role][directory] # Stuck
    BY <2>1, <2>3, <2>4, ReadOrderMeans
  <2> QED BY <2>5 DEF role
<1> QED BY <1>1, <1>2, InitListing, PTL DEF ListingSpec
=============================================================================
