------------------------ MODULE SemanticSearcherProofs ------------------------
(***************************************************************************)
(* Proofs about SemanticSearcher, for every set of plans and lists, every  *)
(* limit and every number of searches, with sub-engines that fail or not.  *)
(*                                                                         *)
(* All but the types is up to the moment when a sub-engine is counted      *)
(* twice (miscounted): until then the counter is the number of sub-engines *)
(* whose end is still to come.                                             *)
(***************************************************************************)
EXTENDS SemanticSearcher, FiniteSetTheorems, SequenceTheorems, WellFoundedInduction, TLAPS

-----------------------------------------------------------------------------
(* The inductive invariant                                                 *)

Types ==
    /\ status \in Status /\ cancelled \in BOOLEAN /\ timeoutTimer \in BOOLEAN
    /\ launching \in BOOLEAN /\ searches \in Nat /\ ends \in Nat
    /\ toLaunch \in Seq(EngineType) /\ inbox \in Seq(Event)
    /\ DOMAIN engines \subseteq EngineId /\ IsFiniteSet(DOMAIN engines)
    /\ launched \subseteq EngineId /\ ended \subseteq launched

(* The sub-engines of this search whose end is still to come                 *)
Awaited == launched \ ended

Counted == IsFiniteSet(Awaited) /\ pendingFinishCount = Cardinality(Awaited)

Ending(event) == event.kind \in {"finished", "error"}

(* An end in the queue is awaited                                           *)
EndsAwaited == \A i \in DOMAIN inbox : Ending(inbox[i]) => inbox[i].engine \in Awaited

(* A sub-engine ends once, but a file name engine that fails                 *)
EndsOnce ==
    \A i, j \in DOMAIN inbox :
        (i < j /\ Ending(inbox[i]) /\ Ending(inbox[j]) /\ inbox[i].engine = inbox[j].engine)
            => inbox[i].kind = "error" /\ inbox[i].engine.type = "FileName"

(* A sub-engine at work has not ended; a file name engine that has failed    *)
(* has only said so                                                         *)
AtWork ==
    \A e \in DOMAIN engines : engines[e] \in {"running", "failed"} =>
        /\ e \in Awaited
        /\ engines[e] = "failed" => e.type = "FileName"
        /\ \A i \in DOMAIN inbox : (Ending(inbox[i]) /\ inbox[i].engine = e)
              => engines[e] = "failed" /\ inbox[i].kind = "error"

(* No type of sub-engine is launched twice                                  *)
Launches ==
    launching =>
        /\ status = "Searching" /\ ~cancelled /\ ~timeoutTimer /\ searches \in 1..MaxSearches
        /\ \A i, j \in DOMAIN toLaunch : toLaunch[i] = toLaunch[j] => i = j
        /\ \A e \in launched, i \in DOMAIN toLaunch : toLaunch[i] # e.type

Ends ==
    /\ Awaited # {} => status = "Searching"
    /\ timeoutTimer => status = "Searching" /\ ~cancelled
    /\ searches = 0 => status # "Searching"
    /\ ends = IF searches = 0 \/ status = "Searching" THEN 0 ELSE 1

Sound == Types /\ Counted /\ EndsAwaited /\ EndsOnce /\ AtWork /\ Launches /\ Ends

IInv == miscounted \in BOOLEAN /\ (~miscounted => Sound)

-----------------------------------------------------------------------------
(* Queues                                                                  *)

\* What is left of a queue that lost its first event.
LEMMA Rest ==
    ASSUME NEW S, NEW q \in Seq(S), q # <<>>
    PROVE  /\ Tail(q) \in Seq(S) /\ Head(q) \in S /\ 1 \in DOMAIN q /\ Head(q) = q[1]
           /\ \A i \in DOMAIN Tail(q) : i + 1 \in DOMAIN q /\ Tail(q)[i] = q[i + 1]
<1>1. Tail(q) \in Seq(S) /\ Len(Tail(q)) = Len(q) - 1 /\ \A i \in 1..Len(Tail(q)) : Tail(q)[i] = q[i + 1]
  BY HeadTailProperties
<1>2. Len(q) \in Nat /\ Len(q) # 0 /\ DOMAIN q = 1..Len(q) /\ DOMAIN Tail(q) = 1..Len(Tail(q))
  BY <1>1, EmptySeq, LenProperties
<1>3. Head(q) = q[1] /\ q[1] \in S
  BY <1>2, HeadTailProperties, ElementOfSeq
<1> QED BY <1>1, <1>2, <1>3

\* What a queue is that gained an event.
LEMMA Added ==
    ASSUME NEW S, NEW q \in Seq(S), NEW x \in S
    PROVE  /\ Append(q, x) \in Seq(S)
           /\ \A i \in DOMAIN Append(q, x) :
                 IF i = Len(q) + 1 THEN Append(q, x)[i] = x
                 ELSE i \in DOMAIN q /\ i < Len(q) + 1 /\ Append(q, x)[i] = q[i]
<1>1. /\ Append(q, x) \in Seq(S) /\ Len(Append(q, x)) = Len(q) + 1
      /\ \A i \in 1..Len(q) : Append(q, x)[i] = q[i]
      /\ Append(q, x)[Len(q) + 1] = x
  BY AppendProperties
<1>2. Len(q) \in Nat /\ DOMAIN q = 1..Len(q) /\ DOMAIN Append(q, x) = 1..(Len(q) + 1)
  BY <1>1, LenProperties
<1> QED BY <1>1, <1>2

\* A finite set can be put in a sequence.
LEMMA Listed ==
    ASSUME NEW S, IsFiniteSet(S)
    PROVE  SetToSeq(S) \in Seq(S)
<1>1. PICK f : f \in [1..Cardinality(S) -> S] /\ f \in Bijection(1..Cardinality(S), S)
  BY FS_CardinalityType DEF ExistsBijection, Bijection, Injection
<1>2. IsInjective(f)
  BY <1>1 DEF Bijection, Injection, IsInjective
<1>3. SetToSeq(S) \in [1..Cardinality(S) -> S]
  BY <1>1, <1>2 DEF SetToSeq
<1>4. Cardinality(S) \in Nat
  BY FS_CardinalityType
<1> QED BY <1>3, <1>4, SeqDef

-----------------------------------------------------------------------------
(* One sub-engine ends                                                     *)

\* What the end of an awaited sub-engine does to counter, timer and status.
LEMMA OneEnds ==
    ASSUME Sound, ~launching, NEW list, EngineEnded(list, pendingFinishCount),
           NEW e \in Awaited, ended' = ended \cup {e},
           UNCHANGED <<launched, launching, searches>>
    PROVE  /\ status' \in Status /\ timeoutTimer' \in BOOLEAN /\ ends' \in Nat
           /\ ended' \subseteq launched' /\ Awaited' = Awaited \ {e}
           /\ cancelled' = cancelled
           /\ Counted' /\ Launches' /\ Ends'
<1> DEFINE n == Cardinality(Awaited)
<1>1. IsFiniteSet(Awaited) /\ pendingFinishCount = n /\ n \in Nat /\ n # 0
  BY FS_CardinalityType, FS_EmptySet DEF Sound, Counted
<1>2. Awaited' = Awaited \ {e} /\ ended' \subseteq launched'
  BY DEF Awaited, Sound, Types
<1>3. IsFiniteSet(Awaited') /\ Cardinality(Awaited') = n - 1
  BY <1>1, <1>2, FS_RemoveElement
<1> HIDE DEF n
<1>4. /\ pendingFinishCount' = pendingFinishCount - 1
      /\ cancelled' = cancelled
      /\ pendingFinishCount = 1 =>
            /\ timeoutTimer' = FALSE /\ ends' = ends + 1
            /\ status' = IF cancelled THEN "Cancelled" ELSE "Finished"
      /\ pendingFinishCount # 1 => UNCHANGED <<timeoutTimer, status, ends>>
  BY DEF EngineEnded, Completed, End, EmitNothing
<1>5. Counted'
  BY <1>1, <1>3, <1>4 DEF Counted
<1>6. status = "Searching" /\ ends = 0 /\ searches # 0
  BY DEF Sound, Ends
<1>7. Launches'
  BY DEF Launches
<1>8. Types
  BY DEF Sound
<1>9. CASE pendingFinishCount = 1
  <2>1. Awaited' = {}
    BY <1>1, <1>3, <1>9, FS_EmptySet
  <2>2. timeoutTimer' = FALSE /\ ends' = 1 /\ status' \in {"Cancelled", "Finished"}
    BY <1>4, <1>6, <1>9
  <2> QED BY <2>1, <2>2, <1>2, <1>4, <1>5, <1>6, <1>7 DEF Ends, Status
<1>10. CASE pendingFinishCount # 1
  <2>1. timeoutTimer' = timeoutTimer /\ status' = status /\ ends' = ends
    BY <1>4, <1>10
  <2>2. Ends'
    BY <2>1, <1>4, <1>6 DEF Ends, Sound
  <2> QED BY <2>1, <2>2, <1>2, <1>4, <1>5, <1>7, <1>8 DEF Types
<1> QED BY <1>9, <1>10

\* What is left of the queue when the end of a sub-engine that ends once is delivered.
LEMMA EndDelivered ==
    ASSUME Sound, inbox # <<>>, inbox' = Tail(inbox), Ending(Head(inbox)),
           Head(inbox).kind = "error" => Head(inbox).engine.type # "FileName",
           Awaited' = Awaited \ {Head(inbox).engine}, UNCHANGED engines
    PROVE  EndsAwaited' /\ EndsOnce' /\ AtWork' /\ inbox' \in Seq(Event)
<1> DEFINE e == Head(inbox).engine
<1>1. /\ inbox' \in Seq(Event) /\ 1 \in DOMAIN inbox /\ Head(inbox) = inbox[1]
      /\ DOMAIN inbox' \subseteq Nat /\ DOMAIN inbox \subseteq Nat
      /\ \A i \in DOMAIN inbox' : i + 1 \in DOMAIN inbox /\ inbox'[i] = inbox[i + 1] /\ i + 1 > 1
  <2>1. inbox \in Seq(Event)
    BY DEF Sound, Types
  <2>2. /\ inbox' \in Seq(Event) /\ 1 \in DOMAIN inbox /\ Head(inbox) = inbox[1]
        /\ \A i \in DOMAIN inbox' : i + 1 \in DOMAIN inbox /\ inbox'[i] = inbox[i + 1]
    BY <2>1, Rest
  <2>3. DOMAIN inbox = 1..Len(inbox) /\ Len(inbox) \in Nat /\ DOMAIN inbox' = 1..Len(inbox')
        /\ Len(inbox') \in Nat
    BY <2>1, <2>2, LenProperties
  <2> QED BY <2>2, <2>3
<1>2. \A i \in DOMAIN inbox' : Ending(inbox'[i]) => inbox'[i].engine # e
  BY <1>1 DEF Sound, EndsOnce
<1>3. EndsAwaited'
  BY <1>1, <1>2 DEF Sound, EndsAwaited, Ending
<1>4. EndsOnce'
  <2> SUFFICES ASSUME NEW i \in DOMAIN inbox', NEW j \in DOMAIN inbox', i < j,
                      Ending(inbox'[i]), Ending(inbox'[j]), inbox'[i].engine = inbox'[j].engine
               PROVE  inbox'[i].kind = "error" /\ inbox'[i].engine.type = "FileName"
    BY DEF EndsOnce, Ending
  <2>1. i + 1 < j + 1
    BY <1>1
  <2> QED BY <1>1, <2>1 DEF Sound, EndsOnce
<1>5. AtWork'
  <2> SUFFICES ASSUME NEW f \in DOMAIN engines, engines[f] \in {"running", "failed"}
               PROVE  /\ f \in Awaited'
                      /\ engines[f] = "failed" => f.type = "FileName"
                      /\ \A i \in DOMAIN inbox' : (Ending(inbox'[i]) /\ inbox'[i].engine = f)
                            => engines[f] = "failed" /\ inbox'[i].kind = "error"
    BY DEF AtWork, Ending
  <2>1. /\ f \in Awaited
        /\ engines[f] = "failed" => f.type = "FileName"
        /\ \A i \in DOMAIN inbox : (Ending(inbox[i]) /\ inbox[i].engine = f)
                            => engines[f] = "failed" /\ inbox[i].kind = "error"
    BY DEF Sound, AtWork
  <2>2. f # e
    BY <2>1, <1>1
  <2> QED BY <2>1, <2>2, <1>1
<1> QED BY <1>1, <1>3, <1>4, <1>5

-----------------------------------------------------------------------------
(* Every step keeps the invariant                                          *)

soundVars == <<status, cancelled, timeoutTimer, pendingFinishCount, toLaunch, launching, engines,
               inbox, searches, launched, ended, ends>>

LEMMA SoundUntouched == Sound /\ UNCHANGED soundVars => Sound'
BY DEF soundVars, Sound, Types, Awaited, Counted, Ending, EndsAwaited, EndsOnce, AtWork, Launches, Ends

LEMMA InitSound == Init => IInv
<1> SUFFICES ASSUME Init PROVE Sound /\ miscounted \in BOOLEAN
  BY DEF IInv
<1>1. DOMAIN engines = {} /\ Awaited = {} /\ DOMAIN inbox = {}
  BY DEF Init, Awaited
<1>2. Types
  <2>1. DOMAIN engines \subseteq EngineId /\ IsFiniteSet(DOMAIN engines)
    BY <1>1, FS_EmptySet
  <2>2. toLaunch \in Seq(EngineType) /\ inbox \in Seq(Event)
    BY DEF Init
  <2> QED BY <2>1, <2>2 DEF Init, Types, Status
<1>3. Counted
  BY <1>1, FS_EmptySet DEF Init, Counted
<1>4. EndsAwaited /\ EndsOnce /\ AtWork
  BY <1>1 DEF EndsAwaited, EndsOnce, AtWork
<1>5. Launches /\ Ends
  BY <1>1 DEF Init, Launches, Ends
<1> QED BY <1>2, <1>3, <1>4, <1>5 DEF Sound, Init

\* A new search: nothing of an earlier one is awaited.
LEMMA SearchBegins ==
    ASSUME Sound, status # "Searching", NEW plan \in Plans, BeginSearch(plan)
    PROVE  Sound'
<1> DEFINE alive == {f \in DOMAIN engines : engines[f] # "deleting"}
           delete(f) == [kind |-> "delete", engine |-> f, list |-> <<>>]
           deletes == {delete(f) : f \in alive}
<1>1. Awaited = {} /\ Awaited' = {}
  BY DEF Sound, Ends, Awaited, BeginSearch
<1>2. IsFiniteSet(deletes) /\ deletes \subseteq Event
  <2>1. IsFiniteSet(alive) /\ alive \subseteq EngineId
    BY FS_Subset DEF Sound, Types
  <2>2. [f \in alive |-> delete(f)] \in Surjection(alive, deletes)
    BY DEF Surjection
  <2>3. IsFiniteSet(deletes)
    BY <2>1, <2>2, FS_Surjection
  <2> QED BY <2>1, <2>3 DEF Event
<1> DEFINE posted == SetToSeq(deletes)
<1>3. posted \in Seq(deletes) /\ inbox' = inbox \o posted
  BY <1>2, Listed DEF BeginSearch
<1>4. /\ inbox \in Seq(Event) /\ posted \in Seq(Event)
      /\ \A i \in DOMAIN posted : posted[i].kind = "delete"
  <2>1. \A d \in deletes : d.kind = "delete"
    OBVIOUS
  <2> HIDE DEF deletes
  <2>2. inbox \in Seq(Event)
    BY DEF Sound, Types
  <2>3. posted \in Seq(Event) /\ \A i \in DOMAIN posted : posted[i] \in deletes
    BY <1>2, <1>3
  <2> QED BY <2>1, <2>2, <2>3
<1> HIDE DEF posted
<1>5. inbox' \in Seq(Event) /\ \A i \in DOMAIN inbox' : ~Ending(inbox'[i])
  <2>1. /\ inbox' \in Seq(Event) /\ Len(inbox') = Len(inbox) + Len(posted)
        /\ \A i \in 1..(Len(inbox) + Len(posted)) :
              (inbox \o posted)[i] = IF i <= Len(inbox) THEN inbox[i] ELSE posted[i - Len(inbox)]
    BY <1>3, <1>4, ConcatProperties, Zenon
  <2>2. Len(inbox) \in Nat /\ Len(posted) \in Nat /\ DOMAIN inbox = 1..Len(inbox)
        /\ DOMAIN posted = 1..Len(posted) /\ DOMAIN inbox' = 1..Len(inbox')
    BY <1>4, <2>1, LenProperties
  <2> SUFFICES ASSUME NEW i \in DOMAIN inbox' PROVE ~Ending(inbox'[i])
    BY <2>1
  <2>3. inbox'[i] = IF i <= Len(inbox) THEN inbox[i] ELSE posted[i - Len(inbox)]
    BY <1>3, <2>1, <2>2
  <2>4. CASE i <= Len(inbox)
    <3>1. i \in DOMAIN inbox
      BY <2>1, <2>2, <2>4
    <3> QED BY <3>1, <2>3, <2>4, <1>1 DEF Sound, EndsAwaited
  <2>5. CASE i > Len(inbox)
    <3>1. i - Len(inbox) \in DOMAIN posted
      BY <2>1, <2>2, <2>5
    <3>2. inbox'[i] = posted[i - Len(inbox)]
      BY <2>1, <2>2, <2>3, <2>5
    <3> QED BY <3>1, <3>2, <1>4 DEF Ending
  <2> QED BY <2>1, <2>2, <2>4, <2>5
<1>6. /\ DOMAIN engines' = DOMAIN engines /\ \A e \in DOMAIN engines' : engines'[e] = "deleting"
      /\ status' = "Searching" /\ cancelled' = FALSE /\ timeoutTimer' = timeoutTimer
      /\ pendingFinishCount' = 0 /\ toLaunch' = plan /\ launching' = TRUE
      /\ searches' = searches + 1 /\ searches < MaxSearches
      /\ launched' = {} /\ ended' = {} /\ ends' = 0
  BY DEF BeginSearch
<1>7. plan \in Seq(EngineType) /\ \A i, j \in DOMAIN plan : plan[i] = plan[j] => i = j
  BY PlansAssumption DEF IsInjective
<1>8. Types'
  <2>1. /\ DOMAIN engines' \subseteq EngineId /\ IsFiniteSet(DOMAIN engines')
        /\ searches \in Nat /\ timeoutTimer \in BOOLEAN
    BY <1>6 DEF Sound, Types
  <2>2. cancelled' \in BOOLEAN /\ launching' \in BOOLEAN /\ timeoutTimer' \in BOOLEAN
    BY <2>1, <1>6, Zenon
  <2>3. status' \in Status /\ launched' \subseteq EngineId /\ ended' \subseteq launched'
    BY <1>6 DEF Status
  <2>4. searches' \in Nat /\ ends' \in Nat
    BY <2>1, <1>6
  <2> QED BY <2>1, <2>2, <2>3, <2>4, <1>5, <1>6, <1>7 DEF Types
<1>9. Counted'
  BY <1>1, <1>6, FS_EmptySet DEF Counted
<1>10. EndsAwaited' /\ EndsOnce' /\ AtWork'
  BY <1>5, <1>6 DEF EndsAwaited, EndsOnce, AtWork, Ending
<1>11. ~timeoutTimer /\ searches \in Nat /\ MaxSearches \in Nat
  BY BoundsAssumption DEF Sound, Ends, Types
<1>12. Launches'
  BY <1>6, <1>7, <1>11 DEF Launches
<1>13. Ends'
  BY <1>1, <1>6, <1>11 DEF Ends
<1> QED BY <1>8, <1>9, <1>10, <1>12, <1>13 DEF Sound

\* A sub-engine is launched, of a type that was not.
LEMMA OneLaunched ==
    ASSUME Sound, LaunchEngine
    PROVE  Sound'
<1> DEFINE e == NextEngine
<1>1. /\ launching /\ toLaunch # <<>> /\ toLaunch \in Seq(EngineType) /\ Types
      /\ pendingFinishCount' = pendingFinishCount + 1
      /\ DOMAIN engines' = DOMAIN engines \cup {e}
      /\ \A f \in DOMAIN engines' : engines'[f] = IF f = e THEN "running" ELSE engines[f]
      /\ launched' = launched \cup {e} /\ toLaunch' = Tail(toLaunch)
      /\ UNCHANGED <<status, cancelled, timeoutTimer, launching, inbox, searches, ended, ends>>
  BY DEF LaunchEngine, EnginesWith, EmitNothing, Sound, Types
<1>2. /\ toLaunch' \in Seq(EngineType) /\ Head(toLaunch) = toLaunch[1] /\ 1 \in DOMAIN toLaunch
      /\ toLaunch[1] \in EngineType
      /\ \A i \in DOMAIN toLaunch' : i + 1 \in DOMAIN toLaunch /\ toLaunch'[i] = toLaunch[i + 1]
  BY <1>1, Rest
<1>3. DOMAIN toLaunch' \subseteq Nat \ {0}
  <2>1. DOMAIN toLaunch' = 1..Len(toLaunch') /\ Len(toLaunch') \in Nat
    BY <1>2, LenProperties
  <2> QED BY <2>1
<1>4. /\ status = "Searching" /\ ~cancelled /\ ~timeoutTimer /\ searches \in 1..MaxSearches
      /\ \A i, j \in DOMAIN toLaunch : toLaunch[i] = toLaunch[j] => i = j
      /\ \A f \in launched, i \in DOMAIN toLaunch : toLaunch[i] # f.type
  BY <1>1 DEF Sound, Launches
<1>5. e \in EngineId /\ e.type = toLaunch[1]
  BY <1>2, <1>4 DEF NextEngine, EngineId
<1> HIDE DEF e
<1>6. e \notin launched
  BY <1>2, <1>4, <1>5
<1>8. Types'
  <2>1. IsFiniteSet(DOMAIN engines') /\ DOMAIN engines' \subseteq EngineId
    BY <1>1, <1>5, FS_AddElement DEF Types
  <2> QED BY <2>1, <1>1, <1>2, <1>5 DEF Types
<1>9. Awaited' = Awaited \cup {e} /\ e \notin Awaited
  BY <1>1, <1>6 DEF Awaited, Types
<1>10. Counted'
  BY <1>1, <1>9, FS_AddElement DEF Sound, Counted
<1>11. EndsAwaited' /\ EndsOnce'
  BY <1>1, <1>9 DEF Sound, EndsAwaited, EndsOnce, Ending
<1>12. AtWork'
  <2> SUFFICES ASSUME NEW f \in DOMAIN engines', engines'[f] \in {"running", "failed"}
               PROVE  /\ f \in Awaited'
                      /\ engines'[f] = "failed" => f.type = "FileName"
                      /\ \A i \in DOMAIN inbox : (Ending(inbox[i]) /\ inbox[i].engine = f)
                            => engines'[f] = "failed" /\ inbox[i].kind = "error"
    BY <1>1 DEF AtWork, Ending
  <2>1. CASE f # e
    BY <2>1, <1>1, <1>9 DEF Sound, AtWork
  <2>2. CASE f = e
    <3>1. engines'[f] = "running"
      BY <2>2, <1>1
    <3>2. \A i \in DOMAIN inbox : Ending(inbox[i]) => inbox[i].engine # e
      BY <1>9 DEF Sound, EndsAwaited
    <3> QED BY <3>1, <3>2, <2>2, <1>9
  <2> QED BY <2>1, <2>2
<1>13. Launches'
  <2>1. \A i, j \in DOMAIN toLaunch' : toLaunch'[i] = toLaunch'[j] => i = j
    BY <1>2, <1>3, <1>4
  <2>2. \A f \in launched', i \in DOMAIN toLaunch' : toLaunch'[i] # f.type
    BY <1>1, <1>2, <1>3, <1>4, <1>5
  <2> QED BY <2>1, <2>2, <1>1, <1>4 DEF Launches
<1>14. Ends'
  BY <1>1, <1>4 DEF Sound, Ends
<1> QED BY <1>8, <1>10, <1>11, <1>12, <1>13, <1>14 DEF Sound

\* The launch is over.
LEMMA LaunchEnds ==
    ASSUME Sound, LaunchDone
    PROVE  Sound'
<1>1. /\ launching /\ launching' = FALSE
      /\ UNCHANGED <<cancelled, pendingFinishCount, toLaunch, engines, inbox, searches, launched, ended>>
      /\ pendingFinishCount = 0 => timeoutTimer' = FALSE /\ status' = "Finished" /\ ends' = ends + 1
      /\ pendingFinishCount # 0 => /\ timeoutTimer' = (TimeoutEnabled \/ timeoutTimer)
                                   /\ status' = status /\ ends' = ends
  BY DEF LaunchDone, historyVars
<1>2. /\ status = "Searching" /\ ~cancelled /\ ~timeoutTimer /\ searches \in 1..MaxSearches
      /\ ends = 0 /\ searches # 0
  BY <1>1 DEF Sound, Launches, Ends
<1>3. Awaited' = Awaited
  BY <1>1 DEF Awaited
<1>4. Counted' /\ EndsAwaited' /\ EndsOnce' /\ AtWork' /\ Launches'
  BY <1>1, <1>3 DEF Sound, Counted, EndsAwaited, EndsOnce, AtWork, Ending, Launches
<1>5. Types
  BY DEF Sound
<1>6. CASE pendingFinishCount = 0
  <2>1. timeoutTimer' = FALSE /\ status' = "Finished" /\ ends' = 1
    BY <1>1, <1>2, <1>6
  <2>2. Awaited = {}
    BY <1>6, FS_EmptySet DEF Sound, Counted
  <2>3. Ends'
    BY <2>1, <2>2, <1>1, <1>2, <1>3 DEF Ends
  <2>4. Types'
    BY <2>1, <1>1, <1>5 DEF Types, Status
  <2> QED BY <2>3, <2>4, <1>4 DEF Sound
<1>7. CASE pendingFinishCount # 0
  <2>1. timeoutTimer' \in BOOLEAN /\ status' = status /\ ends' = ends
    BY <1>1, <1>7
  <2>2. Ends'
    BY <2>1, <1>1, <1>2, <1>3 DEF Ends
  <2>3. Types'
    BY <2>1, <1>1, <1>5 DEF Types
  <2> QED BY <2>2, <2>3, <1>4 DEF Sound
<1> QED BY <1>6, <1>7

\* The end of a sub-engine is delivered.
LEMMA EndsDelivered ==
    ASSUME Sound, miscounted' = FALSE, OnEngineFinished \/ OnEngineError
    PROVE  Sound'
<1> DEFINE e == Head(inbox).engine
<1>1. /\ inbox # <<>> /\ inbox' = Tail(inbox) /\ ~launching
      /\ UNCHANGED <<toLaunch, launching, engines, searches, launched>>
  BY DEF OnEngineFinished, OnEngineError, Receive, MainThreadFree
<1>2. Ending(Head(inbox)) /\ e \in Awaited
  <2>1. inbox \in Seq(Event) /\ Head(inbox).kind \in {"finished", "error"}
    BY DEF Sound, Types, OnEngineFinished, OnEngineError, Receive
  <2>2. Head(inbox) = inbox[1] /\ 1 \in DOMAIN inbox
    BY <2>1, <1>1, Rest
  <2> QED BY <2>1, <2>2 DEF Sound, EndsAwaited, Ending
<1>3. e \in launched
  BY <1>2 DEF Awaited
<1>4. /\ ended' = ended \cup {e}
      /\ \E list : EngineEnded(list, pendingFinishCount)
      /\ Head(inbox).kind = "error" => e.type # "FileName"
  <2>1. CASE OnEngineFinished
    BY <2>1, <1>3 DEF OnEngineFinished, Receive
  <2>2. CASE OnEngineError
    <3>1. e.type # "FileName"
      BY <2>2 DEF OnEngineError
    <3> QED BY <2>2, <3>1, <1>3 DEF OnEngineError
  <2> QED BY <2>1, <2>2
<1>5. PICK list : EngineEnded(list, pendingFinishCount)
  BY <1>4
<1>6. /\ status' \in Status /\ timeoutTimer' \in BOOLEAN /\ ends' \in Nat
      /\ ended' \subseteq launched' /\ Awaited' = Awaited \ {e} /\ cancelled' = cancelled
      /\ Counted' /\ Launches' /\ Ends'
  BY <1>1, <1>2, <1>4, <1>5, OneEnds
<1>7. EndsAwaited' /\ EndsOnce' /\ AtWork' /\ inbox' \in Seq(Event)
  BY <1>1, <1>2, <1>4, <1>6, EndDelivered
<1>8. Types'
  BY <1>1, <1>6, <1>7 DEF Sound, Types
<1> QED BY <1>6, <1>7, <1>8 DEF Sound

\* A sub-engine of an earlier search is deleted.
LEMMA Deleted ==
    ASSUME Sound, DeleteEngine
    PROVE  Sound'
<1>1. /\ inbox # <<>> /\ inbox' = Tail(inbox)
      /\ DOMAIN engines' \subseteq DOMAIN engines
      /\ \A f \in DOMAIN engines' : engines'[f] = engines[f]
      /\ UNCHANGED <<status, cancelled, timeoutTimer, pendingFinishCount, toLaunch, launching,
                     searches, launched, ended, ends>>
  BY DEF DeleteEngine, Receive, EmitNothing, searchVars, historyVars
<1>2. inbox \in Seq(Event) /\ Types
  BY DEF Sound, Types
<1>3. /\ inbox' \in Seq(Event) /\ DOMAIN inbox' \subseteq Nat
      /\ \A i \in DOMAIN inbox' : i + 1 \in DOMAIN inbox /\ inbox'[i] = inbox[i + 1]
  <2>1. /\ inbox' \in Seq(Event)
        /\ \A i \in DOMAIN inbox' : i + 1 \in DOMAIN inbox /\ inbox'[i] = inbox[i + 1]
    BY <1>1, <1>2, Rest
  <2>2. DOMAIN inbox' = 1..Len(inbox') /\ Len(inbox') \in Nat
    BY <2>1, LenProperties
  <2> QED BY <2>1, <2>2
<1>4. Awaited' = Awaited
  BY <1>1 DEF Awaited
<1>5. EndsAwaited'
  BY <1>3, <1>4 DEF Sound, EndsAwaited, Ending
<1>6. EndsOnce'
  <2> SUFFICES ASSUME NEW i \in DOMAIN inbox', NEW j \in DOMAIN inbox', i < j,
                      Ending(inbox'[i]), Ending(inbox'[j]), inbox'[i].engine = inbox'[j].engine
               PROVE  inbox'[i].kind = "error" /\ inbox'[i].engine.type = "FileName"
    BY DEF EndsOnce, Ending
  <2>1. i + 1 < j + 1
    BY <1>3
  <2> QED BY <1>3, <2>1 DEF Sound, EndsOnce
<1>7. AtWork'
  BY <1>1, <1>3, <1>4 DEF Sound, AtWork, Ending
<1>8. Types'
  <2>1. IsFiniteSet(DOMAIN engines') /\ DOMAIN engines' \subseteq EngineId
    BY <1>1, <1>2, FS_Subset DEF Types
  <2> QED BY <2>1, <1>1, <1>2, <1>3 DEF Types
<1>9. Counted' /\ Launches' /\ Ends'
  BY <1>1, <1>4 DEF Sound, Counted, Launches, Ends
<1> QED BY <1>5, <1>6, <1>7, <1>8, <1>9 DEF Sound

\* The search is cancelled, or its time is up.
LEMMA Cancelled ==
    ASSUME Sound, Cancel \/ Timeout
    PROVE  Sound'
<1>1. /\ cancelled' = TRUE /\ timeoutTimer' = FALSE /\ ~launching
      /\ UNCHANGED <<status, pendingFinishCount, toLaunch, launching, engines, inbox, searches,
                     launched, ended, ends>>
  BY DEF Cancel, Timeout, DoCancel, MainThreadFree, EmitNothing, historyVars
<1>2. Awaited' = Awaited
  BY <1>1 DEF Awaited
<1>3. Types' /\ Counted' /\ Launches' /\ Ends'
  BY <1>1, <1>2 DEF Sound, Types, Counted, Launches, Ends
<1>4. EndsAwaited' /\ EndsOnce' /\ AtWork'
  BY <1>1, <1>2 DEF Sound, EndsAwaited, EndsOnce, AtWork, Ending
<1> QED BY <1>3, <1>4 DEF Sound

\* A sub-engine at work posts its end, or a file name engine its failure.
LEMMA EndPosted ==
    ASSUME Sound, NEW e \in DOMAIN engines, EngineThread(e)
    PROVE  Sound'
<1>1. /\ engines[e] \in {"running", "failed"}
      /\ \A f \in DOMAIN engines : f # e => engines'[f] = engines[f]
      /\ DOMAIN engines' = DOMAIN engines
      /\ UNCHANGED <<status, cancelled, timeoutTimer, pendingFinishCount, toLaunch, launching,
                     searches, launched, ended, ends>>
  BY DEF EngineThread, EngineFinishes, EngineFails, EngineStep, searchVars, historyVars
<1>2. e \in EngineId /\ inbox \in Seq(Event) /\ Types
  BY DEF Sound, Types
<1>3. PICK event \in Event :
         /\ inbox' = Append(inbox, event) /\ event.engine = e /\ Ending(event)
         /\ engines'[e] = "failed" => event.kind = "error" /\ e.type = "FileName"
         /\ engines'[e] # "running"
  <2>1. CASE EngineFinishes(e)
    <3>1. PICK list \in Lists : inbox' = Append(inbox, [kind |-> "finished", engine |-> e, list |-> list])
      BY <2>1 DEF EngineFinishes
    <3>2. engines'[e] = "idle"
      BY <2>1 DEF EngineFinishes
    <3> QED BY <3>1, <3>2, <1>2 DEF Event, Ending
  <2>2. CASE EngineFails(e)
    <3>1. inbox' = Append(inbox, [kind |-> "error", engine |-> e, list |-> <<>>])
      BY <2>2 DEF EngineFails
    <3>2. engines'[e] = IF e.type = "FileName" THEN "failed" ELSE "idle"
      BY <2>2 DEF EngineFails
    <3> QED BY <3>1, <3>2, <1>2 DEF Event, Ending
  <2> QED BY <2>1, <2>2 DEF EngineThread
<1> DEFINE last == Len(inbox) + 1
<1>4. /\ inbox' \in Seq(Event)
      /\ \A i \in DOMAIN inbox' : IF i = last THEN inbox'[i] = event
                                 ELSE i \in DOMAIN inbox /\ i < last /\ inbox'[i] = inbox[i]
      /\ last \in Nat /\ DOMAIN inbox' \subseteq Nat
  <2>1. /\ inbox' \in Seq(Event)
        /\ \A i \in DOMAIN inbox' : IF i = last THEN inbox'[i] = event
                                   ELSE i \in DOMAIN inbox /\ i < last /\ inbox'[i] = inbox[i]
    BY <1>2, <1>3, Added
  <2>2. DOMAIN inbox' = 1..Len(inbox') /\ Len(inbox') \in Nat /\ Len(inbox) \in Nat
    BY <1>2, <2>1, LenProperties
  <2> QED BY <2>1, <2>2
<1> HIDE DEF last
<1>5. Awaited' = Awaited /\ e \in Awaited
  BY <1>1 DEF Awaited, Sound, AtWork
<1>6. \A i \in DOMAIN inbox : (Ending(inbox[i]) /\ inbox[i].engine = e)
         => inbox[i].kind = "error" /\ e.type = "FileName"
  BY <1>1 DEF Sound, AtWork
<1>7. EndsAwaited'
  BY <1>3, <1>4, <1>5 DEF Sound, EndsAwaited, Ending
<1>8. EndsOnce'
  <2> SUFFICES ASSUME NEW i \in DOMAIN inbox', NEW j \in DOMAIN inbox', i < j,
                      Ending(inbox'[i]), Ending(inbox'[j]), inbox'[i].engine = inbox'[j].engine
               PROVE  inbox'[i].kind = "error" /\ inbox'[i].engine.type = "FileName"
    BY DEF EndsOnce, Ending
  <2>1. i # last
    BY <1>4
  <2>2. i \in DOMAIN inbox /\ inbox'[i] = inbox[i]
    BY <2>1, <1>4
  <2>3. CASE j = last
    BY <2>2, <2>3, <1>3, <1>4, <1>6
  <2>4. CASE j # last
    BY <2>2, <2>4, <1>4 DEF Sound, EndsOnce
  <2> QED BY <2>3, <2>4
<1>9. AtWork'
  <2> SUFFICES ASSUME NEW f \in DOMAIN engines, engines'[f] \in {"running", "failed"}
               PROVE  /\ f \in Awaited
                      /\ engines'[f] = "failed" => f.type = "FileName"
                      /\ \A i \in DOMAIN inbox' : (Ending(inbox'[i]) /\ inbox'[i].engine = f)
                            => engines'[f] = "failed" /\ inbox'[i].kind = "error"
    BY <1>1, <1>5 DEF AtWork, Ending
  <2>1. CASE f = e
    <3>1. engines'[e] = "failed" /\ event.kind = "error" /\ e.type = "FileName"
      BY <2>1, <1>3
    <3> QED BY <2>1, <3>1, <1>4, <1>5, <1>6
  <2>2. CASE f # e
    <3>1. engines'[f] = engines[f]
      BY <2>2, <1>1
    <3>2. \A i \in DOMAIN inbox' : inbox'[i].engine = f => i \in DOMAIN inbox /\ inbox'[i] = inbox[i]
      BY <2>2, <1>3, <1>4
    <3> QED BY <3>1, <3>2 DEF Sound, AtWork
  <2> QED BY <2>1, <2>2
<1>10. Types'
  BY <1>1, <1>2, <1>4 DEF Types
<1>11. Counted' /\ Launches' /\ Ends'
  BY <1>1, <1>5 DEF Sound, Counted, Launches, Ends
<1> QED BY <1>7, <1>8, <1>9, <1>10, <1>11 DEF Sound

LEMMA NextSound == IInv /\ [Next]_vars => IInv'
<1> SUFFICES ASSUME IInv, [Next]_vars PROVE IInv'
  OBVIOUS
<1>1. miscounted' \in BOOLEAN /\ (miscounted' = FALSE => miscounted = FALSE)
  <2>1. CASE UNCHANGED vars
    BY <2>1 DEF vars, historyVars, IInv
  <2>2. CASE OnEngineError
    BY <2>2 DEF OnEngineError, IInv
  <2>3. CASE LaunchRejected
    BY <2>3 DEF LaunchRejected
  <2>4. CASE \E e \in DOMAIN engines : EngineThread(e)
    BY <2>4 DEF EngineThread, EngineFinishes, EngineFails, EngineStep, historyVars, IInv
  <2>5. CASE Client
    BY <2>5 DEF Client, Search, SearchSync, BeginSearch, SearchNonSemantic, Cancel, DoCancel,
                historyVars, IInv
  <2>6. CASE LaunchEngine \/ LaunchDone
    BY <2>6 DEF LaunchEngine, LaunchDone, historyVars, IInv
  <2>7. CASE OnEngineFinished \/ DeleteEngine \/ Timeout \/ SyncReturn
    BY <2>7 DEF OnEngineFinished, DeleteEngine, Timeout, DoCancel, SyncReturn,
                historyVars, IInv
  <2> QED BY <2>1, <2>2, <2>3, <2>4, <2>5, <2>6, <2>7 DEF Next, Launch, Deliver
<1> SUFFICES ASSUME miscounted' = FALSE PROVE Sound'
  BY <1>1 DEF IInv
<1>2. Sound
  BY <1>1 DEF IInv
<1>3. CASE UNCHANGED vars
  BY <1>2, <1>3, SoundUntouched DEF vars, searchVars, historyVars, soundVars
<1>4. CASE Client
  <2>1. ASSUME NEW plan \in Plans, Search(plan) \/ SearchSync(plan) PROVE Sound'
    BY <2>1, <1>2, SearchBegins DEF Search, SearchSync
  <2>2. CASE SearchNonSemantic
    BY <2>2, <1>2, SoundUntouched DEF SearchNonSemantic, searchVars, historyVars, soundVars
  <2>3. CASE Cancel
    BY <2>3, <1>2, Cancelled
  <2> QED BY <1>4, <2>1, <2>2, <2>3 DEF Client
<1>5. CASE Launch
  <2>1. ~LaunchRejected
    BY DEF LaunchRejected
  <2> QED BY <1>2, <1>5, <2>1, OneLaunched, LaunchEnds DEF Launch
<1>6. CASE Deliver
  BY <1>2, <1>6, EndsDelivered, Deleted DEF Deliver
<1>7. CASE Timeout
  BY <1>2, <1>7, Cancelled
<1>8. CASE SyncReturn
  BY <1>2, <1>8, SoundUntouched DEF SyncReturn, searchVars, historyVars, soundVars
<1>9. ASSUME NEW e \in DOMAIN engines, EngineThread(e) PROVE Sound'
  BY <1>2, <1>9, EndPosted
<1> QED BY <1>3, <1>4, <1>5, <1>6, <1>7, <1>8, <1>9 DEF Next

LEMMA InvariantHolds == Spec => []IInv
BY InitSound, NextSound, PTL DEF Spec

-----------------------------------------------------------------------------
(* The merged list                                                         *)

\* Every set of numbers has a least one.
LEMMA LeastNumber ==
    ASSUME NEW S, S \in SUBSET Nat, S # {} PROVE \E i \in S : \A j \in S : i <= j
<1> DEFINE R == OpToRel(<, Nat)
<1>1. \A i, j \in Nat : i < j => <<i, j>> \in R
  BY DEF OpToRel
<1>2. IsWellFoundedOn(R, Nat)
  BY NatLessThanWellFounded
<1> HIDE DEF R
<1>3. PICK i \in S : \A j \in S : <<j, i>> \notin R
  BY <1>2, WFMin
<1>4. \A j \in S : ~(j < i)
  BY <1>1, <1>3
<1> QED BY <1>4

\* Induction, for a set of numbers.
LEMMA AllNumbers ==
    ASSUME NEW n \in Nat, NEW G, 0 \in G, \A k \in 1..n : k - 1 \in G => k \in G
    PROVE  \A k \in 0..n : k \in G
<1> DEFINE bad == {k \in 0..n : k \notin G}
<1> SUFFICES ASSUME bad # {} PROVE FALSE
  OBVIOUS
<1>1. PICK k \in bad : \A j \in bad : k <= j
  <2>1. bad \in SUBSET Nat
    OBVIOUS
  <2> HIDE DEF bad
  <2> QED BY <2>1, LeastNumber
<1>2. k \in 1..n /\ k - 1 \in 0..n /\ ~(k <= k - 1)
  BY <1>1
<1>3. k - 1 \notin bad
  BY <1>1, <1>2
<1> QED BY <1>1, <1>2, <1>3

\* What onEngineFinished does with one path of a list.
Merged(acc, p) == IF p \in seenPaths \cup excludePatterns \cup Range(acc) THEN acc ELSE Append(acc, p)

\* One step of the fold that is Merge, for the indices in s of a list.
Folded(g, list, s) == IF s = {} THEN allResults ELSE Merged(g[s \ {Max(s)}], list[Max(s)])

IsFold(g, list, k) == g = [s \in SUBSET (1..k) |-> Folded(g, list, s)]

LEMMA HighestIndex == ASSUME NEW k \in Nat, NEW s \in SUBSET (1..k), k \in s PROVE Max(s) = k
<1>1. \A y \in s : y \in Nat /\ k >= y
  OBVIOUS
<1>2. \A x \in s : (\A y \in s : x >= y) => x = k
  BY <1>1
<1> QED BY <1>1, <1>2 DEF Max

LEMMA FoldExists ==
    ASSUME NEW list, NEW n \in Nat
    PROVE  \E g : IsFold(g, list, n)
<1> DEFINE G == {k \in 0..n : \E g : IsFold(g, list, k)}
<1>1. 0 \in G
  <2> DEFINE g == [s \in SUBSET (1..0) |-> allResults]
  <2>1. \A s \in SUBSET (1..0) : Folded(g, list, s) = allResults
    BY DEF Folded
  <2>2. IsFold(g, list, 0)
    BY <2>1 DEF IsFold
  <2> QED BY <2>2
<1>2. ASSUME NEW k \in 1..n, k - 1 \in G PROVE k \in G
  <2>1. PICK g : IsFold(g, list, k - 1)
    BY <1>2
  <2> DEFINE below == SUBSET (1..(k - 1))
             h == [s \in SUBSET (1..k) |-> IF k \in s THEN Merged(g[s \ {k}], list[k]) ELSE g[s]]
  <2>2. \A s \in below : s \in SUBSET (1..k) /\ k \notin s /\ h[s] = g[s]
    OBVIOUS
  <2>3. \A s \in below : g[s] = Folded(g, list, s)
    BY <2>1 DEF IsFold
  <2>4. ASSUME NEW s \in SUBSET (1..k), k \in s PROVE h[s] = Folded(h, list, s)
    <3>1. Max(s) = k /\ s # {} /\ s \ {k} \in below
      BY <2>4, HighestIndex
    <3>2. h[s] = Merged(g[s \ {k}], list[k]) /\ h[s \ {k}] = g[s \ {k}]
      BY <2>2, <2>4, <3>1
    <3> HIDE DEF h
    <3> QED BY <3>1, <3>2 DEF Folded
  <2>5. ASSUME NEW s \in SUBSET (1..k), k \notin s PROVE h[s] = Folded(h, list, s)
    <3>1. s \in below /\ s \ {Max(s)} \in below
      <4>1. \A i \in s : i \in 1..(k - 1)
        BY <2>5
      <4> QED BY <4>1
    <3>2. h[s] = Folded(g, list, s) /\ h[s \ {Max(s)}] = g[s \ {Max(s)}]
      BY <2>2, <2>3, <3>1
    <3> HIDE DEF h
    <3> QED BY <3>2 DEF Folded
  <2>6. h = [s \in SUBSET (1..k) |-> h[s]]
    OBVIOUS
  <2> HIDE DEF h
  <2>7. \A s \in SUBSET (1..k) : h[s] = Folded(h, list, s)
    BY <2>4, <2>5
  <2>8. IsFold(h, list, k)
    BY <2>6, <2>7 DEF IsFold
  <2> QED BY <2>8
<1> HIDE DEF G
<1>3. n \in G
  BY <1>1, <1>2, AllNumbers
<1> QED BY <1>3 DEF G

\* Merge takes the paths of a list one by one.
LEMMA MergeSteps ==
    ASSUME NEW U, NEW list \in Seq(U)
    PROVE  \E acc : /\ acc[0] = allResults /\ acc[Len(list)] = Merge(list)
                    /\ \A k \in 1..Len(list) : acc[k] = Merged(acc[k - 1], list[k])
<1> DEFINE n == Len(list)
           body(g) == [s \in SUBSET (1..n) |-> Folded(g, list, s)]
           iter == CHOOSE g : g = body(g)
           acc == [k \in 0..n |-> iter[1..k]]
<1>1. n \in Nat /\ DOMAIN list = 1..n
  OBVIOUS
<1>2. iter = body(iter)
  <2>1. \E g : g = body(g)
    BY <1>1, FoldExists DEF IsFold
  <2> QED BY <2>1
<1>3. Merge(list) = iter[1..n]
  BY <1>1 DEF Merge, FoldLeft, MapThenFoldSet, Folded, Merged
<1> HIDE DEF iter
<1>4. \A k \in 0..n : iter[1..k] = Folded(iter, list, 1..k)
  <2>1. \A k \in 0..n : 1..k \in SUBSET (1..n)
    BY <1>1
  <2> QED BY <1>2, <2>1
<1>5. acc[0] = allResults /\ acc[n] = Merge(list)
  <2>1. 1..0 = {} /\ 0 \in 0..n /\ n \in 0..n
    BY <1>1
  <2>2. iter[1..0] = allResults
    BY <1>4, <2>1 DEF Folded
  <2> QED BY <1>3, <2>1, <2>2
<1>6. ASSUME NEW k \in 1..n PROVE acc[k] = Merged(acc[k - 1], list[k])
  <2>1. k \in Nat /\ k \in 0..n /\ k - 1 \in 0..n /\ 1..k # {} /\ (1..k) \ {k} = 1..(k - 1)
    BY <1>1
  <2>2. Max(1..k) = k
    BY <2>1, HighestIndex
  <2>3. iter[1..k] = Merged(iter[1..(k - 1)], list[k])
    BY <1>4, <2>1, <2>2 DEF Folded
  <2> QED BY <2>1, <2>3
<1> HIDE DEF acc
<1> QED BY <1>5, <1>6

\* What merging one path does to a list without duplicates.
LEMMA MergedOne ==
    ASSUME NEW U, NEW acc \in Seq(U), NEW p \in U, IsInjective(acc)
    PROVE  /\ Merged(acc, p) \in Seq(U) /\ IsInjective(Merged(acc, p))
           /\ Range(Merged(acc, p)) = Range(acc) \cup ({p} \ (seenPaths \cup excludePatterns))
<1> DEFINE new == Append(acc, p)
<1>1. CASE p \in seenPaths \cup excludePatterns \cup Range(acc)
  BY <1>1 DEF Merged
<1>2. CASE p \notin seenPaths \cup excludePatterns \cup Range(acc)
  <2>1. /\ new \in Seq(U) /\ Len(acc) \in Nat /\ DOMAIN acc = 1..Len(acc)
        /\ DOMAIN new = 1..(Len(acc) + 1)
        /\ new[Len(acc) + 1] = p /\ \A i \in DOMAIN acc : new[i] = acc[i]
    OBVIOUS
  <2>2. \A i \in DOMAIN acc : acc[i] # p
    BY <1>2 DEF Range
  <2> HIDE DEF new
  <2>3. \A i, j \in DOMAIN new : new[i] = new[j] => i = j
    <3> SUFFICES ASSUME NEW i \in DOMAIN new, NEW j \in DOMAIN new, new[i] = new[j] PROVE i = j
      OBVIOUS
    <3>1. (i \in DOMAIN acc \/ i = Len(acc) + 1) /\ (j \in DOMAIN acc \/ j = Len(acc) + 1)
      BY <2>1
    <3>2. \A k, l \in DOMAIN acc : acc[k] = acc[l] => k = l
      BY DEF IsInjective
    <3> QED BY <2>1, <2>2, <3>1, <3>2
  <2>4. Range(new) = Range(acc) \cup {p}
    <3>1. \A i \in DOMAIN new : i \in DOMAIN acc \/ i = Len(acc) + 1
      BY <2>1
    <3>2. DOMAIN acc \subseteq DOMAIN new /\ Len(acc) + 1 \in DOMAIN new
      BY <2>1
    <3> QED BY <2>1, <3>1, <3>2 DEF Range
  <2>5. Merged(acc, p) = new
    BY <1>2 DEF Merged, new
  <2>6. IsInjective(new)
    BY <2>3 DEF IsInjective
  <2> QED BY <1>2, <2>1, <2>4, <2>5, <2>6
<1> QED BY <1>1, <1>2

\* The first k paths of a list.
Firsts(list, k) == {list[i] : i \in 1..k}

\* Merge adds what the list has and is not excluded, and no path twice.
LEMMA MergeMeans ==
    ASSUME NEW U, NEW list \in Seq(U), allResults \in Seq(U), IsInjective(allResults),
           seenPaths = Range(allResults)
    PROVE  /\ Merge(list) \in Seq(U) /\ IsInjective(Merge(list))
           /\ Range(Merge(list)) = Range(allResults) \cup (Range(list) \ excludePatterns)
<1> DEFINE n == Len(list)
           Upto(k) == Range(allResults) \cup (Firsts(list, k) \ excludePatterns)
<1>1. n \in Nat /\ DOMAIN list = 1..n
  OBVIOUS
<1>2. PICK acc : /\ acc[0] = allResults /\ acc[n] = Merge(list)
                 /\ \A k \in 1..n : acc[k] = Merged(acc[k - 1], list[k])
  BY MergeSteps
<1> DEFINE G == {k \in 0..n : acc[k] \in Seq(U) /\ IsInjective(acc[k]) /\ Range(acc[k]) = Upto(k)}
<1>3. 0 \in G
  <2>1. Firsts(list, 0) = {} /\ 0 \in 0..n
    BY <1>1 DEF Firsts
  <2> QED BY <1>2, <2>1
<1>4. ASSUME NEW k \in 1..n, k - 1 \in G PROVE k \in G
  <2> DEFINE p == list[k]
             before == acc[k - 1]
  <2>1. before \in Seq(U) /\ p \in U /\ IsInjective(before) /\ Range(before) = Upto(k - 1)
    BY <1>1, <1>4
  <2>2. acc[k] = Merged(before, p)
    BY <1>2
  <2>3. Firsts(list, k) = Firsts(list, k - 1) \cup {p}
    <3>1. 1..k = 1..(k - 1) \cup {k}
      BY <1>1
    <3> QED BY <3>1 DEF Firsts
  <2> HIDE DEF p, before
  <2>4. /\ Merged(before, p) \in Seq(U) /\ IsInjective(Merged(before, p))
        /\ Range(Merged(before, p)) = Range(before) \cup ({p} \ (seenPaths \cup excludePatterns))
    <3> HIDE DEF n, Upto, G
    <3>1. \A x \in Seq(U), q \in U : IsInjective(x) =>
        /\ Merged(x, q) \in Seq(U) /\ IsInjective(Merged(x, q))
        /\ Range(Merged(x, q)) = Range(x) \cup ({q} \ (seenPaths \cup excludePatterns))
      BY MergedOne
    <3>2. before \in Seq(U) /\ p \in U /\ IsInjective(before)
      BY <2>1
    <3> QED BY <3>1, <3>2
  <2>5. Range(Merged(before, p)) = Upto(k)
    BY <2>1, <2>3, <2>4
  <2>6. k \in 0..n
    BY <1>1
  <2> QED BY <2>2, <2>4, <2>5, <2>6
<1>5. n \in G
  <2>1. \A k \in 1..n : k - 1 \in G => k \in G
    BY <1>4
  <2>2. n \in Nat /\ n \in 0..n
    BY <1>1
  <2> HIDE DEF n, G
  <2> QED BY <1>3, <2>1, <2>2, AllNumbers
<1>6. Firsts(list, n) = Range(list)
  BY <1>1 DEF Firsts, Range
<1> QED BY <1>2, <1>5, <1>6 DEF G

\* A list without duplicates is as long as its paths are many.
LEMMA InjectiveLength ==
    ASSUME NEW U, NEW s \in Seq(U), IsInjective(s)
    PROVE  IsFiniteSet(Range(s)) /\ Cardinality(Range(s)) = Len(s)
<1>1. Len(s) \in Nat /\ DOMAIN s = 1..Len(s)
  OBVIOUS
<1>2. s \in Bijection(1..Len(s), Range(s))
  BY <1>1 DEF Bijection, Injection, Surjection, IsInjective, Range
<1>3. ExistsBijection(1..Len(s), Range(s))
  BY <1>2 DEF ExistsBijection
<1>4. IsFiniteSet(1..Len(s))
  BY <1>1, FS_Interval
<1> QED BY <1>1, <1>3, <1>4, FS_CountingElements, FS_Bijection

\* maxResults leaves all of a list that is not too long, and else the first of it.
LEMMA TruncateMeans ==
    ASSUME NEW U, NEW s \in Seq(U), IsInjective(s)
    PROVE  /\ IsInjective(Truncate(s)) /\ Range(Truncate(s)) \subseteq Range(s)
           /\ Len(Truncate(s)) = IF MaxResults > 0 /\ Cardinality(Range(s)) > MaxResults
                                 THEN MaxResults ELSE Cardinality(Range(s))
<1>1. Len(s) \in Nat /\ DOMAIN s = 1..Len(s) /\ MaxResults \in Nat /\ Cardinality(Range(s)) = Len(s)
  BY InjectiveLength, MaxResultsAssumption
<1>2. CASE MaxResults > 0 /\ Len(s) > MaxResults
  <2> DEFINE t == SubSeq(s, 1, MaxResults)
  <2>1. /\ Len(t) = MaxResults /\ DOMAIN t = 1..MaxResults
        /\ \A i \in DOMAIN t : i \in DOMAIN s /\ t[i] = s[i]
    BY <1>1, <1>2
  <2>2. Truncate(s) = t
    BY <1>2 DEF Truncate
  <2> HIDE DEF t
  <2>3. IsInjective(t)
    BY <2>1 DEF IsInjective
  <2>4. Range(t) \subseteq Range(s)
    BY <2>1 DEF Range
  <2> QED BY <1>1, <1>2, <2>1, <2>2, <2>3, <2>4
<1>3. CASE ~(MaxResults > 0 /\ Len(s) > MaxResults)
  <2>1. Truncate(s) = s
    BY <1>3 DEF Truncate
  <2> QED BY <1>1, <1>3, <2>1
<1> QED BY <1>2, <1>3

-----------------------------------------------------------------------------
(* What the search has found                                               *)

\* Until the search ends seenPaths, and allResults without order, are what its
\* sub-engines' delivered lists hold.
FoundInv ==
    ~miscounted =>
        /\ status = "Searching" => /\ allResults \in Seq(Paths) /\ IsInjective(allResults)
                                   /\ seenPaths = Range(allResults) /\ found = Range(allResults)
        /\ launching => found = {}
        /\ ~launching => toLaunch = <<>>

LEMMA InitFound == Init => FoundInv /\ CountedIsComplete
<1> SUFFICES ASSUME Init PROVE FoundInv /\ CountedIsComplete
  OBVIOUS
<1>1. status = "Ready" /\ ~launching /\ toLaunch = <<>> /\ output = <<>>
  BY DEF Init
<1> QED BY <1>1 DEF FoundInv, CountedIsComplete, FinishedIsComplete

\* Nothing is finished when no searchFinished is emitted.
LEMMA SaysNothing ==
    ASSUME output' = <<>> \/ (Len(output') = 1 /\ output'[1].name # "searchFinished")
    PROVE  CountedIsComplete'
<1>1. \A i \in 1..Len(output') : output'[i].name # "searchFinished"
  OBVIOUS
<1> QED BY <1>1 DEF CountedIsComplete, FinishedIsComplete

\* A search begins with nothing found.
LEMMA FoundBegins == ASSUME NEW plan, BeginSearch(plan) PROVE FoundInv' /\ CountedIsComplete'
<1>1. /\ allResults' = <<>> /\ seenPaths' = {} /\ found' = {} /\ launching' = TRUE /\ output' = <<>>
  BY DEF BeginSearch
<1>2. /\ <<>> \in Seq(Paths) /\ Range(<<>>) = {} /\ IsInjective(<<>>)
  BY DEF Range, IsInjective
<1>3. FoundInv'
  BY <1>1, <1>2 DEF FoundInv
<1> QED BY <1>1, <1>3, SaysNothing

\* Steps that do not touch the lists.
foundVars == <<status, allResults, seenPaths, launching, toLaunch, found>>

LEMMA FoundUntouched ==
    ASSUME FoundInv, UNCHANGED foundVars, miscounted' \in BOOLEAN,
           miscounted' = FALSE => miscounted = FALSE
    PROVE  FoundInv'
BY DEF FoundInv, foundVars

\* A delivered list joins the merged one; with the last, the search has all.
LEMMA FoundDelivered ==
    ASSUME Sound, FoundInv, miscounted = FALSE, miscounted' = FALSE, OnEngineFinished \/ OnEngineError
    PROVE  FoundInv' /\ CountedIsComplete'
<1> DEFINE e == Head(inbox).engine
           list == IF OnEngineFinished THEN Head(inbox).list ELSE <<>>
           merged == Merge(list)
<1>1. /\ inbox # <<>> /\ inbox \in Seq(Event) /\ ~launching /\ Head(inbox) \in Event
      /\ UNCHANGED <<toLaunch, launching, launched>>
      /\ Head(inbox).kind \in {"finished", "error"} /\ e \in Awaited
  <2>1. /\ inbox # <<>> /\ ~launching /\ inbox \in Seq(Event)
        /\ UNCHANGED <<toLaunch, launching, launched>>
        /\ Head(inbox).kind \in {"finished", "error"}
    BY DEF Sound, Types, OnEngineFinished, OnEngineError, Receive, MainThreadFree
  <2>2. Head(inbox) \in Event /\ Head(inbox) = inbox[1] /\ 1 \in DOMAIN inbox
    BY <2>1, Rest
  <2> QED BY <2>1, <2>2 DEF Sound, EndsAwaited, Ending
<1>2. e \in launched /\ status = "Searching" /\ toLaunch = <<>>
  BY <1>1 DEF Awaited, Sound, Ends, FoundInv
<1>3. /\ EngineEnded(list, pendingFinishCount) /\ ended' = ended \cup {e}
      /\ found' = found \cup (Range(list) \ excludePatterns)
  <2>1. CASE OnEngineFinished
    BY <2>1, <1>2 DEF OnEngineFinished
  <2>2. CASE ~OnEngineFinished
    <3>1. e.type # "FileName" /\ found' = found /\ EngineEnded(<<>>, pendingFinishCount)
      BY <2>2 DEF OnEngineError
    <3>2. Range(<<>>) = {}
      BY DEF Range
    <3> QED BY <2>2, <3>1, <3>2, <1>2 DEF OnEngineError
  <2> QED BY <2>1, <2>2
<1>4. list \in Seq(Paths)
  <2>1. Head(inbox).list \in Lists \cup {<<>>}
    BY <1>1 DEF Event
  <2>2. \A l \in Lists : l \in Seq(Paths)
    <3> SUFFICES ASSUME NEW l \in Lists PROVE l \in Seq(Paths)
      OBVIOUS
    <3>1. l \in Seq(Range(l)) /\ Range(l) \subseteq Paths
      BY ListsAssumption DEF Paths
    <3> QED BY <3>1
  <2>3. list \in Lists \cup {<<>>}
    BY <2>1
  <2>4. <<>> \in Seq(Paths)
    OBVIOUS
  <2> HIDE DEF list
  <2> QED BY <2>2, <2>3, <2>4
<1> HIDE DEF list
<1>5. /\ allResults \in Seq(Paths) /\ IsInjective(allResults)
      /\ seenPaths = Range(allResults) /\ found = Range(allResults)
  BY <1>2 DEF FoundInv
<1>6. merged \in Seq(Paths) /\ IsInjective(merged)
      /\ Range(merged) = Range(allResults) \cup (Range(list) \ excludePatterns)
  BY <1>4, <1>5, MergeMeans
<1>7. /\ seenPaths' = seenPaths \cup (Range(list) \ excludePatterns)
      /\ pendingFinishCount = 1 =>
            /\ allResults' = Truncate(merged)
            /\ status' \in {"Cancelled", "Finished"}
            /\ output' = IF cancelled THEN <<[name |-> "searchCancelled", list |-> <<>>]>>
                         ELSE <<[name |-> "searchFinished", list |-> Truncate(merged)]>>
      /\ pendingFinishCount # 1 => allResults' = merged /\ status' = status /\ output' = <<>>
  BY <1>3 DEF EngineEnded, Completed, End, EmitTerminal, EmitNothing
<1> HIDE DEF merged
<1>8. found' = Range(merged) /\ seenPaths' = Range(merged)
  BY <1>3, <1>5, <1>6, <1>7
<1>9. CASE pendingFinishCount # 1
  <2>1. FoundInv'
    BY <1>1, <1>2, <1>6, <1>7, <1>8, <1>9 DEF FoundInv
  <2> QED BY <2>1, <1>7, <1>9, SaysNothing
<1>10. CASE pendingFinishCount = 1
  <2>1. FoundInv'
    BY <1>1, <1>2, <1>7, <1>10 DEF FoundInv
  <2>2. CASE cancelled
    <3>1. output' = <<[name |-> "searchCancelled", list |-> <<>>]>>
      BY <1>7, <1>10, <2>2
    <3>2. Len(output') = 1 /\ output'[1].name # "searchFinished"
      BY <3>1
    <3> QED BY <2>1, <3>2, SaysNothing
  <2>3. CASE ~cancelled
    <3> DEFINE given == Truncate(merged)
    <3>1. output' = <<[name |-> "searchFinished", list |-> given]>>
      BY <1>7, <1>10, <2>3
    <3>2. /\ IsInjective(given) /\ Range(given) \subseteq found'
          /\ Len(given) = IF MaxResults > 0 /\ Cardinality(found') > MaxResults
                          THEN MaxResults ELSE Cardinality(found')
      BY <1>6, <1>8, TruncateMeans
    <3>3. toLaunch' = <<>> /\ launched' = ended'
      <4>1. Awaited' = Awaited \ {e} /\ ended' \subseteq launched'
        BY <1>1, <1>2, <1>3 DEF Awaited, Sound, Types
      <4>2. IsFiniteSet(Awaited) /\ Cardinality(Awaited) = 1
        BY <1>10 DEF Sound, Counted
      <4>3. IsFiniteSet(Awaited \ {e}) /\ Cardinality(Awaited \ {e}) = 0
        BY <1>1, <4>2, FS_RemoveElement
      <4>4. Awaited' = {}
        BY <4>1, <4>3, FS_EmptySet
      <4> QED BY <1>1, <1>2, <4>1, <4>4 DEF Awaited
    <3> HIDE DEF given
    <3>4. Len(output') = 1 /\ output'[1].list = given
      BY <3>1
    <3>5. FinishedIsComplete'
      BY <3>2, <3>3, <3>4 DEF FinishedIsComplete
    <3> QED BY <2>1, <3>5 DEF CountedIsComplete
  <2> QED BY <2>2, <2>3
<1> QED BY <1>9, <1>10

\* Nothing was launched, or the sub-engines are awaited.
LEMMA FoundLaunched ==
    ASSUME Sound, FoundInv, miscounted = FALSE, LaunchDone
    PROVE  FoundInv' /\ CountedIsComplete'
<1>1. /\ launching /\ toLaunch = <<>> /\ toLaunch' = <<>> /\ found = {}
      /\ UNCHANGED <<allResults, seenPaths, found, launched, ended, miscounted>>
      /\ status' = "Searching" => status = "Searching"
  BY DEF LaunchDone, FoundInv, historyVars
<1>2. FoundInv'
  BY <1>1 DEF FoundInv
<1>3. CASE pendingFinishCount = 0
  <2>1. output' = <<[name |-> "searchFinished", list |-> <<>>]>>
    BY <1>3 DEF LaunchDone
  <2>2. Awaited = {} /\ ended \subseteq launched
    BY <1>3, FS_EmptySet DEF Sound, Counted, Types
  <2>3. /\ Range(<<>>) = {} /\ IsInjective(<<>>) /\ Len(<<>>) = 0 /\ Cardinality({}) = 0
        /\ MaxResults \in Nat
    BY FS_EmptySet, MaxResultsAssumption DEF Range, IsInjective
  <2>4. Len(output') = 1 /\ output'[1].list = <<>>
    BY <2>1
  <2> DEFINE given == <<>>
  <2>5. /\ Range(given) \subseteq found' /\ IsInjective(given)
        /\ Len(given) = IF MaxResults > 0 /\ Cardinality(found') > MaxResults
                        THEN MaxResults ELSE Cardinality(found')
    BY <1>1, <2>3
  <2>6. toLaunch' = <<>> /\ launched' = ended'
    BY <1>1, <2>2 DEF Awaited
  <2>7. output'[1].list = given
    BY <2>4
  <2> HIDE DEF given
  <2>8. FinishedIsComplete'
    BY <2>4, <2>5, <2>6, <2>7 DEF FinishedIsComplete
  <2> QED BY <1>2, <2>8 DEF CountedIsComplete
<1>4. CASE pendingFinishCount # 0
  <2>1. output' = <<>>
    BY <1>4 DEF LaunchDone
  <2> QED BY <1>2, <2>1, SaysNothing
<1> QED BY <1>3, <1>4

LEMMA NextFound ==
    ASSUME IInv, IInv', FoundInv, CountedIsComplete, [Next]_vars
    PROVE  FoundInv' /\ CountedIsComplete'
<1>1. miscounted \in BOOLEAN /\ miscounted' \in BOOLEAN
  BY DEF IInv
<1>2. CASE miscounted' = TRUE
  BY <1>2 DEF FoundInv, CountedIsComplete
<1> SUFFICES ASSUME miscounted' = FALSE PROVE FoundInv' /\ CountedIsComplete'
  BY <1>1, <1>2
<1>3. CASE UNCHANGED vars
  BY <1>3 DEF vars, searchVars, historyVars, FoundInv, CountedIsComplete, FinishedIsComplete
<1>4. ASSUME NEW plan \in Plans, Search(plan) \/ SearchSync(plan) PROVE FoundInv' /\ CountedIsComplete'
  BY <1>4, FoundBegins DEF Search, SearchSync
<1>5. CASE SearchNonSemantic
  <2>1. /\ output' = <<[name |-> "errorOccurred", list |-> <<>>]>>
        /\ UNCHANGED foundVars /\ miscounted' = miscounted
    BY <1>5 DEF SearchNonSemantic, EmitTerminal, foundVars, searchVars, historyVars
  <2>2. Len(output') = 1 /\ output'[1].name # "searchFinished"
    BY <2>1
  <2> QED BY <2>1, <2>2, <1>1, FoundUntouched, SaysNothing
<1>6. CASE Cancel \/ Timeout \/ SyncReturn \/ DeleteEngine \/ \E e \in DOMAIN engines : EngineThread(e)
  <2>1. output' = <<>> /\ UNCHANGED foundVars /\ miscounted' = miscounted
    BY <1>6 DEF Cancel, Timeout, DoCancel, SyncReturn, DeleteEngine, EngineThread, EngineFinishes,
                EngineFails, EngineStep, EmitNothing, foundVars, searchVars, historyVars
  <2> QED BY <2>1, <1>1, FoundUntouched, SaysNothing
<1>7. CASE Launch
  <2>1. ~LaunchRejected
    BY DEF LaunchRejected
  <2>2. CASE LaunchEngine
    <3>1. /\ output' = <<>> /\ launching /\ launching' = launching /\ miscounted' = miscounted
          /\ UNCHANGED <<status, allResults, seenPaths, found>>
      BY <2>2 DEF LaunchEngine, EmitNothing
    <3>2. FoundInv'
      BY <3>1, <1>1 DEF FoundInv
    <3> QED BY <3>1, <3>2, SaysNothing
  <2>3. CASE LaunchDone
    <3>1. miscounted = FALSE
      BY <2>3, <1>1 DEF LaunchDone, historyVars
    <3> QED BY <2>3, <3>1, FoundLaunched DEF IInv
  <2> QED BY <1>7, <2>1, <2>2, <2>3 DEF Launch
<1>8. CASE OnEngineFinished \/ OnEngineError
  <2>1. miscounted = FALSE
    BY <1>8, <1>1 DEF OnEngineFinished, OnEngineError
  <2> QED BY <2>1, <1>8, FoundDelivered DEF IInv
<1> QED BY <1>3, <1>4, <1>5, <1>6, <1>7, <1>8 DEF Next, Client, Deliver

-----------------------------------------------------------------------------
(* The types, also when a sub-engine is counted twice                      *)

SyncRecord ==
    [state : {"idle", "calling", "waiting", "quit"}, done : BOOLEAN,
     outcome : {"none", "searchFinished", "searchCancelled", "errorOccurred"}]

EngineState == {"running", "failed", "idle", "deleting"}

\* What is about one search, about its sub-engines, and about its caller.
SearchTypes ==
    /\ status \in Status /\ cancelled \in BOOLEAN /\ timeoutTimer \in BOOLEAN
    /\ allResults \in Seq(Paths) /\ seenPaths \subseteq Paths /\ pendingFinishCount \in Int
EngineTypes ==
    /\ toLaunch \in Seq(EngineType) /\ launching \in BOOLEAN
    /\ launching => searches \in 1..MaxSearches
    /\ DOMAIN engines \subseteq EngineId /\ IsFiniteSet(DOMAIN engines)
    /\ \A e \in DOMAIN engines : engines[e] \in EngineState
    /\ inbox \in Seq(Event)
CallerTypes ==
    /\ sync \in SyncRecord /\ staleGuards \in BOOLEAN /\ deadFrameRead \in BOOLEAN /\ ends \in Nat
HistoryTypes ==
    /\ searches \in 0..MaxSearches /\ miscounted \in BOOLEAN /\ found \subseteq Paths
    /\ launched \subseteq EngineId /\ ended \subseteq launched

TInv == SearchTypes /\ EngineTypes /\ CallerTypes /\ HistoryTypes

LEMMA TypesAreTypeOK == TInv => TypeOK
<1> SUFFICES ASSUME TInv PROVE TypeOK
  OBVIOUS
<1>1. Range(inbox) \subseteq Event
  BY DEF TInv, EngineTypes, Range
<1>2. Range(engines) \subseteq {"running", "failed", "idle", "deleting"}
  BY DEF TInv, EngineTypes, EngineState, Range
<1> QED BY <1>1, <1>2 DEF TInv, SearchTypes, EngineTypes, CallerTypes, HistoryTypes, SyncRecord, TypeOK

LEMMA InitTyped == Init => TInv
<1> SUFFICES ASSUME Init PROVE TInv
  OBVIOUS
<1>1. DOMAIN engines = {} /\ <<>> \in Seq(Paths) /\ <<>> \in Seq(EngineType) /\ <<>> \in Seq(Event)
  BY DEF Init
<1>2. SearchTypes
  <2>1. status \in Status /\ seenPaths \subseteq Paths /\ pendingFinishCount \in Int
    BY DEF Init, Status
  <2>2. cancelled \in BOOLEAN /\ timeoutTimer \in BOOLEAN
    BY DEF Init
  <2>3. allResults \in Seq(Paths)
    BY <1>1 DEF Init
  <2> QED BY <2>1, <2>2, <2>3 DEF SearchTypes
<1>3. EngineTypes
  BY <1>1, FS_EmptySet DEF Init, EngineTypes
<1>4. CallerTypes
  BY DEF Init, CallerTypes, SyncRecord, NoSync
<1>5. HistoryTypes
  <2>1. searches \in 0..MaxSearches
    BY BoundsAssumption DEF Init
  <2>2. miscounted \in BOOLEAN
    BY DEF Init
  <2>3. found \subseteq Paths /\ launched \subseteq EngineId /\ ended \subseteq launched
    BY DEF Init
  <2> QED BY <2>1, <2>2, <2>3 DEF HistoryTypes
<1> QED BY <1>2, <1>3, <1>4, <1>5 DEF TInv

\* Merge and Truncate make lists of paths.
LEMMA MergeTypes ==
    ASSUME allResults \in Seq(Paths), NEW list \in Seq(Paths)
    PROVE  Merge(list) \in Seq(Paths) /\ Truncate(Merge(list)) \in Seq(Paths)
<1> DEFINE n == Len(list)
<1>1. n \in Nat /\ \A k \in 1..n : list[k] \in Paths
  OBVIOUS
<1>2. PICK acc : /\ acc[0] = allResults /\ acc[n] = Merge(list)
                 /\ \A k \in 1..n : acc[k] = Merged(acc[k - 1], list[k])
  BY MergeSteps
<1> DEFINE G == {k \in 0..n : acc[k] \in Seq(Paths)}
<1>3. 0 \in G
  BY <1>1, <1>2
<1>4. ASSUME NEW k \in 1..n, k - 1 \in G PROVE k \in G
  <2>1. \A q \in Seq(Paths), p \in Paths : Merged(q, p) \in Seq(Paths)
    BY DEF Merged
  <2>2. acc[k - 1] \in Seq(Paths) /\ acc[k] = Merged(acc[k - 1], list[k]) /\ k \in 0..n
    BY <1>1, <1>2, <1>4
  <2> QED BY <1>1, <2>1, <2>2
<1>5. n \in G
  <2>1. \A k \in 1..n : k - 1 \in G => k \in G
    BY <1>4
  <2>2. n \in Nat /\ n \in 0..n
    BY <1>1
  <2> HIDE DEF n, G
  <2> QED BY <1>3, <2>1, <2>2, AllNumbers
<1>6. Merge(list) \in Seq(Paths)
  BY <1>2, <1>5
<1>7. \A s \in Seq(Paths) : Truncate(s) \in Seq(Paths)
  BY MaxResultsAssumption DEF Truncate
<1> QED BY <1>6, <1>7

\* The lists that sub-engines come back with are lists of paths.
LEMMA ListTypes == \A list \in Lists \cup {<<>>} : list \in Seq(Paths) /\ Range(list) \subseteq Paths
<1>1. ASSUME NEW list \in Lists PROVE list \in Seq(Paths) /\ Range(list) \subseteq Paths
  <2>1. list \in Seq(Range(list)) /\ Range(list) \subseteq Paths
    BY <1>1, ListsAssumption DEF Paths
  <2> QED BY <2>1
<1>2. <<>> \in Seq(Paths) /\ Range(<<>>) = {}
  BY DEF Range
<1> QED BY <1>1, <1>2

Terminal == {"searchFinished", "searchCancelled", "errorOccurred"}

LEMMA EmitTypes ==
    ASSUME CallerTypes, NEW name \in Terminal, NEW list, EmitTerminal(name, list), ends' \in Nat
    PROVE  CallerTypes'
<1>1. sync' \in SyncRecord
  BY DEF CallerTypes, SyncRecord, EmitTerminal, Terminal
<1>2. staleGuards' \in BOOLEAN /\ deadFrameRead' \in BOOLEAN
  <2>1. staleGuards \in BOOLEAN /\ deadFrameRead \in BOOLEAN
    BY DEF CallerTypes
  <2>2. staleGuards' = staleGuards /\ deadFrameRead' = (deadFrameRead \/ staleGuards)
    BY DEF EmitTerminal
  <2> QED BY <2>1, <2>2
<1> QED BY <1>1, <1>2 DEF CallerTypes

\* A sub-engine is counted, as ended.
LEMMA EndTypes ==
    ASSUME TInv, NEW list \in Lists \cup {<<>>}, NEW count \in Int, EngineEnded(list, count)
    PROVE  SearchTypes' /\ CallerTypes'
<1> DEFINE merged == Merge(list)
<1>1. /\ SearchTypes /\ CallerTypes /\ merged \in Seq(Paths) /\ Truncate(merged) \in Seq(Paths)
      /\ Range(list) \subseteq Paths
  BY ListTypes, MergeTypes DEF TInv, SearchTypes
<1>2. /\ seenPaths' = seenPaths \cup (Range(list) \ excludePatterns) /\ cancelled' = cancelled
      /\ pendingFinishCount' = count - 1
  BY DEF EngineEnded
<1>3. seenPaths' \subseteq Paths /\ cancelled' \in BOOLEAN /\ pendingFinishCount' \in Int
  BY <1>1, <1>2 DEF SearchTypes
<1>4. CASE count = 1
  <2>1. timeoutTimer' = FALSE /\ allResults' = Truncate(merged) /\ Completed(allResults')
    BY <1>4 DEF EngineEnded
  <2>2. PICK name \in Terminal : \E l : EmitTerminal(name, l) /\ ends' = ends + 1 /\ status' \in Status
    BY <2>1 DEF Completed, End, Terminal, Status
  <2>3. ends' \in Nat
    BY <1>1, <2>2 DEF CallerTypes
  <2> HIDE DEF merged
  <2>4. SearchTypes'
    BY <1>1, <1>3, <2>1, <2>2 DEF SearchTypes
  <2> QED BY <1>1, <2>2, <2>3, <2>4, EmitTypes
<1>5. CASE count # 1
  <2>1. /\ allResults' = merged
        /\ UNCHANGED <<timeoutTimer, status, ends, sync, staleGuards, deadFrameRead>>
    BY <1>5 DEF EngineEnded, EmitNothing, syncVars
  <2> HIDE DEF merged
  <2>2. SearchTypes'
    BY <1>1, <1>3, <2>1 DEF SearchTypes
  <2> QED BY <1>1, <2>1, <2>2 DEF CallerTypes
<1> QED BY <1>4, <1>5

\* A new search.
LEMMA BeginTypes ==
    ASSUME TInv, NEW plan \in Plans, BeginSearch(plan)
    PROVE  SearchTypes' /\ EngineTypes' /\ HistoryTypes'
           /\ UNCHANGED <<staleGuards, deadFrameRead>> /\ ends' = 0
<1> DEFINE alive == {f \in DOMAIN engines : engines[f] # "deleting"}
           delete(f) == [kind |-> "delete", engine |-> f, list |-> <<>>]
           deletes == {delete(f) : f \in alive}
<1>1. SetToSeq(deletes) \in Seq(Event)
  <2>1. IsFiniteSet(alive) /\ alive \subseteq EngineId
    BY FS_Subset DEF TInv, EngineTypes
  <2>2. [f \in alive |-> delete(f)] \in Surjection(alive, deletes)
    BY DEF Surjection
  <2>3. IsFiniteSet(deletes) /\ deletes \subseteq Event
    BY <2>1, <2>2, FS_Surjection DEF Event
  <2> HIDE DEF deletes
  <2>4. SetToSeq(deletes) \in Seq(deletes)
    BY <2>3, Listed
  <2> QED BY <2>3, <2>4
<1> DEFINE posted == SetToSeq(deletes)
<1>2. inbox' = inbox \o posted
  BY DEF BeginSearch
<1> HIDE DEF posted
<1>3. inbox' \in Seq(Event)
  BY <1>1, <1>2, ConcatProperties DEF TInv, EngineTypes, posted
<1>4. /\ DOMAIN engines' = DOMAIN engines /\ \A e \in DOMAIN engines' : engines'[e] = "deleting"
      /\ searches < MaxSearches /\ searches' = searches + 1
      /\ toLaunch' = plan /\ launching' = TRUE
      /\ status' = "Searching" /\ cancelled' = FALSE /\ timeoutTimer' = timeoutTimer
      /\ allResults' = <<>> /\ seenPaths' = {} /\ pendingFinishCount' = 0
      /\ launched' = {} /\ ended' = {} /\ found' = {} /\ ends' = 0
      /\ UNCHANGED <<staleGuards, deadFrameRead, miscounted>>
  BY DEF BeginSearch
<1>5. searches' \in 1..MaxSearches
  BY <1>4, BoundsAssumption DEF TInv, HistoryTypes
<1>6. plan \in Seq(EngineType) /\ <<>> \in Seq(Paths)
  BY PlansAssumption
<1>7. SearchTypes'
  <2>1. status' \in Status /\ seenPaths' \subseteq Paths /\ pendingFinishCount' \in Int
    BY <1>4 DEF Status
  <2>2. cancelled' \in BOOLEAN /\ timeoutTimer' \in BOOLEAN
    BY <1>4 DEF TInv, SearchTypes
  <2>3. allResults' \in Seq(Paths)
    BY <1>4, <1>6
  <2> QED BY <2>1, <2>2, <2>3 DEF SearchTypes
<1>8. EngineTypes'
  BY <1>3, <1>4, <1>5, <1>6 DEF TInv, EngineTypes, EngineState
<1>9. HistoryTypes'
  BY <1>4, <1>5 DEF TInv, HistoryTypes
<1> QED BY <1>4, <1>7, <1>8, <1>9

\* The next sub-engine is launched.
LEMMA LaunchTypes ==
    ASSUME TInv, launching, toLaunch # <<>>, NEW state \in EngineState,
           engines' = EnginesWith(state), toLaunch' = Tail(toLaunch),
           UNCHANGED <<launching, inbox, searches>>
    PROVE  EngineTypes' /\ NextEngine \in EngineId
<1> DEFINE e == NextEngine
<1>1. toLaunch \in Seq(EngineType) /\ toLaunch' \in Seq(EngineType) /\ Head(toLaunch) \in EngineType
  BY Rest DEF TInv, EngineTypes
<1>2. e \in EngineId
  BY <1>1 DEF TInv, EngineTypes, EngineId, NextEngine
<1>3. /\ DOMAIN engines' = DOMAIN engines \cup {e}
      /\ \A f \in DOMAIN engines' : engines'[f] = IF f = e THEN state ELSE engines[f]
  BY DEF EnginesWith
<1> HIDE DEF e
<1>4. IsFiniteSet(DOMAIN engines')
  BY <1>3, FS_AddElement DEF TInv, EngineTypes
<1>5. EngineTypes'
  BY <1>1, <1>2, <1>3, <1>4 DEF TInv, EngineTypes
<1> QED BY <1>2, <1>5 DEF e

LEMMA LaunchesTyped == TInv /\ Launch => TInv'
<1> SUFFICES ASSUME TInv, Launch PROVE TInv'
  OBVIOUS
<1>1. CASE LaunchEngine
  <2>1. /\ launching /\ toLaunch # <<>>
        /\ engines' = EnginesWith("running") /\ toLaunch' = Tail(toLaunch)
        /\ launched' = launched \cup {NextEngine} /\ pendingFinishCount' = pendingFinishCount + 1
        /\ UNCHANGED <<status, cancelled, allResults, seenPaths, timeoutTimer, launching, inbox,
                       searches, ended, found, miscounted, ends, sync, staleGuards, deadFrameRead>>
    BY <1>1 DEF LaunchEngine, EmitNothing, syncVars
  <2>2. EngineTypes' /\ NextEngine \in EngineId
    BY <2>1, LaunchTypes DEF EngineState
  <2>3. SearchTypes' /\ CallerTypes'
    BY <2>1 DEF TInv, SearchTypes, CallerTypes
  <2>4. HistoryTypes'
    BY <2>1, <2>2 DEF TInv, HistoryTypes
  <2> QED BY <2>2, <2>3, <2>4 DEF TInv
<1>2. CASE LaunchRejected
  <2>1. /\ launching /\ toLaunch # <<>> /\ engines' = EnginesWith("idle") /\ toLaunch' = Tail(toLaunch)
        /\ launched' = launched \cup {NextEngine} /\ ended' = ended \cup {NextEngine}
        /\ EngineEnded(<<>>, pendingFinishCount + 1) /\ miscounted' = TRUE
        /\ UNCHANGED <<launching, inbox, searches, found>>
    BY <1>2 DEF LaunchRejected
  <2>2. EngineTypes' /\ NextEngine \in EngineId
    BY <2>1, LaunchTypes DEF EngineState
  <2>3. pendingFinishCount + 1 \in Int
    BY DEF TInv, SearchTypes
  <2>4. SearchTypes' /\ CallerTypes'
    BY <2>1, <2>3, EndTypes
  <2>5. HistoryTypes'
    BY <2>1, <2>2 DEF TInv, HistoryTypes
  <2> QED BY <2>2, <2>4, <2>5 DEF TInv
<1>3. CASE LaunchDone
  <2>1. /\ launching' = FALSE
        /\ UNCHANGED <<cancelled, allResults, seenPaths, pendingFinishCount, toLaunch, engines, inbox,
                       staleGuards, searches, launched, ended, found, miscounted>>
    BY <1>3 DEF LaunchDone, historyVars
  <2>2. EngineTypes' /\ HistoryTypes'
    BY <2>1 DEF TInv, EngineTypes, HistoryTypes
  <2>3. status' \in Status /\ ends' \in Nat
    BY <1>3 DEF LaunchDone, TInv, SearchTypes, CallerTypes, Status
  <2>4. timeoutTimer' \in BOOLEAN
    <3>1. timeoutTimer \in BOOLEAN /\ TimeoutEnabled \in BOOLEAN
      BY BoundsAssumption DEF TInv, SearchTypes
    <3>2. timeoutTimer' = FALSE \/ timeoutTimer' = (TimeoutEnabled \/ timeoutTimer)
      BY <1>3 DEF LaunchDone
    <3> QED BY <3>1, <3>2
  <2>5. deadFrameRead' \in BOOLEAN
    <3>1. deadFrameRead \in BOOLEAN /\ staleGuards \in BOOLEAN
      BY DEF TInv, CallerTypes
    <3>2. deadFrameRead' = deadFrameRead \/ deadFrameRead' = (deadFrameRead \/ staleGuards)
      BY <1>3 DEF LaunchDone
    <3> QED BY <3>1, <3>2
  <2>6. sync' \in SyncRecord
    BY <1>3 DEF LaunchDone, EnterLoop, SyncRecord, TInv, CallerTypes
  <2>7. SearchTypes'
    BY <2>1, <2>3, <2>4 DEF TInv, SearchTypes
  <2>8. CallerTypes'
    BY <2>1, <2>3, <2>5, <2>6 DEF TInv, CallerTypes
  <2> QED BY <2>2, <2>7, <2>8 DEF TInv
<1> QED BY <1>1, <1>2, <1>3 DEF Launch

LEMMA DeliveriesTyped == TInv /\ Deliver => TInv'
<1> SUFFICES ASSUME TInv, Deliver PROVE TInv'
  OBVIOUS
<1> DEFINE e == Head(inbox).engine
<1>1. /\ inbox # <<>> /\ inbox' = Tail(inbox) /\ UNCHANGED <<toLaunch, launching, searches, launched>>
  BY DEF Deliver, OnEngineFinished, OnEngineError, DeleteEngine, Receive, historyVars
<1>2. inbox' \in Seq(Event) /\ Head(inbox) \in Event
  BY <1>1, Rest DEF TInv, EngineTypes
<1>3. Head(inbox).list \in Lists \cup {<<>>} /\ pendingFinishCount \in Int
  BY <1>2 DEF Event, TInv, SearchTypes
<1>4. CASE OnEngineFinished
  <2>1. /\ EngineEnded(Head(inbox).list, pendingFinishCount) /\ UNCHANGED <<engines, miscounted>>
        /\ ended' = ended \/ (ended' = ended \cup {e} /\ e \in launched)
        /\ found' = found \/ found' = found \cup (Range(Head(inbox).list) \ excludePatterns)
    BY <1>4 DEF OnEngineFinished
  <2>2. SearchTypes' /\ CallerTypes'
    BY <2>1, <1>3, EndTypes
  <2>3. HistoryTypes'
    BY <2>1, <1>1, <1>3, ListTypes DEF TInv, HistoryTypes
  <2>4. EngineTypes'
    BY <2>1, <1>1, <1>2 DEF TInv, EngineTypes
  <2> QED BY <2>2, <2>3, <2>4 DEF TInv
<1>5. CASE OnEngineError
  <2>1. /\ EngineEnded(<<>>, pendingFinishCount) /\ UNCHANGED <<engines, found>>
        /\ ended' = ended \/ (ended' = ended \cup {e} /\ e \in launched)
        /\ miscounted' = (miscounted \/ e.type = "FileName")
    BY <1>5 DEF OnEngineError
  <2>2. SearchTypes' /\ CallerTypes'
    BY <2>1, <1>3, EndTypes
  <2>3. miscounted' \in BOOLEAN
    BY <2>1 DEF TInv, HistoryTypes
  <2>4. HistoryTypes'
    BY <2>1, <2>3, <1>1 DEF TInv, HistoryTypes
  <2>5. EngineTypes'
    BY <2>1, <1>1, <1>2 DEF TInv, EngineTypes
  <2> QED BY <2>2, <2>4, <2>5 DEF TInv
<1>6. CASE DeleteEngine
  <2>1. /\ engines' = [f \in DOMAIN engines \ {e} |-> engines[f]]
        /\ UNCHANGED <<status, cancelled, allResults, seenPaths, pendingFinishCount, timeoutTimer,
                       ends, sync, staleGuards, deadFrameRead, miscounted, found, ended>>
    BY <1>6 DEF DeleteEngine, EmitNothing, searchVars, syncVars, historyVars
  <2>2. SearchTypes' /\ CallerTypes' /\ HistoryTypes'
    BY <2>1, <1>1 DEF TInv, SearchTypes, CallerTypes, HistoryTypes
  <2>3. IsFiniteSet(DOMAIN engines')
    BY <2>1, FS_RemoveElement DEF TInv, EngineTypes
  <2>4. EngineTypes'
    BY <2>1, <2>3, <1>1, <1>2 DEF TInv, EngineTypes
  <2> QED BY <2>2, <2>4 DEF TInv
<1> QED BY <1>4, <1>5, <1>6 DEF Deliver

LEMMA ClientTyped == TInv /\ (Client \/ Timeout \/ SyncReturn) => TInv'
<1> SUFFICES ASSUME TInv, Client \/ Timeout \/ SyncReturn PROVE TInv'
  OBVIOUS
<1>1. ASSUME NEW plan \in Plans, Search(plan) \/ SearchSync(plan) PROVE TInv'
  <2>1. /\ SearchTypes' /\ EngineTypes' /\ HistoryTypes'
        /\ UNCHANGED <<staleGuards, deadFrameRead>> /\ ends' = 0
    BY <1>1, BeginTypes DEF Search, SearchSync
  <2>2. sync' \in SyncRecord
    BY <1>1 DEF Search, SearchSync, NoSync, SyncRecord, TInv, CallerTypes
  <2>3. CallerTypes'
    BY <2>1, <2>2 DEF TInv, CallerTypes
  <2> QED BY <2>1, <2>3 DEF TInv
<1>2. CASE SearchNonSemantic
  <2>1. /\ EmitTerminal("errorOccurred", <<>>)
        /\ UNCHANGED <<searchVars, toLaunch, launching, engines, inbox, historyVars, ends>>
    BY <1>2 DEF SearchNonSemantic
  <2>2. CallerTypes'
    BY <2>1, EmitTypes DEF TInv, CallerTypes, Terminal
  <2>3. SearchTypes' /\ EngineTypes' /\ HistoryTypes'
    BY <2>1 DEF TInv, SearchTypes, EngineTypes, HistoryTypes, searchVars, historyVars
  <2> QED BY <2>2, <2>3 DEF TInv
<1>3. CASE Cancel \/ Timeout
  <2>1. /\ cancelled' = TRUE /\ timeoutTimer' = FALSE
        /\ UNCHANGED <<status, allResults, seenPaths, pendingFinishCount, toLaunch, launching,
                       engines, inbox, searches, launched, ended, found, miscounted, ends, sync,
                       staleGuards, deadFrameRead>>
    BY <1>3 DEF Cancel, Timeout, DoCancel, EmitNothing, syncVars, historyVars
  <2>2. SearchTypes'
    BY <2>1 DEF TInv, SearchTypes
  <2>3. EngineTypes' /\ CallerTypes' /\ HistoryTypes'
    BY <2>1 DEF TInv, EngineTypes, CallerTypes, HistoryTypes
  <2> QED BY <2>2, <2>3 DEF TInv
<1>4. CASE SyncReturn
  <2>1. /\ sync' = NoSync /\ staleGuards' = TRUE
        /\ UNCHANGED <<searchVars, toLaunch, launching, engines, inbox, deadFrameRead, historyVars,
                       ends>>
    BY <1>4 DEF SyncReturn
  <2>2. CallerTypes'
    BY <2>1 DEF TInv, CallerTypes, NoSync, SyncRecord
  <2>3. SearchTypes' /\ EngineTypes' /\ HistoryTypes'
    BY <2>1 DEF TInv, SearchTypes, EngineTypes, HistoryTypes, searchVars, historyVars
  <2> QED BY <2>2, <2>3 DEF TInv
<1> QED BY <1>1, <1>2, <1>3, <1>4 DEF Client

LEMMA EnginesTyped == ASSUME TInv, NEW e \in DOMAIN engines, EngineThread(e) PROVE TInv'
<1>1. /\ UNCHANGED <<searchVars, toLaunch, launching, syncVars, historyVars, ends>>
      /\ DOMAIN engines' = DOMAIN engines
      /\ \A f \in DOMAIN engines : engines'[f] \in {engines[f], "idle", "failed"}
  BY DEF EngineThread, EngineFinishes, EngineFails, EngineStep
<1>2. PICK m \in Event : inbox' = Append(inbox, m)
  <2>1. e \in EngineId
    BY DEF TInv, EngineTypes
  <2> QED BY <2>1 DEF EngineThread, EngineFinishes, EngineFails, Event
<1>3. inbox' \in Seq(Event)
  BY <1>2, Added DEF TInv, EngineTypes
<1>4. EngineTypes'
  BY <1>1, <1>3 DEF TInv, EngineTypes, EngineState, historyVars
<1>5. SearchTypes' /\ CallerTypes' /\ HistoryTypes'
  BY <1>1 DEF TInv, SearchTypes, CallerTypes, HistoryTypes, searchVars, syncVars, historyVars
<1> QED BY <1>4, <1>5 DEF TInv

LEMMA NextTyped == TInv /\ [Next]_vars => TInv'
<1> SUFFICES ASSUME TInv, [Next]_vars PROVE TInv'
  OBVIOUS
<1>1. CASE UNCHANGED vars
  BY <1>1 DEF vars, searchVars, syncVars, historyVars,
              TInv, SearchTypes, EngineTypes, CallerTypes, HistoryTypes
<1>2. CASE Next
  BY <1>2, ClientTyped, LaunchesTyped, DeliveriesTyped, EnginesTyped DEF Next
<1> QED BY <1>1, <1>2

-----------------------------------------------------------------------------
(* The theorems                                                            *)

\* Every variable of the searcher stays in its domain, also when sub-engines are counted twice.
THEOREM TypeCorrect == Spec => []TypeOK
<1>1. Spec => []TInv
  BY InitTyped, NextTyped, PTL DEF Spec
<1> QED BY <1>1, TypesAreTypeOK, PTL

(* An accepted search ends by exactly one of searchFinished and              *)
(* searchCancelled, whatever was cancelled, timed out or started again       *)
(* meanwhile, as long as no sub-engine is counted twice (onEngineFinished).  *)
THEOREM EndsExactlyOnce == Spec => []OneEndPerSearch
<1>1. IInv => OneEndPerSearch
  BY DEF IInv, Sound, Ends, OneEndPerSearch
<1> QED BY <1>1, InvariantHolds, PTL

(* Until a sub-engine is counted twice, the timeout timer never runs into    *)
(* the next search, which it would cancel (doSearch, onEngineFinished,       *)
(* doCancel).                                                                *)
THEOREM TimerStaysWithItsSearch == Spec => []TimerIsOfThisSearch
<1>1. IInv => TimerIsOfThisSearch
  BY DEF IInv, Sound, Ends, TimerIsOfThisSearch
<1> QED BY <1>1, InvariantHolds, PTL

(* The counter is the number of the search's sub-engines whose end has not   *)
(* been delivered, and searches end when it is zero: a sub-engine that is    *)
(* still awaited keeps its search going.                                     *)
THEOREM CounterIsAwaited ==
    Spec => [](~miscounted => /\ pendingFinishCount = Cardinality(launched \ ended)
                              /\ launched # ended => status = "Searching")
<1>1. IInv => (~miscounted => /\ pendingFinishCount = Cardinality(launched \ ended)
                              /\ launched # ended => status = "Searching")
  BY DEF IInv, Sound, Types, Counted, Ends, Awaited
<1> QED BY <1>1, InvariantHolds, PTL

\* searchFinished hands out what all launched sub-engines found, each path once and cut at
\* maxResults, whatever lists they come back with and in whatever order, whichever paths are
\* excluded, whatever was cancelled or timed out before, as long as no sub-engine is counted
\* twice (onEngineFinished, doSearch Step 9).
THEOREM FinishedListsAreComplete == Spec => []CountedIsComplete
<1> DEFINE Inv == IInv /\ FoundInv /\ CountedIsComplete
<1>1. Init => Inv
  BY InitSound, InitFound
<1>2. Inv /\ [Next]_vars => Inv'
  BY NextSound, NextFound
<1> QED BY <1>1, <1>2, PTL DEF Spec

\* A search that was cancelled or timed out goes on without a word or ends by searchCancelled, with
\* no list; nothing makes it a search that was not cancelled (doCancel, onEngineFinished).
THEOREM CancelledStaysCancelled ==
    Spec => [][cancelled /\ status = "Searching" =>
                  \/ cancelled' /\ status' = "Searching" /\ output' = <<>>
                  \/ status' = "Cancelled" /\ output' = <<[name |-> "searchCancelled", list |-> <<>>]>>]_vars
<1> DEFINE Inv == launching => ~cancelled
           Kept == \/ cancelled' /\ status' = "Searching" /\ output' = <<>>
                   \/ status' = "Cancelled" /\ output' = <<[name |-> "searchCancelled", list |-> <<>>]>>
\* The client cannot cancel what is being launched.
<1>1. Init => Inv
  BY DEF Init
<1>2. ASSUME Inv, [Next]_vars PROVE Inv'
  <2>1. CASE \E plan \in Plans : Search(plan) \/ SearchSync(plan)
    BY <2>1 DEF Search, SearchSync, BeginSearch
  <2>2. CASE Cancel \/ Timeout
    BY <2>2 DEF Cancel, Timeout, DoCancel, MainThreadFree
  <2>3. CASE Launch
    BY <1>2, <2>3 DEF Launch, LaunchEngine, LaunchRejected, LaunchDone, EngineEnded
  <2>4. CASE Deliver
    BY <1>2, <2>4 DEF Deliver, OnEngineFinished, OnEngineError, DeleteEngine, EngineEnded, searchVars
  <2>5. CASE SearchNonSemantic \/ SyncReturn \/ UNCHANGED vars \/ \E e \in DOMAIN engines : EngineThread(e)
    BY <1>2, <2>5 DEF SearchNonSemantic, SyncReturn, EngineThread, EngineFinishes, EngineFails, EngineStep,
                      searchVars, vars
  <2> QED BY <1>2, <2>1, <2>2, <2>3, <2>4, <2>5 DEF Next, Client
<1>3. ASSUME Inv, Next, cancelled, status = "Searching" PROVE Kept
  <2>1. ASSUME NEW list, NEW count, EngineEnded(list, count) PROVE Kept
    <3>1. Completed(allResults') => status' = "Cancelled" /\ output' = <<[name |-> "searchCancelled", list |-> <<>>]>>
      BY <1>3 DEF Completed, End, EmitTerminal
    <3> QED BY <1>3, <2>1, <3>1 DEF EngineEnded, EmitNothing
  <2>2. CASE Launch
    BY <1>3, <2>1, <2>2 DEF Launch, LaunchEngine, LaunchRejected, LaunchDone
  <2>3. CASE Deliver
    BY <1>3, <2>1, <2>3 DEF Deliver, OnEngineFinished, OnEngineError, DeleteEngine, EmitNothing, searchVars
  <2>4. CASE Cancel \/ Timeout
    BY <1>3, <2>4 DEF Cancel, Timeout, DoCancel, EmitNothing
  <2>5. CASE SyncReturn \/ \E e \in DOMAIN engines : EngineThread(e)
    BY <1>3, <2>5 DEF SyncReturn, EngineThread, EngineFinishes, EngineFails, EngineStep, searchVars
  <2> QED BY <1>3, <2>2, <2>3, <2>4, <2>5 DEF Next, Client, Search, SearchSync, SearchNonSemantic
<1> HIDE DEF Inv, Kept
<1>4. Inv /\ [Next]_vars => [cancelled /\ status = "Searching" => Kept]_vars
  BY <1>3
<1>5. Spec => [][cancelled /\ status = "Searching" => Kept]_vars
  BY <1>1, <1>2, <1>4, PTL DEF Spec
<1> QED BY <1>5 DEF Kept
=============================================================================
