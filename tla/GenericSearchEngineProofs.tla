---------------------- MODULE GenericSearchEngineProofs ----------------------
(***************************************************************************)
(* Proofs about GenericSearchEngine, for every maxResults, every number of *)
(* searches and both kinds of strategy.                                    *)
(***************************************************************************)
EXTENDS GenericSearchEngine, SequenceTheorems, TLAPS

\* Facts about sequences in the form in which the steps need them.
LEMMA HeadTailType ==
    ASSUME NEW S, NEW s \in Seq(S), s # <<>>
    PROVE  Head(s) \in S /\ Tail(s) \in Seq(S)
OBVIOUS

\* Append keeps a sequence a sequence of the same set.
LEMMA AppendType ==
    ASSUME NEW S, NEW s \in Seq(S), NEW e \in S
    PROVE  Append(s, e) \in Seq(S)
OBVIOUS

\* The list of a strategy is a sequence of hits.
LEMMA HitListType ==
    ASSUME NEW s \in Nat, NEW n \in Nat
    PROVE  /\ HitList(s, n) \in Seq(Hit)
           /\ Len(HitList(s, n)) = n
           /\ \A k \in 1..n : HitList(s, n)[k] = [search |-> s, nth |-> k]
<1>1. HitList(s, n) \in [1..n -> Hit]
  BY DEF HitList, Hit
<1>2. HitList(s, n) \in Seq(Hit)
  BY <1>1, SeqDef
<1>3. Len(HitList(s, n)) = n
  BY <1>1, <1>2, LenProperties
<1> QED
  BY <1>2, <1>3 DEF HitList

\* Both constructors of a signal yield records of the type of output's entries.
LEMMA SignalType ==
    ASSUME NEW name \in SignalName
    PROVE  /\ <<Signal(name)>> \in Seq(SignalRecord)
           /\ \A list \in Seq(Hit) : <<ListSignal(name, list)>> \in Seq(SignalRecord)
<1>1. Signal(name) \in SignalRecord
  BY DEF Signal, SignalRecord
<1>2. ASSUME NEW list \in Seq(Hit) PROVE ListSignal(name, list) \in SignalRecord
  BY DEF ListSignal, SignalRecord
<1> QED
  BY <1>1, <1>2

\* The concatenation of two sequences of a set (a batch and searchFinished).
LEMMA ConcatType ==
    ASSUME NEW S, NEW s \in Seq(S), NEW t \in Seq(S)
    PROVE  s \o t \in Seq(S)
OBVIOUS

\* Two signals in one step form a sequence of signals.
LEMMA ConcatPair ==
    ASSUME NEW a, NEW b
    PROVE  <<a>> \o <<b>> = <<a, b>>
<1>1. <<a>> \in Seq({a, b}) /\ <<b>> \in Seq({a, b}) /\ <<a, b>> \in Seq({a, b})
  OBVIOUS
<1>2. /\ <<a>> \o <<b>> \in Seq({a, b}) /\ Len(<<a>> \o <<b>>) = 2
      /\ (<<a>> \o <<b>>)[1] = a /\ (<<a>> \o <<b>>)[2] = b
  BY <1>1, ConcatProperties
<1>3. ASSUME NEW i \in 1..2 PROVE (<<a>> \o <<b>>)[i] = <<a, b>>[i]
  <2>1. i = 1 \/ i = 2
    OBVIOUS
  <2> QED
    BY <1>2, <2>1
<1>4. Len(<<a, b>>) = 2
  OBVIOUS
<1> QED
  BY <1>1, <1>2, <1>3, <1>4, SeqEqual

-----------------------------------------------------------------------------
\* Type correctness, flags: what the handlers assign to the atomics and switches is BOOLEAN.
LEMMA FlagTypeOKPreserved == TypeOK /\ [Next]_vars => FlagTypeOK'
<1> SUFFICES ASSUME TypeOK, [Next]_vars PROVE FlagTypeOK'
  OBVIOUS
<1> USE DEF TypeOK, FlagTypeOK, mainVars, workerVars, historyVars
<1>1. CASE Search
  BY <1>1 DEF Search, NothingInFlight
<1>2. CASE SearchRejected
  BY <1>2 DEF SearchRejected
<1>3. ASSUME NEW withCallback \in BOOLEAN, SearchSync(withCallback) PROVE FlagTypeOK'
  BY <1>3 DEF SearchSync
<1>4. CASE Cancel
  BY <1>4 DEF Cancel, CancelEffect
<1>5. CASE SetSearchOptions
  BY <1>5, ResultFoundAssumption DEF SetSearchOptions
<1>6. CASE Destroy
  BY <1>6 DEF Destroy
<1>7. CASE BatchTimeout
  BY <1>7 DEF BatchTimeout
<1>8. CASE SyncTimeout
  BY <1>8 DEF SyncTimeout
<1>9. CASE SyncReturn
  BY <1>9 DEF SyncReturn
<1>10. CASE HandleSearchResult
  BY <1>10 DEF HandleSearchResult, CancelEffect
<1>11. CASE HandleSearchFinished
  BY <1>11 DEF HandleSearchFinished
<1>12. CASE HandleErrorOccurred
  BY <1>12 DEF HandleErrorOccurred
<1>13. CASE WorkerJoined
  BY <1>13 DEF WorkerJoined
<1>14. CASE DoSearch
  BY <1>14 DEF DoSearch, WorkerStep
<1>15. CASE Visit
  BY <1>15 DEF Visit, WorkerStep
<1>16. CASE Exhausted
  BY <1>16 DEF Exhausted, WorkerStep
<1>17. CASE Report
  BY <1>17 DEF Report, WorkerStep
<1>18. CASE Fail
  BY <1>18 DEF Fail, WorkerStep
<1>19. CASE Finish
  BY <1>19 DEF Finish, WorkerStep
<1>20. CASE UNCHANGED vars
  BY <1>20 DEF vars
<1> QED
  BY <1>1, <1>2, <1>3, <1>4, <1>5, <1>6, <1>7, <1>8, <1>9, <1>10, <1>11, <1>12,
     <1>13, <1>14, <1>15, <1>16, <1>17, <1>18, <1>19, <1>20
  DEF Next, Client, Deliver, Timers, Worker

\* Type correctness, state machines: status, loop, worker and lifecycle keep their domains.
LEMMA StateTypeOKPreserved == TypeOK /\ [Next]_vars => StateTypeOK'
<1> SUFFICES ASSUME TypeOK, [Next]_vars PROVE StateTypeOK'
  OBVIOUS
<1> USE DEF TypeOK, StateTypeOK, mainVars, workerVars, historyVars
<1>1. CASE Search
  BY <1>1 DEF Search, Status
<1>2. CASE SearchRejected
  BY <1>2 DEF SearchRejected, QuitLoop, Status
<1>3. ASSUME NEW withCallback \in BOOLEAN, SearchSync(withCallback) PROVE StateTypeOK'
  <2>1. searches' \in Nat
    BY <1>3 DEF SearchSync, CounterTypeOK
  <2>2. NothingInFlight \in BOOLEAN
    BY DEF NothingInFlight
  <2> QED
    BY <1>3, <2>1, <2>2 DEF SearchSync
<1>4. CASE Cancel
  BY <1>4 DEF Cancel, CancelEffect, Status
<1>5. CASE SetSearchOptions
  BY <1>5 DEF SetSearchOptions
<1>6. CASE Destroy
  BY <1>6 DEF Destroy
<1>7. CASE BatchTimeout
  BY <1>7 DEF BatchTimeout
<1>8. CASE SyncTimeout
  BY <1>8 DEF SyncTimeout, QuitLoop
<1>9. CASE SyncReturn
  BY <1>9 DEF SyncReturn
<1>10. CASE HandleSearchResult
  BY <1>10 DEF HandleSearchResult, CancelEffect, Status
<1>11. CASE HandleSearchFinished
  BY <1>11 DEF HandleSearchFinished, QuitLoop, Status
<1>12. CASE HandleErrorOccurred
  BY <1>12 DEF HandleErrorOccurred, QuitLoop, Status
<1>13. CASE WorkerJoined
  BY <1>13 DEF WorkerJoined
<1>14. CASE DoSearch
  <2>1. Head(requests) \in [search : Nat, live : BOOLEAN]
    BY <1>14, HeadTailType DEF DoSearch, QueueTypeOK
  <2> QED
    BY <1>14, <2>1 DEF DoSearch, WorkerStep
<1>15. CASE Visit
  BY <1>15 DEF Visit, WorkerStep
<1>16. CASE Exhausted
  BY <1>16 DEF Exhausted, WorkerStep
<1>17. CASE Report
  <2>1. worker.found + 1 \in Nat
    OBVIOUS
  <2> QED
    BY <1>17, <2>1 DEF Report, WorkerStep
<1>18. CASE Fail
  BY <1>18 DEF Fail, WorkerStep
<1>19. CASE Finish
  BY <1>19 DEF Finish, WorkerStep
<1>20. CASE UNCHANGED vars
  BY <1>20 DEF vars
<1> QED
  BY <1>1, <1>2, <1>3, <1>4, <1>5, <1>6, <1>7, <1>8, <1>9, <1>10, <1>11, <1>12,
     <1>13, <1>14, <1>15, <1>16, <1>17, <1>18, <1>19, <1>20
  DEF Next, Client, Deliver, Timers, Worker

\* Type correctness, result lists: m_results and m_batchResults hold hits.
LEMMA ListTypeOKPreserved == TypeOK /\ [Next]_vars => ListTypeOK'
<1> SUFFICES ASSUME TypeOK, [Next]_vars PROVE ListTypeOK'
  OBVIOUS
<1> USE DEF TypeOK, ListTypeOK, mainVars, workerVars, historyVars
<1>1. CASE Search
  BY <1>1 DEF Search
<1>2. CASE SearchRejected
  BY <1>2 DEF SearchRejected
<1>3. ASSUME NEW withCallback \in BOOLEAN, SearchSync(withCallback) PROVE ListTypeOK'
  BY <1>3 DEF SearchSync
<1>4. CASE Cancel
  BY <1>4 DEF Cancel
<1>5. CASE SetSearchOptions
  BY <1>5 DEF SetSearchOptions
<1>6. CASE Destroy
  BY <1>6 DEF Destroy
<1>7. CASE BatchTimeout
  BY <1>7 DEF BatchTimeout, EmitBatch
<1>8. CASE SyncTimeout
  BY <1>8 DEF SyncTimeout
<1>9. CASE SyncReturn
  BY <1>9 DEF SyncReturn
<1>10. CASE HandleSearchResult
  <2>1. Head(inbox) \in Message
    BY <1>10, HeadTailType DEF HandleSearchResult, Receive, QueueTypeOK
  <2>2. [search |-> Head(inbox).search, nth |-> Head(inbox).n] \in Hit
    BY <2>1 DEF Message, Hit
  <2>3. results' \in Seq(Hit) /\ results'[Len(results')] \in Hit
    BY <1>10, <2>2 DEF HandleSearchResult
  <2>4. batchResults' \in {batchResults, Append(batchResults, results'[Len(results')])}
    BY <1>10 DEF HandleSearchResult
  <2>5. batchResults' \in Seq(Hit)
    BY <2>3, <2>4, AppendType
  <2>6. UNCHANGED announced
    BY <1>10 DEF HandleSearchResult
  <2> QED
    BY <2>3, <2>5, <2>6
<1>11. CASE HandleSearchFinished
  <2>1. Head(inbox) \in Message
    BY <1>11, HeadTailType DEF HandleSearchFinished, Receive, QueueTypeOK
  <2>2. HitList(Head(inbox).search, Head(inbox).n) \in Seq(Hit)
    BY <2>1, HitListType DEF Message
  <2>3. results' \in Seq(Hit)
    BY <1>11, <2>2 DEF HandleSearchFinished, ReconciledResults
  <2> QED
    BY <1>11, <2>3 DEF HandleSearchFinished, EmitBatch
<1>12. CASE HandleErrorOccurred
  BY <1>12 DEF HandleErrorOccurred
<1>13. CASE WorkerJoined
  BY <1>13 DEF WorkerJoined
<1>14. CASE DoSearch
  BY <1>14 DEF DoSearch, WorkerStep
<1>15. CASE Visit
  BY <1>15 DEF Visit, WorkerStep
<1>16. CASE Exhausted
  BY <1>16 DEF Exhausted, WorkerStep
<1>17. CASE Report
  BY <1>17 DEF Report, WorkerStep
<1>18. CASE Fail
  BY <1>18 DEF Fail, WorkerStep
<1>19. CASE Finish
  BY <1>19 DEF Finish, WorkerStep
<1>20. CASE UNCHANGED vars
  BY <1>20 DEF vars
<1> QED
  BY <1>1, <1>2, <1>3, <1>4, <1>5, <1>6, <1>7, <1>8, <1>9, <1>10, <1>11, <1>12,
     <1>13, <1>14, <1>15, <1>16, <1>17, <1>18, <1>19, <1>20
  DEF Next, Client, Deliver, Timers, Worker

\* Type correctness, what the client sees: every step emits well-formed signals.
LEMMA OutputTypeOKPreserved == TypeOK /\ [Next]_vars => OutputTypeOK'
<1> SUFFICES ASSUME TypeOK, [Next]_vars PROVE OutputTypeOK'
  OBVIOUS
<1> USE DEF TypeOK, OutputTypeOK, mainVars, workerVars, historyVars
<1>1. CASE Search
  BY <1>1, SignalType DEF Search, SignalName
<1>2. CASE SearchRejected
  <2>1. output' = <<Signal("searchStarted")>> \o <<Signal("errorOccurred")>>
    BY <1>2 DEF SearchRejected
  <2> QED
    BY <2>1, SignalType, ConcatType DEF SignalName
<1>3. ASSUME NEW withCallback \in BOOLEAN, SearchSync(withCallback) PROVE OutputTypeOK'
  BY <1>3 DEF SearchSync
<1>4. CASE Cancel
  <2>1. output' = <<>> \/ output' = <<Signal("searchCancelled")>>
    BY <1>4 DEF Cancel, CancelEffect
  <2>2. <<Signal("searchCancelled")>> \in Seq(SignalRecord)
    BY SignalType DEF SignalName
  <2>3. CASE output' = <<>>
    BY <2>3
  <2> QED
    BY <2>1, <2>2, <2>3
<1>5. CASE SetSearchOptions
  BY <1>5 DEF SetSearchOptions
<1>6. CASE Destroy
  BY <1>6 DEF Destroy
<1>7. CASE BatchTimeout
  BY <1>7, SignalType DEF BatchTimeout, ListTypeOK, SignalName
<1>8. CASE SyncTimeout
  BY <1>8 DEF SyncTimeout
<1>9. CASE SyncReturn
  BY <1>9, SignalType DEF SyncReturn, ListTypeOK, SignalName
<1>10. CASE HandleSearchResult
  <2>1. output' = <<>> \/ output' = <<Signal("searchCancelled")>>
    BY <1>10 DEF HandleSearchResult, CancelEffect
  <2>2. <<Signal("searchCancelled")>> \in Seq(SignalRecord)
    BY SignalType DEF SignalName
  <2>3. CASE output' = <<>>
    BY <2>3
  <2> QED
    BY <2>1, <2>2, <2>3
<1>11. CASE HandleSearchFinished
  <2>1. results' \in Seq(Hit) /\ batchResults \in Seq(Hit)
    BY ListTypeOKPreserved DEF ListTypeOK
  <2>2. <<ListSignal("searchFinished", results')>> \in Seq(SignalRecord)
    BY <2>1, SignalType DEF SignalName
  <2>3. <<ListSignal("resultsFound", batchResults)>> \in Seq(SignalRecord)
    BY <2>1, SignalType DEF SignalName
  <2> QED
    BY <1>11, <2>2, <2>3, ConcatType DEF HandleSearchFinished
<1>12. CASE HandleErrorOccurred
  BY <1>12, SignalType DEF HandleErrorOccurred, SignalName
<1>13. CASE WorkerJoined
  BY <1>13 DEF WorkerJoined
<1>14. CASE DoSearch
  BY <1>14 DEF DoSearch, WorkerStep
<1>15. CASE Visit
  BY <1>15 DEF Visit, WorkerStep
<1>16. CASE Exhausted
  BY <1>16 DEF Exhausted, WorkerStep
<1>17. CASE Report
  BY <1>17 DEF Report, WorkerStep
<1>18. CASE Fail
  BY <1>18 DEF Fail, WorkerStep
<1>19. CASE Finish
  BY <1>19 DEF Finish, WorkerStep
<1>20. CASE UNCHANGED vars
  BY <1>20 DEF vars
<1> QED
  BY <1>1, <1>2, <1>3, <1>4, <1>5, <1>6, <1>7, <1>8, <1>9, <1>10, <1>11, <1>12,
     <1>13, <1>14, <1>15, <1>16, <1>17, <1>18, <1>19, <1>20
  DEF Next, Client, Deliver, Timers, Worker

\* Type correctness, the two event queues between the threads.
LEMMA QueueTypeOKPreserved == TypeOK /\ [Next]_vars => QueueTypeOK'
<1> SUFFICES ASSUME TypeOK, [Next]_vars PROVE QueueTypeOK'
  OBVIOUS
<1> USE DEF TypeOK, QueueTypeOK, mainVars, workerVars, historyVars
<1>1. CASE Search
  <2>1. [search |-> searches + 1, live |-> resultFound] \in [search : Nat, live : BOOLEAN]
    BY DEF CounterTypeOK, FlagTypeOK
  <2> QED
    BY <1>1, <2>1, AppendType DEF Search, EmitRequest
<1>2. CASE SearchRejected
  BY <1>2 DEF SearchRejected
<1>3. ASSUME NEW withCallback \in BOOLEAN, SearchSync(withCallback) PROVE QueueTypeOK'
  <2>1. [search |-> searches', live |-> resultFound'] \in [search : Nat, live : BOOLEAN]
    BY <1>3 DEF SearchSync, CounterTypeOK, FlagTypeOK
  <2> QED
    BY <1>3, <2>1, AppendType DEF SearchSync
<1>4. CASE Cancel
  BY <1>4 DEF Cancel
<1>5. CASE SetSearchOptions
  BY <1>5 DEF SetSearchOptions
<1>6. CASE Destroy
  BY <1>6 DEF Destroy
<1>7. CASE BatchTimeout
  BY <1>7 DEF BatchTimeout
<1>8. CASE SyncTimeout
  BY <1>8 DEF SyncTimeout
<1>9. CASE SyncReturn
  BY <1>9 DEF SyncReturn
<1>10. CASE HandleSearchResult
  BY <1>10, HeadTailType DEF HandleSearchResult, Receive
<1>11. CASE HandleSearchFinished
  BY <1>11, HeadTailType DEF HandleSearchFinished, Receive
<1>12. CASE HandleErrorOccurred
  BY <1>12, HeadTailType DEF HandleErrorOccurred, Receive
<1>13. CASE WorkerJoined
  BY <1>13 DEF WorkerJoined
<1>14. CASE DoSearch
  BY <1>14, HeadTailType DEF DoSearch, WorkerStep
<1>15. CASE Visit
  BY <1>15 DEF Visit, WorkerStep
<1>16. CASE Exhausted
  BY <1>16 DEF Exhausted, WorkerStep
<1>17. CASE Report
  <2>1. [type |-> "result", search |-> worker.search, n |-> worker.found + 1] \in Message
    BY DEF StateTypeOK, Message
  <2> QED
    BY <1>17, <2>1, AppendType DEF Report, WorkerStep
<1>18. CASE Fail
  <2>1. [type |-> "error", search |-> worker.search, n |-> worker.found] \in Message
    BY DEF StateTypeOK, Message
  <2> QED
    BY <1>18, <2>1, AppendType DEF Fail, Post, WorkerStep
<1>19. CASE Finish
  <2>1. [type |-> "finished", search |-> worker.search, n |-> worker.found] \in Message
    BY DEF StateTypeOK, Message
  <2> QED
    BY <1>19, <2>1, AppendType DEF Finish, Post, WorkerStep
<1>20. CASE UNCHANGED vars
  BY <1>20 DEF vars
<1> QED
  BY <1>1, <1>2, <1>3, <1>4, <1>5, <1>6, <1>7, <1>8, <1>9, <1>10, <1>11, <1>12,
     <1>13, <1>14, <1>15, <1>16, <1>17, <1>18, <1>19, <1>20
  DEF Next, Client, Deliver, Timers, Worker

\* Type correctness, counters.
LEMMA CounterTypeOKPreserved == TypeOK /\ [Next]_vars => CounterTypeOK'
<1> SUFFICES ASSUME TypeOK, [Next]_vars PROVE CounterTypeOK'
  OBVIOUS
<1> USE DEF TypeOK, CounterTypeOK, mainVars, workerVars, historyVars
<1>1. CASE Search
  BY <1>1 DEF Search, EmitRequest
<1>2. CASE SearchRejected
  BY <1>2 DEF SearchRejected
<1>3. ASSUME NEW withCallback \in BOOLEAN, SearchSync(withCallback) PROVE CounterTypeOK'
  BY <1>3 DEF SearchSync
<1>4. CASE Cancel
  BY <1>4 DEF Cancel, CancelEffect
<1>5. CASE SetSearchOptions
  BY <1>5 DEF SetSearchOptions
<1>6. CASE Destroy
  BY <1>6 DEF Destroy
<1>7. CASE BatchTimeout
  BY <1>7 DEF BatchTimeout
<1>8. CASE SyncTimeout
  BY <1>8 DEF SyncTimeout
<1>9. CASE SyncReturn
  BY <1>9 DEF SyncReturn
<1>10. CASE HandleSearchResult
  BY <1>10 DEF HandleSearchResult, CancelEffect
<1>11. CASE HandleSearchFinished
  <2>0. Head(inbox) \in Message
    BY <1>11, HeadTailType DEF HandleSearchFinished, Receive, QueueTypeOK
  <2>1. Head(inbox).search \in Nat
    BY <2>0 DEF Message
  <2> QED
    BY <1>11, <2>1 DEF HandleSearchFinished
<1>12. CASE HandleErrorOccurred
  <2>0. Head(inbox) \in Message
    BY <1>12, HeadTailType DEF HandleErrorOccurred, Receive, QueueTypeOK
  <2>1. Head(inbox).search \in Nat
    BY <2>0 DEF Message
  <2> QED
    BY <1>12, <2>1 DEF HandleErrorOccurred
<1>13. CASE WorkerJoined
  BY <1>13 DEF WorkerJoined
<1>14. CASE DoSearch
  BY <1>14 DEF DoSearch, WorkerStep
<1>15. CASE Visit
  BY <1>15 DEF Visit, WorkerStep
<1>16. CASE Exhausted
  BY <1>16 DEF Exhausted, WorkerStep
<1>17. CASE Report
  BY <1>17 DEF Report, WorkerStep
<1>18. CASE Fail
  BY <1>18 DEF Fail, WorkerStep
<1>19. CASE Finish
  BY <1>19 DEF Finish, WorkerStep
<1>20. CASE UNCHANGED vars
  BY <1>20 DEF vars
<1> QED
  BY <1>1, <1>2, <1>3, <1>4, <1>5, <1>6, <1>7, <1>8, <1>9, <1>10, <1>11, <1>12,
     <1>13, <1>14, <1>15, <1>16, <1>17, <1>18, <1>19, <1>20
  DEF Next, Client, Deliver, Timers, Worker

\* Type correctness: Init and every action keep every variable in its domain.
THEOREM TypeCorrect == Spec => []TypeOK
<1>1. Init => TypeOK
  <2> SUFFICES ASSUME Init PROVE TypeOK
    OBVIOUS
  <2>1. FlagTypeOK
    BY ResultFoundAssumption DEF Init, FlagTypeOK
  <2>2. StateTypeOK
    BY DEF Init, StateTypeOK, Status
  <2>3. ListTypeOK
    BY DEF Init, ListTypeOK
  <2>6. OutputTypeOK
    BY DEF Init, OutputTypeOK
  <2>4. QueueTypeOK
    BY DEF Init, QueueTypeOK
  <2>5. CounterTypeOK
    BY DEF Init, CounterTypeOK
  <2> QED
    BY <2>1, <2>2, <2>3, <2>4, <2>5, <2>6 DEF TypeOK
<1>2. TypeOK /\ [Next]_vars => TypeOK'
  BY FlagTypeOKPreserved, StateTypeOKPreserved, ListTypeOKPreserved, OutputTypeOKPreserved,
     QueueTypeOKPreserved, CounterTypeOKPreserved DEF TypeOK
<1> QED
  BY <1>1, <1>2, PTL DEF Spec

-----------------------------------------------------------------------------
(* The order of the worker's signals *)

\* m is the last signal the engine gets for its search.
Last(m) == m.type = "finished" \/ (m.type = "error" /\ ~ErrorThenFinish)

\* The search that the i-th message of the inbox belongs to, by its predecessor.
SearchBefore(i) ==
    IF i = 1 THEN answered + 1
    ELSE IF Last(inbox[i - 1]) THEN inbox[i - 1].search + 1 ELSE inbox[i - 1].search

\* The messages of the inbox, the strategy and the queued requests follow each
\* other without a gap: searches are answered in the order of the requests.
OrderInv ==
    /\ \A i \in 1..Len(inbox) :
         inbox[i].search = SearchBefore(i) /\ inbox[i].search <= worker.search
    /\ SearchBefore(Len(inbox) + 1)
         = IF worker.phase = "idle" THEN worker.search + 1 ELSE worker.search
    /\ \A i \in 1..Len(requests) : requests[i].search = worker.search + i
    /\ searches = worker.search + Len(requests)

\* A worker step that posts m appends it to a chain that ends where m starts.
LEMMA OrderAppend ==
    ASSUME TypeOK, OrderInv, NEW m \in Message, inbox' = Append(inbox, m),
           UNCHANGED answered
    PROVE  /\ \A i \in 1..Len(inbox) + 1 : SearchBefore(i)' = SearchBefore(i)
           /\ SearchBefore(Len(inbox) + 1)' = IF Last(m) THEN m.search + 1 ELSE m.search
<1> USE DEF SearchBefore, Last, TypeOK, QueueTypeOK
<1>1. inbox \in Seq(Message) /\ Len(inbox') = Len(inbox) + 1
  OBVIOUS
<1>2. \A i \in 1..Len(inbox) : inbox'[i] = inbox[i]
  BY <1>1
<1>3. inbox'[Len(inbox) + 1] = m
  BY <1>1
<1>4. ASSUME NEW i \in 1..Len(inbox) + 1 PROVE SearchBefore(i)' = SearchBefore(i)
  <2>1. CASE i = 1
    BY <2>1
  <2>2. CASE i # 1
    <3>1. i - 1 \in 1..Len(inbox)
      BY <1>1, <2>2
    <3> QED
      BY <1>2, <2>2, <3>1
  <2> QED
    BY <2>1, <2>2
<1>5. SearchBefore(Len(inbox) + 1)' = IF Last(m) THEN m.search + 1 ELSE m.search
  <2>1. Len(inbox') + 1 # 1 /\ (Len(inbox') + 1) - 1 = Len(inbox) + 1
    BY <1>1
  <2> QED
    BY <1>3, <2>1
<1> QED
  BY <1>4, <1>5

\* Delivery of the first message moves the chain up by one.
LEMMA OrderTail ==
    ASSUME TypeOK, OrderInv, inbox # <<>>, inbox' = Tail(inbox),
           answered' = IF Last(Head(inbox)) THEN Head(inbox).search ELSE answered
    PROVE  \A i \in 1..Len(inbox) : SearchBefore(i)' = SearchBefore(i + 1)
<1> USE DEF TypeOK, QueueTypeOK, CounterTypeOK
<1>1. Head(inbox) = inbox[1] /\ Head(inbox).search = answered + 1 /\ Len(inbox) >= 1
  BY DEF OrderInv, SearchBefore
<1>2. \A i \in 1..Len(inbox) - 1 : inbox'[i] = inbox[i + 1]
  OBVIOUS
<1>3. SearchBefore(1)' = SearchBefore(2)
  BY <1>1 DEF SearchBefore, Last
<1>4. ASSUME NEW i \in 2..Len(inbox) PROVE SearchBefore(i)' = SearchBefore(i + 1)
  BY <1>2 DEF SearchBefore, Last
<1> QED
  BY <1>1, <1>3, <1>4

\* The first undelivered message belongs to the oldest search that is not answered.
LEMMA FirstMessage ==
    ASSUME TypeOK, OrderInv, inbox # <<>>
    PROVE  /\ 1 \in 1..Len(inbox) /\ Head(inbox) = inbox[1] /\ Head(inbox) \in Message
           /\ Head(inbox).search = answered + 1
           /\ answered + 1 <= worker.search /\ answered < searches
<1>1. 1 \in 1..Len(inbox) /\ Head(inbox) = inbox[1] /\ Head(inbox) \in Message
  BY HeadTailType DEF TypeOK, QueueTypeOK
<1>2. inbox[1].search = SearchBefore(1) /\ inbox[1].search <= worker.search
  BY <1>1 DEF OrderInv
<1>3. SearchBefore(1) = answered + 1
  BY DEF SearchBefore
<1>4. worker.search <= searches
  BY DEF OrderInv, TypeOK, StateTypeOK, QueueTypeOK
<1>5. answered \in Nat /\ worker.search \in Nat /\ searches \in Nat
  BY DEF TypeOK, StateTypeOK, CounterTypeOK
<1>6. answered + 1 <= worker.search
  BY <1>1, <1>2, <1>3
<1>7. answered < searches
  BY <1>4, <1>5, <1>6
<1> QED
  BY <1>1, <1>2, <1>3, <1>6, <1>7

\* The chain from the last answer over the queues to the last request survives every step.
LEMMA OrderPreserved == TypeOK /\ TypeOK' /\ OrderInv /\ [Next]_vars => OrderInv'
<1> SUFFICES ASSUME TypeOK, TypeOK', OrderInv, [Next]_vars PROVE OrderInv'
  OBVIOUS
<1> USE DEF mainVars, workerVars, historyVars
<1>1. CASE UNCHANGED <<requests, worker, inbox, searches, answered>>
  BY <1>1 DEF OrderInv, SearchBefore, Last
<1>2. ASSUME requests' = Append(requests, [search |-> searches + 1, live |-> resultFound']),
             searches' = searches + 1, UNCHANGED <<worker, inbox, answered>>
      PROVE  OrderInv'
  <2>1. \A i \in 1..Len(requests') : requests'[i].search = worker.search + i
    BY <1>2 DEF OrderInv, TypeOK, QueueTypeOK, StateTypeOK
  <2>2. searches' = worker.search + Len(requests')
    BY <1>2 DEF OrderInv, TypeOK, QueueTypeOK, StateTypeOK
  <2> QED
    BY <1>2, <2>1, <2>2 DEF OrderInv, SearchBefore, Last
<1>3. ASSUME inbox # <<>>, inbox' = Tail(inbox),
             answered' = IF Last(Head(inbox)) THEN Head(inbox).search ELSE answered,
             UNCHANGED <<requests, worker, searches>>
      PROVE  OrderInv'
  <2>1. Len(inbox') = Len(inbox) - 1 /\ \A i \in 1..Len(inbox') : inbox'[i] = inbox[i + 1]
    BY <1>3 DEF TypeOK, QueueTypeOK
  <2>2. \A i \in 1..Len(inbox) : SearchBefore(i)' = SearchBefore(i + 1)
    BY <1>3, OrderTail
  <2> QED
    BY <1>3, <2>1, <2>2 DEF OrderInv, TypeOK, QueueTypeOK
<1>4. CASE DoSearch
  <2>1. worker'.search = worker.search + 1 /\ worker'.phase = "scan"
    BY <1>4, HeadTailType DEF DoSearch, OrderInv, TypeOK, QueueTypeOK
  <2>4. Len(requests') = Len(requests) - 1
        /\ \A i \in 1..Len(requests') : requests'[i] = requests[i + 1]
    BY <1>4 DEF DoSearch, TypeOK, QueueTypeOK
  <2>2. ASSUME NEW i \in 1..Len(requests') PROVE requests'[i].search = worker'.search + i
    <3>1. i + 1 \in 1..Len(requests) /\ worker.search \in Nat /\ i \in Nat
      BY <2>4 DEF TypeOK, QueueTypeOK, StateTypeOK
    <3>2. requests[i + 1].search = worker.search + (i + 1)
      BY <3>1 DEF OrderInv
    <3>3. requests'[i] = requests[i + 1]
      BY <2>4
    <3>4. worker.search + (i + 1) = (worker.search + 1) + i
      BY <3>1
    <3> QED
      BY <2>1, <3>2, <3>3, <3>4
  <2>3. UNCHANGED <<inbox, answered, searches>>
    BY <1>4 DEF DoSearch, WorkerStep
  <2>5. worker.phase = "idle"
    BY <1>4 DEF DoSearch
  <2>6. \A i : SearchBefore(i)' = SearchBefore(i)
    BY <2>3 DEF SearchBefore, Last
  <2>7. ASSUME NEW i \in 1..Len(inbox') PROVE inbox'[i].search <= worker'.search
    <3>1. inbox[i] \in Message /\ inbox[i].search <= worker.search /\ inbox'[i] = inbox[i]
      BY <2>3 DEF OrderInv, TypeOK, QueueTypeOK
    <3>2. inbox[i].search \in Nat /\ worker.search \in Nat
      BY <3>1 DEF Message, TypeOK, StateTypeOK
    <3> QED
      BY <2>1, <3>1, <3>2
  <2>8. searches' = worker'.search + Len(requests')
    BY <2>1, <2>3, <2>4 DEF OrderInv, TypeOK, StateTypeOK, QueueTypeOK
  <2> QED
    BY <2>1, <2>2, <2>3, <2>5, <2>6, <2>7, <2>8 DEF OrderInv
<1>5. CASE Visit \/ Exhausted
  <2>1. worker'.search = worker.search /\ worker'.phase # "idle" /\ worker.phase # "idle"
    BY <1>5 DEF Visit, Exhausted, TypeOK, StateTypeOK
  <2>2. UNCHANGED <<requests, inbox, answered, searches>>
    BY <1>5 DEF Visit, Exhausted, WorkerStep
  <2> QED
    BY <2>1, <2>2 DEF OrderInv, SearchBefore, Last
<1>6. ASSUME NEW m \in Message, inbox' = Append(inbox, m), m.search = worker.search,
             worker.phase # "idle", worker'.search = worker.search,
             worker'.phase = "idle" <=> Last(m), UNCHANGED <<requests, searches, answered>>
      PROVE  OrderInv'
  <2>1. Len(inbox') = Len(inbox) + 1 /\ inbox'[Len(inbox) + 1] = m
        /\ \A i \in 1..Len(inbox) : inbox'[i] = inbox[i]
    BY <1>6 DEF TypeOK, QueueTypeOK
  <2>2. ASSUME NEW i \in 1..Len(inbox')
        PROVE  inbox'[i].search = SearchBefore(i)' /\ inbox'[i].search <= worker'.search
    <3>1. SearchBefore(i)' = SearchBefore(i)
      BY <1>6, <2>1, OrderAppend
    <3>2. CASE i \in 1..Len(inbox)
      BY <1>6, <2>1, <3>1, <3>2 DEF OrderInv
    <3>3. CASE i = Len(inbox) + 1
      BY <1>6, <2>1, <3>1, <3>3 DEF OrderInv, TypeOK, StateTypeOK
    <3> QED
      BY <2>1, <3>2, <3>3 DEF TypeOK, QueueTypeOK
  <2>3. SearchBefore(Len(inbox) + 1)'
          = IF worker'.phase = "idle" THEN worker'.search + 1 ELSE worker'.search
    BY <1>6, OrderAppend
  <2> QED
    BY <1>6, <2>2, <2>3 DEF OrderInv
<1>7. CASE Report
  <2> DEFINE m == [type |-> "result", search |-> worker.search, n |-> worker.found + 1]
  <2>1. m \in Message /\ ~Last(m)
    BY DEF Message, Last, TypeOK, StateTypeOK
  <2>2. worker.phase # "idle" /\ worker'.search = worker.search /\ worker'.phase # "idle"
    BY <1>7 DEF Report, TypeOK, StateTypeOK
  <2>3. UNCHANGED <<requests, searches, answered>>
    BY <1>7 DEF Report, WorkerStep
  <2>4. CASE inbox' = Append(inbox, m)
    BY <1>6, <2>1, <2>2, <2>3, <2>4
  <2>5. CASE inbox' = inbox
    BY <2>2, <2>3, <2>5 DEF OrderInv, SearchBefore, Last
  <2> QED
    BY <1>7, <2>4, <2>5 DEF Report
<1>8. CASE Fail
  <2> DEFINE m == [type |-> "error", search |-> worker.search, n |-> worker.found]
  <2>1. m \in Message /\ (Last(m) <=> ~ErrorThenFinish)
    BY ErrorThenFinishAssumption DEF Message, Last, TypeOK, StateTypeOK
  <2>2. worker.phase # "idle" /\ worker'.search = worker.search
        /\ (worker'.phase = "idle" <=> ~ErrorThenFinish)
    BY <1>8, ErrorThenFinishAssumption DEF Fail, TypeOK, StateTypeOK
  <2>3. inbox' = Append(inbox, m) /\ UNCHANGED <<requests, searches, answered>>
    BY <1>8 DEF Fail, Post, WorkerStep
  <2> QED
    BY <1>6, <2>1, <2>2, <2>3
<1>9. CASE Finish
  <2> DEFINE m == [type |-> "finished", search |-> worker.search, n |-> worker.found]
  <2>1. m \in Message /\ Last(m)
    BY DEF Message, Last, TypeOK, StateTypeOK
  <2>2. worker.phase # "idle" /\ worker'.search = worker.search /\ worker'.phase = "idle"
    BY <1>9 DEF Finish, TypeOK, StateTypeOK
  <2>3. inbox' = Append(inbox, m) /\ UNCHANGED <<requests, searches, answered>>
    BY <1>9 DEF Finish, Post, WorkerStep
  <2> QED
    BY <1>6, <2>1, <2>2, <2>3
<1>10. CASE Search
  BY <1>2, <1>10 DEF Search, EmitRequest
<1>11. ASSUME NEW withCallback \in BOOLEAN, SearchSync(withCallback) PROVE OrderInv'
  BY <1>2, <1>11 DEF SearchSync
<1>12. CASE HandleSearchResult
  <2>1. ~Last(Head(inbox))
    BY <1>12 DEF HandleSearchResult, Receive, Last
  <2> QED
    BY <1>3, <1>12, <2>1 DEF HandleSearchResult, Receive
<1>13. CASE HandleSearchFinished
  <2>1. Last(Head(inbox))
    BY <1>13 DEF HandleSearchFinished, Receive, Last
  <2> QED
    BY <1>3, <1>13, <2>1 DEF HandleSearchFinished, Receive
<1>14. CASE HandleErrorOccurred
  <2>1. Last(Head(inbox)) = ~ErrorThenFinish
    BY <1>14, ErrorThenFinishAssumption DEF HandleErrorOccurred, Receive, Last
  <2> QED
    BY <1>3, <1>14, <2>1, ErrorThenFinishAssumption DEF HandleErrorOccurred, Receive
<1>15. CASE \/ SearchRejected \/ Cancel \/ SetSearchOptions \/ Destroy \/ Timers \/ SyncReturn
            \/ WorkerJoined \/ UNCHANGED vars
  BY <1>1, <1>15 DEF SearchRejected, Cancel, SetSearchOptions, Destroy, Timers, BatchTimeout,
     SyncTimeout, SyncReturn, WorkerJoined, vars
<1> QED
  BY <1>4, <1>5, <1>7, <1>8, <1>9, <1>10, <1>11, <1>12, <1>13, <1>14, <1>15
  DEF Next, Client, Deliver, Worker

-----------------------------------------------------------------------------
\* The engine keeps the promise of SearchLedger: requests are answered one by
\* one, in order, each once, and not after the engine is gone.
THEOREM LedgerSafety == Spec => Ledger!SafeSpec
<1> USE DEF Ledger!ledger
<1>1. Init => OrderInv /\ Ledger!Init
  BY DEF Init, OrderInv, SearchBefore, Ledger!Init
<1>2. TypeOK /\ OrderInv /\ [Next]_vars => [Ledger!Next]_(Ledger!ledger)
  <2> SUFFICES ASSUME TypeOK, OrderInv, [Next]_vars
               PROVE  Ledger!Next \/ UNCHANGED <<searches, answered, lifecycle = "alive">>
    OBVIOUS
  <2> USE DEF mainVars, workerVars, historyVars
  <2>1. ASSUME Receive(Head(inbox).type), answered' = Head(inbox).search,
               UNCHANGED <<searches, lifecycle>>
        PROVE  Ledger!Answer
    <3>1. inbox # <<>> /\ lifecycle = "alive"
      BY <2>1 DEF Receive, MainThreadFree
    <3>2. Head(inbox).search = answered + 1 /\ answered < searches
      BY <3>1, FirstMessage
    <3> QED
      BY <2>1, <3>1, <3>2 DEF Ledger!Answer, TypeOK, CounterTypeOK
  <2>2. CASE Search
    BY <2>2 DEF Search, EmitRequest, MainThreadFree, Ledger!Next, Ledger!Ask
  <2>3. ASSUME NEW withCallback \in BOOLEAN, SearchSync(withCallback) PROVE Ledger!Ask
    BY <2>3 DEF SearchSync, MainThreadFree, Ledger!Ask
  <2>4. CASE HandleSearchResult
    BY <2>4 DEF HandleSearchResult
  <2>5. CASE HandleSearchFinished
    BY <2>1, <2>5 DEF HandleSearchFinished, Receive, Ledger!Next
  <2>6. CASE HandleErrorOccurred
    <3>1. CASE ErrorThenFinish
      BY <2>6, <3>1 DEF HandleErrorOccurred
    <3>2. CASE ~ErrorThenFinish
      BY <2>1, <2>6, <3>2 DEF HandleErrorOccurred, Receive, Ledger!Next
    <3> QED
      BY <3>1, <3>2
  <2>7. CASE Destroy
    BY <2>7 DEF Destroy, MainThreadFree, Ledger!Next, Ledger!Close
  <2>8. CASE WorkerJoined
    BY <2>8 DEF WorkerJoined
  <2>9. CASE Worker
    BY <2>9 DEF Worker, DoSearch, Visit, Exhausted, Report, Fail, Finish, WorkerStep
  <2>10. CASE \/ SearchRejected \/ Cancel \/ SetSearchOptions \/ Timers \/ SyncReturn
              \/ UNCHANGED vars
    BY <2>10 DEF SearchRejected, Cancel, SetSearchOptions, Timers, BatchTimeout, SyncTimeout,
       SyncReturn, vars
  <2> QED
    BY <2>2, <2>3, <2>4, <2>5, <2>6, <2>7, <2>8, <2>9, <2>10
    DEF Next, Client, Deliver, Ledger!Next
<1>3. Spec => [](TypeOK /\ OrderInv)
  <2>1. TypeOK /\ OrderInv /\ [Next]_vars /\ TypeOK' => OrderInv'
    BY OrderPreserved
  <2> QED
    BY <1>1, <2>1, TypeCorrect, PTL DEF Spec
<1> QED
  BY <1>1, <1>2, <1>3, PTL DEF Spec, Ledger!SafeSpec

-----------------------------------------------------------------------------
(* The hits behind the list of searchFinished, when single results are on *)

\* The hits of its search that precede the i-th message of the inbox.
HitsBefore(i) ==
    IF i = 1 THEN delivered
    ELSE IF Last(inbox[i - 1]) THEN 0 ELSE inbox[i - 1].n

HitsAfter(m) == IF Last(m) THEN 0 ELSE m.n

\* No hit is missing from the stream of messages, and none is there twice.
HitsInv ==
    /\ \A i \in 1..Len(inbox) :
         /\ inbox[i].n = HitsBefore(i) + IF inbox[i].type = "result" THEN 1 ELSE 0
         /\ inbox[i].n <= MaxResults
    /\ HitsBefore(Len(inbox) + 1) = IF worker.phase = "idle" THEN 0 ELSE worker.found
    /\ worker.found <= MaxResults
    /\ worker.phase = "match" => worker.found < MaxResults

\* Every queued request, and the strategy that runs, was given on as its resultFoundEnabled.
LiveIs(on) ==
    /\ \A i \in 1..Len(requests) : requests[i].live = on
    /\ worker.phase # "idle" => worker.live = on

\* The client always asks for single results.
LiveInv == resultFound = TRUE /\ LiveIs(TRUE)

\* m_results ends in the hits of the current search delivered so far, or in as
\* many of them as were delivered since it was last cleared.
ResultsInv ==
    \A i \in 1..Len(results) :
        i + delivered > Len(results) =>
            results[i] = [search |-> answered + 1, nth |-> i + delivered - Len(results)]

\* As long as no request is added, what the queued ones and the strategy were given stays.
LEMMA LiveKept ==
    ASSUME NEW on \in BOOLEAN, TypeOK, LiveIs(on), [Next]_vars, UNCHANGED searches
    PROVE  LiveIs(on)'
<1> USE DEF mainVars, workerVars, historyVars
<1>1. CASE UNCHANGED <<requests, worker>>
  BY <1>1 DEF LiveIs
<1>2. CASE DoSearch
  <2>1. /\ Len(requests) >= 1 /\ Head(requests) = requests[1]
        /\ Len(requests') = Len(requests) - 1
        /\ \A i \in 1..Len(requests') : requests'[i] = requests[i + 1]
    BY <1>2 DEF DoSearch, TypeOK, QueueTypeOK
  <2>2. worker'.live = on
    BY <1>2, <2>1 DEF DoSearch, LiveIs
  <2>3. ASSUME NEW i \in 1..Len(requests') PROVE requests'[i].live = on
    <3>1. i + 1 \in 1..Len(requests)
      BY <2>1 DEF TypeOK, QueueTypeOK
    <3> QED
      BY <2>1, <3>1 DEF LiveIs
  <2> QED
    BY <2>2, <2>3 DEF LiveIs
<1>3. CASE Visit \/ Exhausted \/ Report \/ Fail \/ Finish
  <2>1. worker'.live = worker.live /\ worker.phase # "idle" /\ UNCHANGED requests
    BY <1>3 DEF Visit, Exhausted, Report, Fail, Finish, TypeOK, StateTypeOK
  <2> QED
    BY <2>1 DEF LiveIs
<1>4. CASE Search
  BY <1>4 DEF Search, EmitRequest, TypeOK, CounterTypeOK
<1>5. ASSUME NEW withCallback \in BOOLEAN, SearchSync(withCallback) PROVE LiveIs(on)'
  BY <1>5 DEF SearchSync, TypeOK, CounterTypeOK
<1>6. CASE \/ SearchRejected \/ Cancel \/ SetSearchOptions \/ Destroy \/ Deliver \/ Timers
           \/ SyncReturn \/ WorkerJoined \/ UNCHANGED vars
  BY <1>1, <1>6 DEF SearchRejected, Cancel, SetSearchOptions, Destroy, Deliver,
     HandleSearchResult, HandleSearchFinished, HandleErrorOccurred, Timers, BatchTimeout,
     SyncTimeout, SyncReturn, WorkerJoined, vars
<1> QED
  BY <1>2, <1>3, <1>4, <1>5, <1>6 DEF Next, Client, Worker

\* While the client asks for single results, so does every request and strategy.
LEMMA LivePreserved ==
    ASSUME ResultFoundChoices = {TRUE}, TypeOK, LiveInv, [Next]_vars
    PROVE  LiveInv'
<1> USE DEF mainVars, workerVars, historyVars
<1>1. resultFound' = TRUE
  <2>1. CASE SetSearchOptions
    BY <2>1 DEF SetSearchOptions
  <2>2. ASSUME NEW withCallback \in BOOLEAN, SearchSync(withCallback) PROVE resultFound' = TRUE
    BY <2>2 DEF SearchSync, LiveInv
  <2>3. CASE Worker
    BY <2>3 DEF Worker, DoSearch, Visit, Exhausted, Report, Fail, Finish, WorkerStep, LiveInv
  <2>4. CASE Deliver
    BY <2>4 DEF Deliver, HandleSearchResult, HandleSearchFinished, HandleErrorOccurred, LiveInv
  <2>5. CASE \/ Search \/ SearchRejected \/ Cancel \/ Destroy \/ Timers \/ SyncReturn
             \/ WorkerJoined \/ UNCHANGED vars
    BY <2>5 DEF Search, SearchRejected, Cancel, Destroy, Timers, BatchTimeout, SyncTimeout,
       SyncReturn, WorkerJoined, vars, LiveInv
  <2> QED
    BY <2>1, <2>2, <2>3, <2>4, <2>5 DEF Next, Client
<1>2. ASSUME requests' = Append(requests, [search |-> searches + 1, live |-> TRUE]),
             UNCHANGED worker
      PROVE  LiveInv'
  BY <1>1, <1>2 DEF LiveInv, LiveIs, TypeOK, QueueTypeOK
<1>3. CASE Search
  BY <1>2, <1>3 DEF Search, EmitRequest, LiveInv
<1>4. ASSUME NEW withCallback \in BOOLEAN, SearchSync(withCallback) PROVE LiveInv'
  <2>1. requests' = Append(requests, [search |-> searches + 1, live |-> TRUE])
    BY <1>1, <1>4 DEF SearchSync
  <2> QED
    BY <1>2, <1>4, <2>1 DEF SearchSync
<1>5. CASE UNCHANGED searches
  BY <1>1, <1>5, LiveKept DEF LiveInv
<1>6. CASE Worker \/ Deliver
  BY <1>5, <1>6 DEF Worker, DoSearch, Visit, Exhausted, Report, Fail, Finish, WorkerStep,
     Deliver, HandleSearchResult, HandleSearchFinished, HandleErrorOccurred
<1>7. CASE \/ SearchRejected \/ Cancel \/ SetSearchOptions \/ Destroy \/ Timers
           \/ SyncReturn \/ WorkerJoined \/ UNCHANGED vars
  BY <1>5, <1>7 DEF SearchRejected, Cancel, SetSearchOptions, Destroy, Timers, BatchTimeout,
     SyncTimeout, SyncReturn, WorkerJoined, vars
<1> QED
  BY <1>3, <1>4, <1>6, <1>7 DEF Next, Client

\* The results in the inbox remain the next hits of their searches, in order.
LEMMA HitsPreserved ==
    ASSUME TypeOK, LiveIs(TRUE), HitsInv, [Next]_vars
    PROVE  HitsInv'
<1> USE DEF mainVars, workerVars, historyVars
<1>1. CASE UNCHANGED <<worker, inbox, delivered>>
  BY <1>1 DEF HitsInv, HitsBefore, Last
<1>2. ASSUME inbox # <<>>, inbox' = Tail(inbox), UNCHANGED worker,
             delivered' = HitsAfter(Head(inbox))
      PROVE  HitsInv'
  <2>1. /\ Len(inbox) >= 1 /\ Head(inbox) = inbox[1] /\ Len(inbox') = Len(inbox) - 1
        /\ \A i \in 1..Len(inbox') : inbox'[i] = inbox[i + 1]
    BY <1>2 DEF TypeOK, QueueTypeOK
  <2>2. ASSUME NEW i \in 1..Len(inbox) PROVE HitsBefore(i)' = HitsBefore(i + 1)
    <3>1. CASE i = 1
      BY <1>2, <2>1, <3>1 DEF HitsBefore, HitsAfter, Last
    <3>2. CASE i # 1
      <4>1. i - 1 \in 1..Len(inbox') /\ i + 1 # 1 /\ (i + 1) - 1 = i
        BY <2>1, <3>2 DEF TypeOK, QueueTypeOK
      <4>2. inbox'[i - 1] = inbox[i]
        BY <2>1, <4>1
      <4> QED
        BY <3>2, <4>1, <4>2 DEF HitsBefore, Last
    <3> QED
      BY <3>1, <3>2
  <2>3. ASSUME NEW i \in 1..Len(inbox')
        PROVE  /\ inbox'[i].n = HitsBefore(i)' + IF inbox'[i].type = "result" THEN 1 ELSE 0
               /\ inbox'[i].n <= MaxResults
    <3>1. i \in 1..Len(inbox) /\ i + 1 \in 1..Len(inbox) /\ inbox'[i] = inbox[i + 1]
      BY <2>1 DEF TypeOK, QueueTypeOK
    <3> QED
      BY <2>2, <3>1 DEF HitsInv
  <2>4. HitsBefore(Len(inbox) + 1)' = HitsBefore(Len(inbox) + 1)
    BY <2>1, <2>2 DEF TypeOK, QueueTypeOK
  <2> QED
    BY <1>2, <2>3, <2>4 DEF HitsInv
<1>3. ASSUME NEW m \in Message, inbox' = Append(inbox, m), UNCHANGED delivered,
             m.n = worker.found + IF m.type = "result" THEN 1 ELSE 0, m.n <= MaxResults,
             worker.phase # "idle", worker'.phase = "idle" <=> Last(m),
             worker'.found = m.n, worker'.phase # "match"
      PROVE  HitsInv'
  <2>1. Len(inbox') = Len(inbox) + 1 /\ inbox'[Len(inbox) + 1] = m
        /\ \A i \in 1..Len(inbox) : inbox'[i] = inbox[i]
    BY <1>3 DEF TypeOK, QueueTypeOK
  <2>2. ASSUME NEW i \in 1..Len(inbox) + 1 PROVE HitsBefore(i)' = HitsBefore(i)
    <3>1. CASE i = 1
      BY <1>3, <3>1 DEF HitsBefore
    <3>2. CASE i # 1
      <4>1. i - 1 \in 1..Len(inbox)
        BY <3>2 DEF TypeOK, QueueTypeOK
      <4> QED
        BY <2>1, <3>2, <4>1 DEF HitsBefore, Last
    <3> QED
      BY <3>1, <3>2
  <2>3. ASSUME NEW i \in 1..Len(inbox')
        PROVE  /\ inbox'[i].n = HitsBefore(i)' + IF inbox'[i].type = "result" THEN 1 ELSE 0
               /\ inbox'[i].n <= MaxResults
    <3>1. HitsBefore(i)' = HitsBefore(i)
      BY <2>1, <2>2
    <3>2. CASE i \in 1..Len(inbox)
      BY <2>1, <3>1, <3>2 DEF HitsInv
    <3>3. CASE i = Len(inbox) + 1
      BY <1>3, <2>1, <3>1, <3>3 DEF HitsInv
    <3> QED
      BY <2>1, <3>2, <3>3 DEF TypeOK, QueueTypeOK
  <2>4. ASSUME NEW k, k = Len(inbox) + 2 PROVE HitsBefore(k)' = HitsAfter(m)
    <3>1. k # 1 /\ k - 1 = Len(inbox) + 1
      BY <2>4 DEF TypeOK, QueueTypeOK
    <3> QED
      BY <2>1, <3>1 DEF HitsBefore, HitsAfter, Last
  <2>5. HitsBefore(Len(inbox) + 1)' = IF worker'.phase = "idle" THEN 0 ELSE worker'.found
    <3>1. Len(inbox') + 1 = Len(inbox) + 2
      BY <2>1 DEF TypeOK, QueueTypeOK
    <3> QED
      BY <1>3, <2>4, <3>1 DEF HitsAfter
  <2> QED
    BY <1>3, <2>3, <2>5 DEF HitsInv
<1>4. CASE DoSearch
  <2>1. /\ worker.phase = "idle" /\ worker'.phase = "scan" /\ worker'.found = 0
        /\ UNCHANGED <<inbox, delivered>>
    BY <1>4 DEF DoSearch, WorkerStep
  <2> QED
    BY <2>1, MaxResultsAssumption DEF HitsInv, HitsBefore, Last
<1>5. CASE Visit \/ Exhausted
  <2>1. /\ worker.phase = "scan" /\ worker'.phase \in {"done", "match"}
        /\ worker'.found = worker.found /\ UNCHANGED <<inbox, delivered>>
        /\ worker'.phase = "match" => ~(worker.found >= MaxResults)
    BY <1>5 DEF Visit, Exhausted, StopRequested, WorkerStep, TypeOK, StateTypeOK
  <2>2. worker'.phase = "match" => worker'.found < MaxResults
    BY <2>1, MaxResultsAssumption DEF TypeOK, StateTypeOK
  <2> QED
    BY <2>1, <2>2 DEF HitsInv, HitsBefore, Last
<1>6. CASE Report
  <2> DEFINE m == [type |-> "result", search |-> worker.search, n |-> worker.found + 1]
  <2>1. m \in Message /\ ~Last(m)
    BY DEF Message, Last, TypeOK, StateTypeOK
  <2>2. inbox' = Append(inbox, m) /\ UNCHANGED delivered
    BY <1>6 DEF Report, WorkerStep, LiveIs
  <2>3. /\ worker.phase = "match" /\ worker'.phase = "scan"
        /\ worker'.found = worker.found + 1
    BY <1>6 DEF Report, TypeOK, StateTypeOK
  <2>4. m.n <= MaxResults
    BY <2>3, MaxResultsAssumption DEF HitsInv, TypeOK, StateTypeOK
  <2> QED
    BY <1>3, <2>1, <2>2, <2>3, <2>4
<1>7. CASE Fail
  <2> DEFINE m == [type |-> "error", search |-> worker.search, n |-> worker.found]
  <2>1. m \in Message /\ (Last(m) <=> ~ErrorThenFinish)
    BY ErrorThenFinishAssumption DEF Message, Last, TypeOK, StateTypeOK
  <2>2. inbox' = Append(inbox, m) /\ UNCHANGED delivered
    BY <1>7 DEF Fail, Post, WorkerStep
  <2>3. /\ worker.phase = "scan" /\ worker'.found = worker.found
        /\ (worker'.phase = "idle" <=> ~ErrorThenFinish) /\ worker'.phase # "match"
    BY <1>7, ErrorThenFinishAssumption DEF Fail, TypeOK, StateTypeOK
  <2>4. m.n <= MaxResults /\ m.n = worker.found + 0
    BY DEF HitsInv, TypeOK, StateTypeOK
  <2> QED
    BY <1>3, <2>1, <2>2, <2>3, <2>4
<1>8. CASE Finish
  <2> DEFINE m == [type |-> "finished", search |-> worker.search, n |-> worker.found]
  <2>1. m \in Message /\ Last(m)
    BY DEF Message, Last, TypeOK, StateTypeOK
  <2>2. inbox' = Append(inbox, m) /\ UNCHANGED delivered
    BY <1>8 DEF Finish, Post, WorkerStep
  <2>3. worker.phase = "done" /\ worker'.found = worker.found /\ worker'.phase = "idle"
    BY <1>8 DEF Finish, TypeOK, StateTypeOK
  <2>4. m.n <= MaxResults /\ m.n = worker.found + 0
    BY DEF HitsInv, TypeOK, StateTypeOK
  <2> QED
    BY <1>3, <2>1, <2>2, <2>3, <2>4
<1>9. CASE Deliver
  <2>1. inbox # <<>> /\ inbox' = Tail(inbox) /\ UNCHANGED worker
    BY <1>9 DEF Deliver, HandleSearchResult, HandleSearchFinished, HandleErrorOccurred, Receive
  <2>2. /\ Head(inbox) = inbox[1] /\ Len(inbox) >= 1 /\ Head(inbox) \in Message
        /\ Head(inbox).n = delivered + IF Head(inbox).type = "result" THEN 1 ELSE 0
    BY <2>1, HeadTailType DEF HitsInv, HitsBefore, TypeOK, QueueTypeOK
  <2>3. delivered' = HitsAfter(Head(inbox))
    <3>1. CASE HandleSearchResult
      BY <2>2, <3>1 DEF HandleSearchResult, Receive, HitsAfter, Last
    <3>2. CASE HandleSearchFinished
      BY <3>2 DEF HandleSearchFinished, Receive, HitsAfter, Last
    <3>3. CASE HandleErrorOccurred
      BY <2>2, <3>3, ErrorThenFinishAssumption
      DEF HandleErrorOccurred, Receive, HitsAfter, Last, TypeOK, CounterTypeOK
    <3> QED
      BY <1>9, <3>1, <3>2, <3>3 DEF Deliver
  <2> QED
    BY <1>2, <2>1, <2>3
<1>10. ASSUME NEW withCallback \in BOOLEAN, SearchSync(withCallback) PROVE HitsInv'
  BY <1>1, <1>10 DEF SearchSync
<1>11. CASE \/ Search \/ SearchRejected \/ Cancel \/ SetSearchOptions \/ Destroy \/ Timers
            \/ SyncReturn \/ WorkerJoined \/ UNCHANGED vars
  BY <1>1, <1>11 DEF Search, SearchRejected, Cancel, SetSearchOptions, Destroy, Timers,
     BatchTimeout, SyncTimeout, SyncReturn, WorkerJoined, vars
<1> QED
  BY <1>4, <1>5, <1>6, <1>7, <1>8, <1>9, <1>10, <1>11 DEF Next, Client, Worker
\* At searchFinished, equal sizes do mean equal lists: m_results is then the
\* strategy's list, whether handleSearchFinished replaces it or not.
LEMMA Reconciled ==
    ASSUME TypeOK, ResultsInv
    PROVE  ReconciledResults(HitList(answered + 1, delivered)) = HitList(answered + 1, delivered)
<1> DEFINE list == HitList(answered + 1, delivered)
<1>1. /\ list \in Seq(Hit) /\ Len(list) = delivered
      /\ \A k \in 1..delivered : list[k] = [search |-> answered + 1, nth |-> k]
  <2>1. answered + 1 \in Nat /\ delivered \in Nat
    BY DEF TypeOK, CounterTypeOK
  <2> QED
    BY <2>1, HitListType
<1>2. CASE Len(results) # delivered
  BY <1>1, <1>2 DEF ReconciledResults
<1>3. CASE Len(results) = delivered
  <2>1. ASSUME NEW k \in 1..delivered PROVE results[k] = list[k]
    <3>1. k \in 1..Len(results) /\ k + delivered > Len(results)
          /\ k + delivered - Len(results) = k
      BY <1>3 DEF TypeOK, CounterTypeOK
    <3> QED
      BY <1>1, <3>1 DEF ResultsInv
  <2>2. results = list
    BY <1>1, <1>3, <2>1, SeqEqual DEF TypeOK, ListTypeOK
  <2> QED
    BY <2>2 DEF ReconciledResults
<1> QED
  BY <1>2, <1>3

\* The search that ends is the next to be answered, and all its hits have been delivered.
LEMMA FinishedHead ==
    ASSUME TypeOK, OrderInv, HitsInv, HandleSearchFinished
    PROVE  /\ Head(inbox).search = answered + 1 /\ Head(inbox).n = delivered
           /\ delivered \in 0..MaxResults
<1>0. inbox # <<>> /\ Head(inbox).type = "finished"
  BY DEF HandleSearchFinished, Receive
<1>1. /\ Head(inbox).type = "finished" /\ Head(inbox) = inbox[1] /\ 1 \in 1..Len(inbox)
      /\ Head(inbox).search = answered + 1
  BY <1>0, FirstMessage
<1>3. inbox[1].n = delivered + 0 /\ inbox[1].n <= MaxResults
  BY <1>1 DEF HitsInv, HitsBefore
<1> QED
  BY <1>1, <1>3, MaxResultsAssumption DEF TypeOK, CounterTypeOK

\* The tail of m_results remains the delivered hits of the search in progress.
LEMMA ResultsPreserved ==
    ASSUME TypeOK, TypeOK', OrderInv, HitsInv, ResultsInv, [Next]_vars
    PROVE  ResultsInv'
<1> USE DEF mainVars, workerVars, historyVars
<1>1. CASE UNCHANGED <<results, answered, delivered>>
  BY <1>1 DEF ResultsInv
<1>2. CASE results' = <<>>
  BY <1>2 DEF ResultsInv
<1>3. CASE delivered' = 0
  BY <1>3 DEF ResultsInv, TypeOK, ListTypeOK
<1>4. CASE HandleSearchResult
  <2>1. inbox # <<>> /\ Head(inbox).type = "result"
    BY <1>4 DEF HandleSearchResult, Receive
  <2>2. Head(inbox) = inbox[1] /\ Head(inbox).search = answered + 1 /\ 1 \in 1..Len(inbox)
    BY <2>1, FirstMessage
  <2>3. Head(inbox).n = delivered + 1
    <3>1. inbox[1].n = HitsBefore(1) + 1
      BY <2>1, <2>2 DEF HitsInv
    <3> QED
      BY <2>2, <3>1 DEF HitsBefore
  <2> DEFINE hit == [search |-> answered + 1, nth |-> delivered + 1]
  <2>4. results' = Append(results, hit) /\ delivered' = delivered + 1 /\ answered' = answered
    BY <1>4, <2>2, <2>3 DEF HandleSearchResult
  <2>5. /\ Len(results') = Len(results) + 1 /\ results'[Len(results) + 1] = hit
        /\ \A i \in 1..Len(results) : results'[i] = results[i]
    BY <2>4 DEF TypeOK, ListTypeOK
  <2>6. ASSUME NEW i \in 1..Len(results'), i + delivered' > Len(results')
        PROVE  results'[i] = [search |-> answered' + 1, nth |-> i + delivered' - Len(results')]
    <3>1. CASE i \in 1..Len(results)
      <4>1. i + delivered > Len(results)
            /\ i + delivered' - Len(results') = i + delivered - Len(results)
        BY <2>4, <2>5, <2>6 DEF TypeOK, ListTypeOK, CounterTypeOK
      <4> QED
        BY <2>4, <2>5, <3>1, <4>1 DEF ResultsInv
    <3>2. CASE i = Len(results) + 1
      <4>1. i + delivered' - Len(results') = delivered + 1
        BY <2>4, <2>5, <3>2 DEF TypeOK, ListTypeOK, CounterTypeOK
      <4> QED
        BY <2>4, <2>5, <3>2, <4>1
    <3> QED
      BY <2>5, <3>1, <3>2 DEF TypeOK, ListTypeOK
  <2> QED
    BY <2>6 DEF ResultsInv
<1>5. CASE HandleSearchFinished
  BY <1>3, <1>5 DEF HandleSearchFinished
<1>6. CASE HandleErrorOccurred
  BY <1>1, <1>3, <1>6 DEF HandleErrorOccurred
<1>7. ASSUME NEW withCallback \in BOOLEAN, SearchSync(withCallback) PROVE ResultsInv'
  BY <1>2, <1>7 DEF SearchSync
<1>8. CASE Search \/ SearchRejected
  BY <1>2, <1>8 DEF Search, SearchRejected
<1>9. CASE Worker
  BY <1>1, <1>9 DEF Worker, DoSearch, Visit, Exhausted, Report, Fail, Finish, WorkerStep
<1>10. CASE \/ Cancel \/ SetSearchOptions \/ Destroy \/ Timers \/ SyncReturn \/ WorkerJoined
            \/ UNCHANGED vars
  BY <1>1, <1>10 DEF Cancel, SetSearchOptions, Destroy, Timers, BatchTimeout, SyncTimeout,
     SyncReturn, WorkerJoined, vars
<1> QED
  BY <1>4, <1>5, <1>6, <1>7, <1>8, <1>9, <1>10 DEF Next, Client, Deliver

\* Only handleSearchFinished emits searchFinished.
LEMMA OneSearchPreserved ==
    ASSUME TypeOK, TypeOK', OrderInv, HitsInv, ResultsInv, OneSearchPerList, [Next]_vars
    PROVE  OneSearchPerList'
<1> USE DEF mainVars, workerVars, historyVars
<1>1. ASSUME \A i \in 1..Len(output') : output'[i].name # "searchFinished"
      PROVE  OneSearchPerList'
  BY <1>1 DEF OneSearchPerList
<1>2. CASE output' = <<>>
  BY <1>2 DEF OneSearchPerList
<1>3. CASE HandleSearchFinished
  <2>1. /\ Head(inbox).search = answered + 1 /\ Head(inbox).n = delivered
        /\ delivered \in 0..MaxResults
    BY <1>3, FinishedHead
  <2>2. answered' = answered + 1 /\ results' = HitList(answered', delivered)
    BY <1>3, <2>1, Reconciled DEF HandleSearchFinished
  <2>3. \/ output' = <<ListSignal("searchFinished", results')>>
        \/ output' = <<ListSignal("resultsFound", batchResults),
                       ListSignal("searchFinished", results')>>
    <3>1. CASE batchResults = <<>>
      BY <1>3, <3>1 DEF HandleSearchFinished
    <3>2. CASE batchResults # <<>>
      BY <1>3, <3>2, ConcatPair DEF HandleSearchFinished
    <3> QED
      BY <3>1, <3>2
  <2>4. ASSUME NEW i \in 1..Len(output'), output'[i].name = "searchFinished"
        PROVE  output'[i].list = results'
    BY <2>3, <2>4 DEF ListSignal
  <2> QED
    BY <2>1, <2>2, <2>4 DEF OneSearchPerList
<1>4. CASE Search
  BY <1>1, <1>4 DEF Search, Signal
<1>5. CASE SearchRejected
  BY <1>1, <1>5 DEF SearchRejected, Signal
<1>6. CASE Cancel
  <2>1. output' = <<>> \/ output' = <<Signal("searchCancelled")>>
    BY <1>6 DEF Cancel, CancelEffect
  <2> QED
    BY <1>1, <2>1 DEF Signal
<1>7. CASE HandleSearchResult
  <2>1. output' = <<>> \/ output' = <<Signal("searchCancelled")>>
    BY <1>7 DEF HandleSearchResult, CancelEffect
  <2> QED
    BY <1>1, <2>1 DEF Signal
<1>8. CASE HandleErrorOccurred
  BY <1>1, <1>8 DEF HandleErrorOccurred, Signal
<1>9. CASE BatchTimeout
  BY <1>1, <1>9 DEF BatchTimeout, ListSignal
<1>10. CASE SyncReturn
  <2>1. \/ output' = <<Signal("returnedTimeout")>>
        \/ output' = <<Signal("returnedError")>>
        \/ output' = <<ListSignal("returnedResults", results)>>
    BY <1>10 DEF SyncReturn
  <2> QED
    BY <1>1, <2>1 DEF Signal, ListSignal
<1>11. ASSUME NEW withCallback \in BOOLEAN, SearchSync(withCallback) PROVE OneSearchPerList'
  BY <1>2, <1>11 DEF SearchSync
<1>12. CASE SetSearchOptions \/ Destroy \/ SyncTimeout \/ WorkerJoined \/ Worker
  BY <1>2, <1>12 DEF SetSearchOptions, Destroy, SyncTimeout, WorkerJoined, Worker, DoSearch,
     Visit, Exhausted, Report, Fail, Finish, WorkerStep
<1>13. CASE UNCHANGED vars
  BY <1>13 DEF vars, OneSearchPerList
<1> QED
  BY <1>3, <1>4, <1>5, <1>6, <1>7, <1>8, <1>9, <1>10, <1>11, <1>12, <1>13
  DEF Next, Client, Deliver, Timers

\* If the client always asks for single results, the list handed over by
\* searchFinished is the list of the search that ended, and of no other.
THEOREM FinishedListsAreOwn ==
    ASSUME ResultFoundChoices = {TRUE}
    PROVE  Spec => []OneSearchPerList
<1> DEFINE IInv == OrderInv /\ LiveInv /\ HitsInv /\ ResultsInv /\ OneSearchPerList
<1>1. Init => IInv
  <2> SUFFICES ASSUME Init PROVE IInv
    OBVIOUS
  <2>1. OrderInv
    BY DEF Init, OrderInv, SearchBefore
  <2>2. LiveInv
    BY DEF Init, LiveInv, LiveIs
  <2>3. HitsInv
    BY MaxResultsAssumption DEF Init, HitsInv, HitsBefore
  <2>4. ResultsInv /\ OneSearchPerList
    BY DEF Init, ResultsInv, OneSearchPerList
  <2> QED
    BY <2>1, <2>2, <2>3, <2>4
<1>2. TypeOK /\ TypeOK' /\ IInv /\ [Next]_vars => IInv'
  BY OrderPreserved, LivePreserved, HitsPreserved, ResultsPreserved, OneSearchPreserved
  DEF LiveInv
<1> QED
  BY <1>1, <1>2, TypeCorrect, PTL DEF Spec

-----------------------------------------------------------------------------
(* The flag that cancel() leaves up *)

\* A hit of a cancelled search that the strategy has tested the flag for and not reported yet.
PastTheCheck == IF worker.phase = "match" /\ worker.search <= cancelPoint THEN 1 ELSE 0

\* CancelHonoured counts that hit in advance: once the flag is up, it is the last one.
FlagInv == cancelled => late + PastTheCheck <= 1

\* However the two threads interleave, a strategy that the flag reaches reports
\* at most the hit that was past its check (every strategy, every maxResults).
THEOREM CancelStopsReports == Spec => []CancelHonoured
<1>1. Init => FlagInv
  BY DEF Init, FlagInv
<1>2. TypeOK /\ FlagInv /\ [Next]_vars => FlagInv'
  <2> SUFFICES ASSUME TypeOK, FlagInv, [Next]_vars PROVE FlagInv'
    OBVIOUS
  <2> USE DEF mainVars, workerVars, historyVars, FlagInv, PastTheCheck, TypeOK, StateTypeOK,
              CounterTypeOK, FlagTypeOK
  <2>1. CASE Search \/ SearchRejected
    BY <2>1 DEF Search, SearchRejected
  <2>2. ASSUME NEW withCallback \in BOOLEAN, SearchSync(withCallback) PROVE FlagInv'
    BY <2>2 DEF SearchSync
  <2>3. ASSUME late' = 0 PROVE FlagInv'
    BY <2>3
  <2>4. CASE UNCHANGED <<cancelled, late, worker, cancelPoint>>
    BY <2>4
  <2>5. CASE Cancel
    BY <2>3, <2>5 DEF Cancel, CancelEffect
  <2>6. CASE HandleSearchResult
    BY <2>3, <2>4, <2>6 DEF HandleSearchResult, CancelEffect
  <2>7. CASE SyncReturn
    BY <2>3, <2>4, <2>7 DEF SyncReturn
  <2>8. ASSUME UNCHANGED <<cancelled, late, cancelPoint>>,
               worker'.phase = "match" => ~cancelled
        PROVE  FlagInv'
    BY <2>8
  <2>9. CASE DoSearch
    BY <2>8, <2>9 DEF DoSearch, WorkerStep
  <2>10. CASE Visit \/ Exhausted
    BY <2>8, <2>10 DEF Visit, Exhausted, StopRequested, WorkerStep
  <2>11. CASE Report
    <3>1. UNCHANGED <<cancelled, cancelPoint>> /\ worker.phase = "match" /\ worker'.phase = "scan"
      BY <2>11 DEF Report, WorkerStep
    <3>2. CASE worker.search <= cancelPoint
      BY <2>11, <3>1, <3>2 DEF Report
    <3>3. CASE ~(worker.search <= cancelPoint)
      BY <2>11, <3>1, <3>3 DEF Report
    <3> QED
      BY <3>2, <3>3
  <2>12. CASE Fail \/ Finish
    BY <2>8, <2>12, ErrorThenFinishAssumption DEF Fail, Finish, WorkerStep
  <2>13. CASE \/ SetSearchOptions \/ Destroy \/ HandleSearchFinished \/ HandleErrorOccurred
              \/ Timers \/ WorkerJoined \/ UNCHANGED vars
    BY <2>4, <2>13 DEF SetSearchOptions, Destroy, HandleSearchFinished, HandleErrorOccurred,
       Timers, BatchTimeout, SyncTimeout, WorkerJoined, vars
  <2> QED
    BY <2>1, <2>2, <2>5, <2>6, <2>7, <2>9, <2>10, <2>11, <2>12, <2>13
    DEF Next, Client, Deliver, Worker
<1>3. TypeOK /\ FlagInv => CancelHonoured
  BY DEF FlagInv, PastTheCheck, CancelHonoured, TypeOK, CounterTypeOK
<1> QED
  BY <1>1, <1>2, <1>3, TypeCorrect, PTL DEF Spec

-----------------------------------------------------------------------------
(* One search in flight: nothing else was asked of the engine since it began *)

\* Nothing is asked before the search that started last is answered.
Single == searches <= answered + 1

\* The worker is through with a search before its end is delivered, and runs no other.
EndKnown ==
    \A i \in 1..Len(inbox) :
        inbox[i].type = "finished" => inbox[i].n = worker.found /\ worker.phase = "idle"

\* The search asks for single results: m_results holds the hits delivered so far.
LiveFlight ==
    /\ LiveIs(TRUE) /\ HitsInv /\ ResultsInv
    /\ answered < searches => Len(results) = delivered
    /\ Single /\ EndKnown

\* It does not: no hit is posted, and m_results is empty until the search ends.
QuietFlight ==
    /\ LiveIs(FALSE)
    /\ \A i \in 1..Len(inbox) : inbox[i].type # "result"
    /\ answered < searches => results = <<>>
    /\ Single /\ EndKnown

\* Without a search in flight no delivered hit waits for its end.
IdleInv == NothingInFlight => delivered = 0

\* A strategy stops at maxResults.
FoundInv == worker.found <= MaxResults /\ (worker.phase = "match" => worker.found < MaxResults)

\* Requests are answered in order, so when all are answered the queues and the worker are empty.
LEMMA NothingLeft ==
    ASSUME TypeOK, OrderInv, NothingInFlight
    PROVE  /\ inbox = <<>> /\ requests = <<>> /\ worker.phase = "idle"
           /\ worker.search = searches
<1> USE DEF NothingInFlight
<1>1. inbox = <<>>
  <2>1. answered = searches /\ searches \in Nat
    BY DEF TypeOK, CounterTypeOK
  <2> QED
    BY <2>1, FirstMessage
<1>2. SearchBefore(Len(inbox) + 1) = answered + 1
  <2>1. Len(inbox) + 1 = 1
    BY <1>1
  <2> QED
    BY <2>1 DEF SearchBefore
<1>3. Len(requests) \in Nat /\ worker.search \in Nat /\ answered \in Nat
  BY DEF TypeOK, QueueTypeOK, StateTypeOK, CounterTypeOK
<1>4. answered + 1 = IF worker.phase = "idle" THEN worker.search + 1 ELSE worker.search
  BY <1>2 DEF OrderInv
<1>5. answered = worker.search + Len(requests)
  BY DEF OrderInv
<1>6. worker.phase = "idle" /\ worker.search = answered /\ Len(requests) = 0
  BY <1>3, <1>4, <1>5
<1> QED
  BY <1>1, <1>6 DEF TypeOK, QueueTypeOK

\* No answer is given before the request.
LEMMA AnsweredBound == TypeOK /\ OrderInv => answered <= searches
<1> SUFFICES ASSUME TypeOK, OrderInv PROVE answered <= searches
  OBVIOUS
<1>1. Len(requests) \in Nat /\ worker.search \in Nat /\ answered \in Nat /\ searches \in Nat
  BY DEF TypeOK, QueueTypeOK, StateTypeOK, CounterTypeOK
<1>2. CASE inbox # <<>>
  BY <1>1, <1>2, FirstMessage
<1>3. CASE inbox = <<>>
  <2>1. Len(inbox) + 1 = 1
    BY <1>3
  <2>2. answered + 1 = IF worker.phase = "idle" THEN worker.search + 1 ELSE worker.search
    BY <2>1 DEF OrderInv, SearchBefore
  <2>3. searches = worker.search + Len(requests)
    BY DEF OrderInv
  <2> QED
    BY <1>1, <2>2, <2>3
<1> QED
  BY <1>2, <1>3

\* While the only search in flight is queued, nothing of it can be posted yet.
LEMMA QueuedSingle ==
    ASSUME TypeOK, OrderInv, Single, requests # <<>>
    PROVE  inbox = <<>>
<1>1. Len(requests) \in Nat /\ Len(requests) >= 1 /\ worker.search \in Nat /\ answered \in Nat
  BY DEF TypeOK, QueueTypeOK, StateTypeOK, CounterTypeOK
<1>2. searches = worker.search + Len(requests) /\ searches <= answered + 1
  BY DEF OrderInv, Single
<1>3. ~(answered + 1 <= worker.search)
  BY <1>1, <1>2
<1> QED
  BY <1>3, FirstMessage

\* IdleInv survives every step: the last signal of a search resets delivered.
LEMMA IdlePreserved ==
    ASSUME TypeOK, TypeOK', OrderInv, OrderInv', IdleInv, [Next]_vars
    PROVE  IdleInv'
<1> USE DEF mainVars, workerVars, historyVars, IdleInv, NothingInFlight
<1>1. CASE UNCHANGED <<answered, searches, delivered>>
  BY <1>1
<1>2. CASE delivered' = 0
  BY <1>2
<1>3. ASSUME searches' = searches + 1, UNCHANGED answered PROVE IdleInv'
  BY <1>3, AnsweredBound DEF TypeOK, CounterTypeOK
<1>4. CASE Search
  BY <1>3, <1>4 DEF Search, EmitRequest
<1>5. ASSUME NEW withCallback \in BOOLEAN, SearchSync(withCallback) PROVE IdleInv'
  BY <1>3, <1>5 DEF SearchSync
<1>6. CASE HandleSearchResult
  <2>1. answered < searches /\ UNCHANGED <<answered, searches>>
    BY <1>6, FirstMessage DEF HandleSearchResult, Receive
  <2> QED
    BY <2>1 DEF TypeOK, CounterTypeOK
<1>7. CASE HandleSearchFinished
  BY <1>2, <1>7 DEF HandleSearchFinished
<1>8. CASE HandleErrorOccurred
  BY <1>1, <1>2, <1>8 DEF HandleErrorOccurred
<1>9. CASE Worker
  BY <1>1, <1>9 DEF Worker, DoSearch, Visit, Exhausted, Report, Fail, Finish, WorkerStep
<1>10. CASE \/ SearchRejected \/ Cancel \/ SetSearchOptions \/ Destroy \/ Timers \/ SyncReturn
            \/ WorkerJoined \/ UNCHANGED vars
  BY <1>1, <1>10 DEF SearchRejected, Cancel, SetSearchOptions, Destroy, Timers, BatchTimeout,
     SyncTimeout, SyncReturn, WorkerJoined, vars
<1> QED
  BY <1>4, <1>5, <1>6, <1>7, <1>8, <1>9, <1>10 DEF Next, Client, Deliver

\* FoundInv survives every step: the limit is tested before each hit.
LEMMA FoundPreserved == ASSUME TypeOK, FoundInv, [Next]_vars PROVE FoundInv'
<1> USE DEF mainVars, workerVars, historyVars, FoundInv
<1>1. CASE UNCHANGED worker
  BY <1>1
<1>2. CASE DoSearch
  BY <1>2, MaxResultsAssumption DEF DoSearch
<1>3. CASE Visit \/ Exhausted
  BY <1>3, MaxResultsAssumption
  DEF Visit, Exhausted, StopRequested, TypeOK, StateTypeOK
<1>4. CASE Report
  BY <1>4, MaxResultsAssumption DEF Report, TypeOK, StateTypeOK
<1>5. CASE Fail \/ Finish
  BY <1>5, ErrorThenFinishAssumption DEF Fail, Finish, TypeOK, StateTypeOK
<1>6. ASSUME NEW withCallback \in BOOLEAN, SearchSync(withCallback) PROVE FoundInv'
  BY <1>1, <1>6 DEF SearchSync
<1>7. CASE \/ Search \/ SearchRejected \/ Cancel \/ SetSearchOptions \/ Destroy \/ Deliver
           \/ Timers \/ SyncReturn \/ WorkerJoined \/ UNCHANGED vars
  BY <1>1, <1>7 DEF Search, SearchRejected, Cancel, SetSearchOptions, Destroy, Deliver,
     HandleSearchResult, HandleSearchFinished, HandleErrorOccurred, Timers, BatchTimeout,
     SyncTimeout, SyncReturn, WorkerJoined, vars
<1> QED
  BY <1>2, <1>3, <1>4, <1>5, <1>6, <1>7 DEF Next, Client, Worker

\* While no search is added, Single and EndKnown stay.
LEMMA SingleKept ==
    ASSUME TypeOK, TypeOK', OrderInv, Single, EndKnown, [Next]_vars, UNCHANGED searches
    PROVE  Single' /\ EndKnown'
<1> USE DEF mainVars, workerVars, historyVars
<1>1. ASSUME inbox # <<>>, inbox' = Tail(inbox), UNCHANGED worker,
             answered' = answered \/ answered' = Head(inbox).search
      PROVE  Single' /\ EndKnown'
  <2>1. answered' = answered \/ answered' = answered + 1
    BY <1>1, FirstMessage
  <2>2. Single'
    <3>1. answered \in Nat /\ searches \in Nat
      BY DEF TypeOK, CounterTypeOK
    <3> QED
      BY <2>1, <3>1 DEF Single
  <2>3. Len(inbox') = Len(inbox) - 1 /\ \A i \in 1..Len(inbox') : inbox'[i] = inbox[i + 1]
    BY <1>1 DEF TypeOK, QueueTypeOK
  <2>4. \A i \in 1..Len(inbox') : i + 1 \in 1..Len(inbox)
    BY <1>1, <2>3 DEF TypeOK, QueueTypeOK
  <2>5. EndKnown'
    BY <1>1, <2>3, <2>4 DEF EndKnown
  <2> QED
    BY <2>2, <2>5
<1>2. CASE UNCHANGED <<worker, inbox, answered>>
  BY <1>2 DEF Single, EndKnown
<1>3. CASE DoSearch
  <2>1. inbox = <<>> /\ UNCHANGED <<inbox, answered>>
    BY <1>3, QueuedSingle DEF DoSearch, WorkerStep
  <2> QED
    BY <2>1 DEF Single, EndKnown
<1>4. ASSUME NEW m \in Message, inbox' = Append(inbox, m) \/ inbox' = inbox, UNCHANGED answered,
             worker.phase # "idle",
             inbox' # inbox /\ m.type = "finished" => m.n = worker'.found /\ worker'.phase = "idle"
      PROVE  Single' /\ EndKnown'
  <2>1. \A i \in 1..Len(inbox) : inbox[i].type # "finished"
    BY <1>4 DEF EndKnown
  <2>2. CASE inbox' = inbox
    BY <1>4, <2>1, <2>2 DEF Single, EndKnown
  <2>3. CASE inbox' = Append(inbox, m)
    <3>1. Len(inbox') = Len(inbox) + 1 /\ inbox'[Len(inbox) + 1] = m
          /\ \A i \in 1..Len(inbox) : inbox'[i] = inbox[i]
      BY <2>3 DEF TypeOK, QueueTypeOK
    <3>2. \A i \in 1..Len(inbox') : i \in 1..Len(inbox) \/ i = Len(inbox) + 1
      BY <3>1 DEF TypeOK, QueueTypeOK
    <3>3. inbox' # inbox
      BY <3>1 DEF TypeOK, QueueTypeOK
    <3> QED
      BY <1>4, <2>1, <3>1, <3>2, <3>3 DEF Single, EndKnown
  <2> QED
    BY <1>4, <2>2, <2>3
<1>5. CASE Visit \/ Exhausted
  <2>1. worker.phase # "idle" /\ UNCHANGED <<inbox, answered>>
    BY <1>5 DEF Visit, Exhausted, WorkerStep
  <2>2. [type |-> "error", search |-> 0, n |-> 0] \in Message
    BY DEF Message
  <2> QED
    BY <1>4, <2>1, <2>2
<1>6. CASE Report
  <2> DEFINE m == [type |-> "result", search |-> worker.search, n |-> worker.found + 1]
  <2>1. m \in Message /\ m.type # "finished"
    BY DEF Message, TypeOK, StateTypeOK
  <2>2. worker.phase # "idle" /\ UNCHANGED answered
        /\ (inbox' = Append(inbox, m) \/ inbox' = inbox)
    BY <1>6 DEF Report, WorkerStep
  <2> HIDE DEF m
  <2> QED
    BY <1>4, <2>1, <2>2
<1>7. CASE Fail
  <2> DEFINE m == [type |-> "error", search |-> worker.search, n |-> worker.found]
  <2>1. m \in Message /\ m.type # "finished"
    BY DEF Message, TypeOK, StateTypeOK
  <2>2. worker.phase # "idle" /\ UNCHANGED answered /\ inbox' = Append(inbox, m)
    BY <1>7 DEF Fail, Post, WorkerStep
  <2> HIDE DEF m
  <2> QED
    BY <1>4, <2>1, <2>2
<1>8. CASE Finish
  <2> DEFINE m == [type |-> "finished", search |-> worker.search, n |-> worker.found]
  <2>1. m \in Message /\ m.n = worker.found
    BY DEF Message, TypeOK, StateTypeOK
  <2>2. worker.phase # "idle" /\ UNCHANGED answered /\ inbox' = Append(inbox, m)
    BY <1>8 DEF Finish, Post, WorkerStep
  <2>3. worker'.found = worker.found /\ worker'.phase = "idle"
    BY <1>8 DEF Finish, TypeOK, StateTypeOK
  <2> HIDE DEF m
  <2> QED
    BY <1>4, <2>1, <2>2, <2>3
<1>9. CASE Deliver
  BY <1>1, <1>9 DEF Deliver, HandleSearchResult, HandleSearchFinished, HandleErrorOccurred,
     Receive
<1>10. CASE Search
  BY <1>10 DEF Search, EmitRequest, TypeOK, CounterTypeOK
<1>11. ASSUME NEW withCallback \in BOOLEAN, SearchSync(withCallback) PROVE FALSE
  BY <1>11 DEF SearchSync, TypeOK, CounterTypeOK
<1>12. CASE \/ SearchRejected \/ Cancel \/ SetSearchOptions \/ Destroy \/ Timers \/ SyncReturn
            \/ WorkerJoined \/ UNCHANGED vars
  BY <1>2, <1>12 DEF SearchRejected, Cancel, SetSearchOptions, Destroy, Timers, BatchTimeout,
     SyncTimeout, SyncReturn, WorkerJoined, vars
<1> QED
  BY <1>3, <1>5, <1>6, <1>7, <1>8, <1>9, <1>10, <1>11, <1>12 DEF Next, Client, Worker

\* A search that asks for single results stays complete in m_results until the client acts.
LEMMA LiveFlightKept ==
    ASSUME TypeOK, TypeOK', OrderInv, LiveFlight, [Next]_vars, UNCHANGED searches,
           ~SearchRejected
    PROVE  LiveFlight'
<1> USE DEF mainVars, workerVars, historyVars
<1>1. LiveIs(TRUE)' /\ HitsInv' /\ ResultsInv' /\ Single' /\ EndKnown'
  BY LiveKept, HitsPreserved, ResultsPreserved, SingleKept DEF LiveFlight
<1>2. answered' < searches' => Len(results') = delivered'
  <2>1. CASE UNCHANGED <<answered, delivered, results>>
    BY <2>1 DEF LiveFlight
  <2>2. CASE HandleSearchResult
    <3>1. UNCHANGED answered /\ delivered' = delivered + 1 /\ Len(results') = Len(results) + 1
      BY <2>2 DEF HandleSearchResult, TypeOK, ListTypeOK
    <3>2. answered < searches
      BY <2>2, FirstMessage DEF HandleSearchResult, Receive
    <3> QED
      BY <3>1, <3>2 DEF LiveFlight
  <2>3. ASSUME inbox # <<>>, answered' = Head(inbox).search PROVE ~(answered' < searches')
    <3>1. answered' = answered + 1
      BY <2>3, FirstMessage
    <3> QED
      BY <3>1 DEF LiveFlight, Single, TypeOK, CounterTypeOK
  <2>4. CASE HandleSearchFinished
    BY <2>3, <2>4 DEF HandleSearchFinished, Receive
  <2>5. CASE HandleErrorOccurred
    BY <2>1, <2>3, <2>5 DEF HandleErrorOccurred, Receive
  <2>6. CASE Search
    BY <2>6 DEF Search, EmitRequest, TypeOK, CounterTypeOK
  <2>7. ASSUME NEW withCallback \in BOOLEAN, SearchSync(withCallback) PROVE FALSE
    BY <2>7 DEF SearchSync, TypeOK, CounterTypeOK
  <2>8. CASE Worker
    BY <2>1, <2>8 DEF Worker, DoSearch, Visit, Exhausted, Report, Fail, Finish, WorkerStep
  <2>9. CASE \/ Cancel \/ SetSearchOptions \/ Destroy \/ Timers \/ SyncReturn \/ WorkerJoined
             \/ UNCHANGED vars
    BY <2>1, <2>9 DEF Cancel, SetSearchOptions, Destroy, Timers, BatchTimeout, SyncTimeout,
       SyncReturn, WorkerJoined, vars
  <2> QED
    BY <2>2, <2>4, <2>5, <2>6, <2>7, <2>8, <2>9 DEF Next, Client, Deliver
<1> QED
  BY <1>1, <1>2 DEF LiveFlight

\* A search that does not ask for them posts its end and nothing else.
LEMMA QuietFlightKept ==
    ASSUME TypeOK, TypeOK', OrderInv, QuietFlight, [Next]_vars, UNCHANGED searches,
           ~SearchRejected
    PROVE  QuietFlight'
<1> USE DEF mainVars, workerVars, historyVars
<1>1. LiveIs(FALSE)' /\ Single' /\ EndKnown'
  BY LiveKept, SingleKept DEF QuietFlight
<1>2. ASSUME inbox # <<>>, inbox' = Tail(inbox)
      PROVE  \A i \in 1..Len(inbox') : inbox'[i].type # "result"
  <2>1. Len(inbox') = Len(inbox) - 1 /\ \A i \in 1..Len(inbox') : inbox'[i] = inbox[i + 1]
    BY <1>2 DEF TypeOK, QueueTypeOK
  <2>2. \A i \in 1..Len(inbox') : i + 1 \in 1..Len(inbox)
    BY <1>2, <2>1 DEF TypeOK, QueueTypeOK
  <2> QED
    BY <2>1, <2>2 DEF QuietFlight
<1>3. ASSUME NEW m \in Message, inbox' = Append(inbox, m), m.type # "result"
      PROVE  \A i \in 1..Len(inbox') : inbox'[i].type # "result"
  <2>1. Len(inbox') = Len(inbox) + 1 /\ inbox'[Len(inbox) + 1] = m
        /\ \A i \in 1..Len(inbox) : inbox'[i] = inbox[i]
    BY <1>3 DEF TypeOK, QueueTypeOK
  <2>2. \A i \in 1..Len(inbox') : i \in 1..Len(inbox) \/ i = Len(inbox) + 1
    BY <2>1 DEF TypeOK, QueueTypeOK
  <2> QED
    BY <1>3, <2>1, <2>2 DEF QuietFlight
<1>4. ASSUME UNCHANGED inbox
      PROVE  \A i \in 1..Len(inbox') : inbox'[i].type # "result"
  BY <1>4 DEF QuietFlight
<1>5. ASSUME inbox # <<>>, answered' = Head(inbox).search PROVE ~(answered' < searches')
  <2>1. answered' = answered + 1
    BY <1>5, FirstMessage
  <2> QED
    BY <2>1 DEF QuietFlight, Single, TypeOK, CounterTypeOK
<1>6. ASSUME UNCHANGED <<answered, results>> PROVE answered' < searches' => results' = <<>>
  BY <1>6 DEF QuietFlight
<1> DEFINE Quiet == /\ \A i \in 1..Len(inbox') : inbox'[i].type # "result"
                    /\ answered' < searches' => results' = <<>>
<1> SUFFICES Quiet
  BY <1>1 DEF QuietFlight
<1>7. CASE HandleSearchResult
  <2>1. inbox # <<>> /\ Head(inbox).type = "result"
    BY <1>7 DEF HandleSearchResult, Receive
  <2> QED
    BY <2>1, FirstMessage DEF QuietFlight
<1>8. CASE HandleSearchFinished
  BY <1>2, <1>5, <1>8 DEF HandleSearchFinished, Receive
<1>9. CASE HandleErrorOccurred
  BY <1>2, <1>5, <1>6, <1>9 DEF HandleErrorOccurred, Receive
<1>10. CASE Search
  BY <1>10 DEF Search, EmitRequest, TypeOK, CounterTypeOK
<1>11. ASSUME NEW withCallback \in BOOLEAN, SearchSync(withCallback) PROVE FALSE
  BY <1>11 DEF SearchSync, TypeOK, CounterTypeOK
<1>12. CASE Report
  <2>1. worker.live = FALSE
    BY <1>12 DEF Report, QuietFlight, LiveIs
  <2> QED
    BY <1>4, <1>6, <1>12, <2>1 DEF Report, WorkerStep
<1>13. CASE Fail
  <2> DEFINE m == [type |-> "error", search |-> worker.search, n |-> worker.found]
  <2>1. m \in Message /\ m.type # "result" /\ inbox' = Append(inbox, m)
        /\ UNCHANGED <<answered, results>>
    BY <1>13 DEF Fail, Post, WorkerStep, Message, TypeOK, StateTypeOK
  <2> HIDE DEF m
  <2> QED
    BY <1>3, <1>6, <2>1
<1>14. CASE Finish
  <2> DEFINE m == [type |-> "finished", search |-> worker.search, n |-> worker.found]
  <2>1. m \in Message /\ m.type # "result" /\ inbox' = Append(inbox, m)
        /\ UNCHANGED <<answered, results>>
    BY <1>14 DEF Finish, Post, WorkerStep, Message, TypeOK, StateTypeOK
  <2> HIDE DEF m
  <2> QED
    BY <1>3, <1>6, <2>1
<1>15. CASE DoSearch \/ Visit \/ Exhausted
  BY <1>4, <1>6, <1>15 DEF DoSearch, Visit, Exhausted, WorkerStep
<1>16. CASE \/ Cancel \/ SetSearchOptions \/ Destroy \/ Timers \/ SyncReturn \/ WorkerJoined
            \/ UNCHANGED vars
  BY <1>4, <1>6, <1>16 DEF Cancel, SetSearchOptions, Destroy, Timers, BatchTimeout, SyncTimeout,
     SyncReturn, WorkerJoined, vars
<1> HIDE DEF Quiet
<1> QED
  BY <1>7, <1>8, <1>9, <1>10, <1>11, <1>12, <1>13, <1>14, <1>15, <1>16
  DEF Next, Client, Deliver, Worker

\* A search that starts when none is in flight, with an empty m_results, is the only one.
LEMMA FlightStarts ==
    ASSUME TypeOK, OrderInv, IdleInv, FoundInv, NothingInFlight, NEW on \in BOOLEAN,
           requests' = Append(requests, [search |-> searches + 1, live |-> on]),
           searches' = searches + 1, results' = <<>>,
           UNCHANGED <<worker, inbox, answered, delivered>>
    PROVE  IF on THEN LiveFlight' ELSE QuietFlight'
<1>1. inbox = <<>> /\ requests = <<>> /\ worker.phase = "idle"
  BY NothingLeft
<1>2. requests' = <<[search |-> searches + 1, live |-> on]>>
  BY <1>1
<1>3. LiveIs(on)'
  BY <1>1, <1>2 DEF LiveIs
<1>4. Single' /\ EndKnown'
  BY <1>1 DEF Single, EndKnown, NothingInFlight, TypeOK, CounterTypeOK
<1>5. HitsInv'
  <2>1. Len(inbox') = 0 /\ HitsBefore(1)' = 0
    BY <1>1 DEF IdleInv, HitsBefore
  <2> QED
    BY <1>1, <2>1 DEF HitsInv, FoundInv
<1>6. ResultsInv' /\ Len(results') = delivered'
  BY DEF ResultsInv, IdleInv
<1>7. \A i \in 1..Len(inbox') : inbox'[i].type # "result"
  BY <1>1
<1>8. CASE on = TRUE
  BY <1>3, <1>4, <1>5, <1>6, <1>8 DEF LiveFlight
<1>9. CASE on = FALSE
  BY <1>3, <1>4, <1>7, <1>9 DEF QuietFlight
<1> QED
  BY <1>8, <1>9

\* The end of the search in flight comes with as many hits as m_results holds.
LEMMA LiveFlightEnds ==
    ASSUME TypeOK, OrderInv, LiveFlight, HandleSearchFinished
    PROVE  results' = results /\ results = HitList(answered + 1, delivered)
<1>1. inbox # <<>>
  BY DEF HandleSearchFinished, Receive
<1>2. /\ Head(inbox).search = answered + 1 /\ Head(inbox).n = delivered
      /\ answered < searches
  BY <1>1, FinishedHead, FirstMessage DEF LiveFlight
<1>3. Len(results) = delivered
  BY <1>2 DEF LiveFlight
<1>4. ReconciledResults(HitList(answered + 1, delivered)) = HitList(answered + 1, delivered)
  BY Reconciled DEF LiveFlight
<1>5. Len(HitList(answered + 1, delivered)) = delivered
  BY HitListType DEF TypeOK, CounterTypeOK
<1>6. results' = ReconciledResults(HitList(answered + 1, delivered))
  BY <1>2 DEF HandleSearchFinished
<1> QED
  BY <1>3, <1>4, <1>5, <1>6 DEF ReconciledResults

\* The search that started last, as long as the client does nothing else, is complete
\* in m_results, and resultsFound has announced it up to what waits in the batch.
CleanInv == clean => LiveFlight /\ announced \o batchResults = results

\* Emitting the batch moves it to what was announced; a new hit joins batch and m_results.
LEMMA ConcatAppend ==
    ASSUME NEW S, NEW s \in Seq(S), NEW t \in Seq(S), NEW e \in S
    PROVE  s \o Append(t, e) = Append(s \o t, e) /\ s \o <<>> = s
OBVIOUS

\* CleanInv survives every step.
LEMMA CleanPreserved ==
    ASSUME TypeOK, TypeOK', OrderInv, IdleInv, FoundInv, CleanInv, [Next]_vars
    PROVE  CleanInv'
<1> USE DEF mainVars, workerVars, historyVars
<1>1. ASSUME clean' = FALSE PROVE CleanInv'
  BY <1>1 DEF CleanInv
<1>2. CASE Search
  <2>1. CASE NothingInFlight /\ resultFound
    <3>1. LiveFlight'
      <4>1. resultFound = TRUE
        BY <2>1 DEF TypeOK, FlagTypeOK
      <4>2. requests' = Append(requests, [search |-> searches + 1, live |-> TRUE])
        BY <1>2, <4>1 DEF Search, EmitRequest
      <4>3. /\ searches' = searches + 1 /\ results' = <<>>
            /\ UNCHANGED <<worker, inbox, answered, delivered>>
        BY <1>2 DEF Search, EmitRequest
      <4> QED
        BY <2>1, <4>2, <4>3, FlightStarts
    <3>2. announced' \o batchResults' = results'
      BY <1>2 DEF Search
    <3> QED
      BY <3>1, <3>2 DEF CleanInv
  <2>2. CASE ~(NothingInFlight /\ resultFound)
    <3>1. clean' = (NothingInFlight /\ resultFound)
      BY <1>2 DEF Search
    <3>2. ~clean'
      BY <2>2, <3>1
    <3> QED
      BY <3>2 DEF CleanInv
  <2> QED
    BY <2>1, <2>2
<1>3. CASE SearchRejected
  BY <1>1, <1>3 DEF SearchRejected
<1>4. ASSUME NEW withCallback \in BOOLEAN, SearchSync(withCallback) PROVE CleanInv'
  BY <1>1, <1>4 DEF SearchSync
<1>5. ASSUME UNCHANGED <<searches, clean>>, ~SearchRejected,
             clean => announced' \o batchResults' = results'
      PROVE  CleanInv'
  BY <1>5, LiveFlightKept DEF CleanInv
<1>6. ASSUME UNCHANGED <<searches, clean, announced, batchResults, results>>, ~SearchRejected
      PROVE  CleanInv'
  BY <1>5, <1>6 DEF CleanInv
<1>7. ASSUME announced' = announced \o batchResults, batchResults' = <<>>
      PROVE  announced' \o batchResults' = announced \o batchResults
  BY <1>7, ConcatAppend DEF TypeOK, ListTypeOK
<1>8. CASE BatchTimeout
  <2>1. /\ UNCHANGED <<searches, clean, results, status>>
        /\ announced' = announced \o batchResults /\ batchResults' = <<>>
    BY <1>8 DEF BatchTimeout, EmitBatch
  <2>2. ~SearchRejected
    BY <1>8 DEF BatchTimeout, SearchRejected
  <2> QED
    BY <1>5, <1>7, <2>1, <2>2 DEF CleanInv
<1>9. CASE HandleSearchResult
  <2>1. ~SearchRejected /\ UNCHANGED searches
    BY <1>9 DEF HandleSearchResult, SearchRejected, Receive
  <2>2. CASE clean' = FALSE
    BY <1>1, <2>2
  <2>3. CASE /\ batchResults' = Append(batchResults, results'[Len(results')])
             /\ UNCHANGED clean
    <3> DEFINE hit == [search |-> Head(inbox).search, nth |-> Head(inbox).n]
    <3>1. results' = Append(results, hit) /\ UNCHANGED announced
      BY <1>9 DEF HandleSearchResult
    <3>2. hit \in Hit
      BY <1>9, FirstMessage DEF HandleSearchResult, Receive, Message, Hit
    <3> HIDE DEF hit
    <3>3. results'[Len(results')] = hit
      BY <3>1, <3>2 DEF TypeOK, ListTypeOK
    <3>4. announced \o Append(batchResults, hit) = Append(announced \o batchResults, hit)
      BY <3>2, ConcatAppend DEF TypeOK, ListTypeOK
    <3> QED
      BY <1>5, <2>1, <2>3, <3>1, <3>3, <3>4 DEF CleanInv
  <2> QED
    BY <1>9, <2>2, <2>3 DEF HandleSearchResult
<1>10. CASE HandleSearchFinished
  <2>1. /\ UNCHANGED <<searches, clean>>
        /\ announced' = announced \o batchResults /\ batchResults' = <<>>
    BY <1>10 DEF HandleSearchFinished, EmitBatch
  <2>2. ~SearchRejected
    BY <1>10 DEF HandleSearchFinished, SearchRejected
  <2>3. clean => results' = results
    BY <1>10, LiveFlightEnds DEF CleanInv
  <2> QED
    BY <1>5, <1>7, <2>1, <2>2, <2>3 DEF CleanInv
<1>11. CASE HandleErrorOccurred
  BY <1>6, <1>11 DEF HandleErrorOccurred, SearchRejected, Receive, TypeOK, ListTypeOK
<1>12. ASSUME UNCHANGED <<status, searches, clean, announced, batchResults, results>>
       PROVE  CleanInv'
  <2>1. CASE SearchRejected
    BY <1>3, <2>1
  <2> QED
    BY <1>6, <1>12, <2>1
<1>13. CASE Worker
  BY <1>12, <1>13 DEF Worker, DoSearch, Visit, Exhausted, Report, Fail, Finish, WorkerStep
<1>14. CASE Cancel
  <2>1. CASE SearchRejected
    BY <1>3, <2>1
  <2> QED
    BY <1>6, <1>14, <2>1 DEF Cancel
<1>15. CASE SetSearchOptions \/ Destroy \/ SyncTimeout \/ SyncReturn \/ WorkerJoined \/ UNCHANGED vars
  BY <1>12, <1>15 DEF SetSearchOptions, Destroy, SyncTimeout, SyncReturn, WorkerJoined, vars
<1> QED
  BY <1>2, <1>3, <1>4, <1>8, <1>9, <1>10, <1>11, <1>13, <1>14, <1>15
  DEF Next, Client, Deliver, Timers

\* From searchStarted until the client's next call, what resultsFound announced and
\* what waits in the batch make up m_results, whatever the client asked before and
\* whichever options earlier searches were given.
THEOREM BatchesLoseNothing == Spec => []BatchesMatchResults
<1> DEFINE IInv == OrderInv /\ IdleInv /\ FoundInv /\ CleanInv
<1>1. Init => IInv
  <2> SUFFICES ASSUME Init PROVE IInv
    OBVIOUS
  <2>1. OrderInv /\ IdleInv /\ FoundInv
    BY MaxResultsAssumption DEF Init, OrderInv, SearchBefore, IdleInv, FoundInv
  <2>2. CleanInv
    BY DEF Init, CleanInv
  <2> QED
    BY <2>1, <2>2
<1>2. TypeOK /\ TypeOK' /\ IInv /\ [Next]_vars => IInv'
  BY OrderPreserved, IdlePreserved, FoundPreserved, CleanPreserved
<1>3. IInv => BatchesMatchResults
  BY DEF CleanInv, BatchesMatchResults
<1> QED
  BY <1>1, <1>2, <1>3, TypeCorrect, PTL DEF Spec

-----------------------------------------------------------------------------
(* The synchronous search *)

\* A synchronous search that nothing disturbs: its search is the one in flight, the event
\* loop is only quit by its end, its failure or its timer, and m_results is then its list.
SyncInv ==
    loop.alone /\ loop.state # "idle" =>
        /\ searches = loop.search /\ ~cancelled
        /\ LiveFlight \/ QuietFlight
        /\ loop.state = "quit" /\ loop.timer /\ ~lastError => answered = searches
        /\ answered = searches /\ ~lastError => results = HitList(searches, worker.found)

\* No hit, no list: handleSearchFinished then leaves m_results empty as well.
LEMMA EmptyReconciled ==
    ASSUME NEW s \in Nat, NEW n \in Nat, results = <<>>
    PROVE  ReconciledResults(HitList(s, n)) = HitList(s, n)
<1>1. HitList(s, n) \in Seq(Hit) /\ Len(HitList(s, n)) = n
  BY HitListType
<1>2. CASE n = 0
  BY <1>1, <1>2 DEF ReconciledResults
<1>3. CASE n # 0
  BY <1>1, <1>3 DEF ReconciledResults
<1> QED
  BY <1>2, <1>3

\* The end of a synchronous search leaves m_results equal to the strategy's list.
LEMMA SyncEnds ==
    ASSUME TypeOK, OrderInv, LiveFlight \/ QuietFlight, HandleSearchFinished
    PROVE  answered' = searches /\ results' = HitList(searches, worker.found)
<1>1. inbox # <<>> /\ Head(inbox).type = "finished"
  BY DEF HandleSearchFinished, Receive
<1>2. /\ 1 \in 1..Len(inbox) /\ Head(inbox) = inbox[1] /\ Head(inbox).search = answered + 1
      /\ answered < searches
  BY <1>1, FirstMessage
<1>3. Single /\ EndKnown
  BY DEF LiveFlight, QuietFlight
<1>4. searches = answered + 1
  BY <1>2, <1>3 DEF Single, TypeOK, CounterTypeOK
<1>5. Head(inbox).n = worker.found
  BY <1>1, <1>2, <1>3 DEF EndKnown
<1>6. answered' = searches /\ results' = ReconciledResults(HitList(searches, worker.found))
  BY <1>2, <1>4, <1>5 DEF HandleSearchFinished
<1>7. CASE LiveFlight
  <2>1. Head(inbox).n = delivered
    BY <1>7, FinishedHead DEF LiveFlight
  <2> QED
    BY <1>4, <1>5, <1>6, <1>7, <2>1, Reconciled DEF LiveFlight
<1>8. CASE QuietFlight
  <2>1. results = <<>>
    BY <1>2, <1>8 DEF QuietFlight
  <2>2. searches \in Nat /\ worker.found \in Nat
    BY DEF TypeOK, CounterTypeOK, StateTypeOK
  <2> QED
    BY <1>6, <2>1, <2>2, EmptyReconciled
<1> QED
  BY <1>7, <1>8

\* SyncInv survives every step.
LEMMA SyncPreserved ==
    ASSUME TypeOK, TypeOK', OrderInv, IdleInv, FoundInv, SyncInv, [Next]_vars
    PROVE  SyncInv'
<1> USE DEF mainVars, workerVars, historyVars
<1>1. ASSUME loop'.alone = FALSE PROVE SyncInv'
  BY <1>1 DEF SyncInv
<1>2. CASE Search \/ Cancel
  BY <1>1, <1>2 DEF Search, Cancel, TypeOK, StateTypeOK
<1>3. CASE SearchRejected
  <2>1. loop'.alone = FALSE
    BY <1>3 DEF SearchRejected, QuitLoop, TypeOK, StateTypeOK
  <2> QED
    BY <1>1, <2>1
<1>4. ASSUME NEW withCallback \in BOOLEAN, SearchSync(withCallback) PROVE SyncInv'
  <2>1. /\ requests' = Append(requests, [search |-> searches + 1, live |-> resultFound'])
        /\ searches' = searches + 1 /\ results' = <<>>
        /\ UNCHANGED <<worker, inbox, answered, delivered>>
    BY <1>4 DEF SearchSync
  <2>2. resultFound' \in BOOLEAN
    BY DEF TypeOK, FlagTypeOK
  <2>3. loop'.alone => NothingInFlight
    BY <1>4 DEF SearchSync
  <2>4. NothingInFlight => IF resultFound' THEN LiveFlight' ELSE QuietFlight'
    <3> HIDE DEF mainVars, workerVars, historyVars
    <3> SUFFICES ASSUME NothingInFlight PROVE IF resultFound' THEN LiveFlight' ELSE QuietFlight'
      OBVIOUS
    <3> QED
      BY <2>1, <2>2, FlightStarts
  <2>5. loop'.search = searches' /\ loop'.state = "waiting" /\ ~cancelled'
    BY <1>4 DEF SearchSync
  <2>6. loop'.alone => answered' # searches'
    BY <2>1, <2>3 DEF NothingInFlight, TypeOK, CounterTypeOK
  <2> QED
    BY <2>3, <2>4, <2>5, <2>6 DEF SyncInv
<1>5. ASSUME UNCHANGED <<searches, cancelled, lastError>>, ~SearchRejected,
             loop'.alone /\ loop'.state # "idle" =>
                /\ loop.alone /\ loop.state # "idle" /\ loop'.search = loop.search
                /\ loop'.state = "quit" /\ loop'.timer =>
                      lastError \/ (loop.state = "quit" /\ loop.timer) \/ answered' = searches,
             SyncInv /\ loop.alone /\ loop.state # "idle" /\ answered' = searches /\ ~lastError =>
                results' = HitList(searches, worker'.found),
             answered = searches => answered' = searches
      PROVE  SyncInv'
  <2> SUFFICES ASSUME loop'.alone, loop'.state # "idle" PROVE SyncInv'
    BY DEF SyncInv
  <2>1. loop.alone /\ loop.state # "idle" /\ loop'.search = loop.search
    BY <1>5
  <2>2. LiveFlight' \/ QuietFlight'
    BY <1>5, <2>1, LiveFlightKept, QuietFlightKept DEF SyncInv
  <2>3. searches' = loop'.search /\ ~cancelled'
    BY <1>5, <2>1 DEF SyncInv
  <2>4. loop'.state = "quit" /\ loop'.timer /\ ~lastError' => answered' = searches'
    BY <1>5, <2>1 DEF SyncInv
  <2>5. answered' = searches' /\ ~lastError' => results' = HitList(searches', worker'.found)
    BY <1>5, <2>1
  <2> QED
    BY <2>2, <2>3, <2>4, <2>5 DEF SyncInv
<1>6. ASSUME UNCHANGED <<searches, cancelled, lastError, answered, results, worker>>,
             ~SearchRejected,
             loop'.alone /\ loop'.state # "idle" =>
                /\ loop.alone /\ loop.state # "idle" /\ loop'.search = loop.search
                /\ loop'.state = "quit" /\ loop'.timer => loop.state = "quit" /\ loop.timer
      PROVE  SyncInv'
  BY <1>5, <1>6 DEF SyncInv
<1>7. CASE SyncTimeout
  <2>1. ~SearchRejected
    BY <1>7 DEF SyncTimeout, SearchRejected, QuitLoop, TypeOK, StateTypeOK
  <2>2. /\ loop'.timer = FALSE /\ loop'.alone = loop.alone /\ loop'.search = loop.search
        /\ loop.state # "idle"
    BY <1>7 DEF SyncTimeout, QuitLoop, TypeOK, StateTypeOK
  <2> QED
    BY <1>6, <1>7, <2>1, <2>2 DEF SyncTimeout
<1>8. CASE SyncReturn
  <2>1. loop'.state = "idle"
    BY <1>8 DEF SyncReturn, TypeOK, StateTypeOK
  <2> QED
    BY <2>1 DEF SyncInv
<1>9. ASSUME UNCHANGED <<searches, cancelled, lastError, answered, results, worker, loop>>
      PROVE  SyncInv'
  <2>1. CASE SearchRejected
    BY <1>3, <2>1
  <2> QED
    BY <1>6, <1>9, <2>1
<1>10. CASE SetSearchOptions \/ Destroy \/ BatchTimeout \/ WorkerJoined \/ UNCHANGED vars
  BY <1>9, <1>10 DEF SetSearchOptions, Destroy, BatchTimeout, WorkerJoined, vars
<1>11. CASE HandleSearchResult
  <2>1. ~SearchRejected /\ answered < searches /\ UNCHANGED <<searches, lastError, answered>>
    BY <1>11, FirstMessage DEF HandleSearchResult, SearchRejected, Receive
  <2>2. answered # searches
    BY <2>1 DEF TypeOK, CounterTypeOK
  <2>3. CASE loop' = [loop EXCEPT !.alone = FALSE]
    BY <1>1, <2>3 DEF TypeOK, StateTypeOK
  <2>4. CASE UNCHANGED <<cancelled, loop>>
    BY <1>5, <2>1, <2>2, <2>4
  <2> QED
    BY <1>11, <2>3, <2>4 DEF HandleSearchResult
<1>12. CASE HandleSearchFinished
  <2>1. ~SearchRejected /\ UNCHANGED <<searches, cancelled, lastError, worker>>
    BY <1>12 DEF HandleSearchFinished, SearchRejected
  <2>2. /\ loop'.alone = loop.alone /\ loop'.search = loop.search
        /\ loop'.timer = loop.timer /\ (loop.state = "idle" => loop'.state = "idle")
    BY <1>12 DEF HandleSearchFinished, QuitLoop, TypeOK, StateTypeOK
  <2>3. SyncInv /\ loop.alone /\ loop.state # "idle" =>
            answered' = searches /\ results' = HitList(searches, worker.found)
    BY <1>12, SyncEnds DEF SyncInv
  <2>4. answered < searches
    BY <1>12, FirstMessage DEF HandleSearchFinished, Receive
  <2>5. answered # searches
    BY <2>4 DEF TypeOK, CounterTypeOK
  <2> QED
    BY <1>5, <2>1, <2>2, <2>3, <2>5
<1>13. CASE HandleErrorOccurred
  <2>1. ~SearchRejected /\ UNCHANGED <<searches, cancelled>> /\ lastError' = TRUE
    BY <1>13 DEF HandleErrorOccurred, SearchRejected, Receive, TypeOK, QueueTypeOK
  <2>2. /\ loop'.alone = loop.alone /\ loop'.search = loop.search
        /\ (loop.state = "idle" => loop'.state = "idle")
    BY <1>13 DEF HandleErrorOccurred, QuitLoop, TypeOK, StateTypeOK
  <2>3. loop.alone /\ loop.state # "idle" => LiveFlight' \/ QuietFlight'
    BY <2>1, LiveFlightKept, QuietFlightKept DEF SyncInv
  <2> QED
    BY <2>1, <2>2, <2>3 DEF SyncInv
<1>14. CASE Worker
  <2>1. UNCHANGED <<searches, cancelled, lastError, answered, results, loop>>
    BY <1>14 DEF Worker, DoSearch, Visit, Exhausted, Report, Fail, Finish, WorkerStep
  <2>2. answered # searches
    <3>1. requests # <<>> \/ worker.phase # "idle"
      BY <1>14 DEF Worker, DoSearch, Visit, Exhausted, Report, Fail, Finish
    <3> QED
      BY <3>1, NothingLeft DEF NothingInFlight
  <2>3. CASE SearchRejected
    BY <1>3, <2>3
  <2> QED
    BY <1>5, <2>1, <2>2, <2>3
<1> QED
  BY <1>2, <1>3, <1>4, <1>7, <1>8, <1>10, <1>11, <1>12, <1>13, <1>14
  DEF Next, Client, Deliver, Timers

\* Only doSyncSearch returns a list.
LEMMA SyncReturnsPreserved ==
    ASSUME TypeOK, TypeOK', OrderInv, SyncInv, SyncReturnsOwn, [Next]_vars
    PROVE  SyncReturnsOwn'
<1> USE DEF mainVars, workerVars, historyVars
<1>1. ASSUME \A i \in 1..Len(output') : output'[i].name # "returnedResults"
      PROVE  SyncReturnsOwn'
  BY <1>1 DEF SyncReturnsOwn, ReturnsOwnList
<1>2. CASE output' = <<>>
  BY <1>2 DEF SyncReturnsOwn, ReturnsOwnList
<1>3. CASE SyncReturn
  <2>1. CASE \/ output' = <<Signal("returnedTimeout")>>
             \/ output' = <<Signal("returnedError")>>
    BY <1>1, <2>1 DEF Signal
  <2>2. CASE /\ output' = <<ListSignal("returnedResults", results)>>
             /\ ~(~cancelled /\ lastError) /\ loop.timer
    <3> SUFFICES ASSUME loop'.alone PROVE ReturnsOwnList'
      BY DEF SyncReturnsOwn
    <3>1. loop.alone /\ loop.state = "quit" /\ loop'.search = loop.search /\ UNCHANGED worker
      BY <1>3 DEF SyncReturn, TypeOK, StateTypeOK
    <3>2. searches = loop.search /\ ~cancelled
      BY <3>1 DEF SyncInv
    <3>3. answered = searches /\ results = HitList(searches, worker.found)
      BY <2>2, <3>1, <3>2 DEF SyncInv
    <3>4. worker.search = searches
      BY <3>3, NothingLeft DEF NothingInFlight
    <3>5. \A i \in 1..Len(output') : output'[i].list = results
      BY <2>2 DEF ListSignal
    <3> QED
      BY <3>1, <3>2, <3>3, <3>4, <3>5 DEF ReturnsOwnList, HitList
  <2> QED
    BY <1>3, <2>1, <2>2 DEF SyncReturn
<1>4. CASE Search
  BY <1>1, <1>4 DEF Search, Signal
<1>5. CASE SearchRejected
  BY <1>1, <1>5 DEF SearchRejected, Signal
<1>6. CASE Cancel
  <2>1. output' = <<>> \/ output' = <<Signal("searchCancelled")>>
    BY <1>6 DEF Cancel, CancelEffect
  <2> QED
    BY <1>1, <2>1 DEF Signal
<1>7. CASE HandleSearchResult
  <2>1. output' = <<>> \/ output' = <<Signal("searchCancelled")>>
    BY <1>7 DEF HandleSearchResult, CancelEffect
  <2> QED
    BY <1>1, <2>1 DEF Signal
<1>8. CASE HandleSearchFinished
  <2>1. \/ output' = <<ListSignal("searchFinished", results')>>
        \/ output' = <<ListSignal("resultsFound", batchResults),
                       ListSignal("searchFinished", results')>>
    <3>1. CASE batchResults = <<>>
      BY <1>8, <3>1 DEF HandleSearchFinished
    <3>2. CASE batchResults # <<>>
      BY <1>8, <3>2, ConcatPair DEF HandleSearchFinished
    <3> QED
      BY <3>1, <3>2
  <2> QED
    BY <1>1, <2>1 DEF ListSignal
<1>9. CASE HandleErrorOccurred
  BY <1>1, <1>9 DEF HandleErrorOccurred, Signal
<1>10. CASE BatchTimeout
  BY <1>1, <1>10 DEF BatchTimeout, ListSignal
<1>11. ASSUME NEW withCallback \in BOOLEAN, SearchSync(withCallback) PROVE SyncReturnsOwn'
  BY <1>2, <1>11 DEF SearchSync
<1>12. CASE SetSearchOptions \/ Destroy \/ SyncTimeout \/ WorkerJoined \/ Worker
  BY <1>2, <1>12 DEF SetSearchOptions, Destroy, SyncTimeout, WorkerJoined, Worker, DoSearch,
     Visit, Exhausted, Report, Fail, Finish, WorkerStep
<1>13. CASE UNCHANGED vars
  BY <1>13 DEF vars, SyncReturnsOwn, ReturnsOwnList, HitList
<1> QED
  BY <1>3, <1>4, <1>5, <1>6, <1>7, <1>8, <1>9, <1>10, <1>11, <1>12, <1>13
  DEF Next, Client, Deliver, Timers

\* A searchSync() that nothing disturbs returns its own complete list: for every
\* strategy, every maxResults and every setting of resultFoundEnabled, whatever was
\* searched, cancelled or timed out before it.
THEOREM UndisturbedSyncReturnsOwn == Spec => []SyncReturnsOwn
<1> DEFINE IInv == OrderInv /\ IdleInv /\ FoundInv /\ SyncInv /\ SyncReturnsOwn
<1>1. Init => IInv
  <2> SUFFICES ASSUME Init PROVE IInv
    OBVIOUS
  <2>1. OrderInv /\ IdleInv /\ FoundInv
    BY MaxResultsAssumption DEF Init, OrderInv, SearchBefore, IdleInv, FoundInv
  <2>2. SyncInv /\ SyncReturnsOwn
    BY DEF Init, SyncInv, SyncReturnsOwn
  <2> QED
    BY <2>1, <2>2
<1>2. TypeOK /\ TypeOK' /\ IInv /\ [Next]_vars => IInv'
  BY OrderPreserved, IdlePreserved, FoundPreserved, SyncPreserved, SyncReturnsPreserved
<1> QED
  BY <1>1, <1>2, TypeCorrect, PTL DEF Spec
=============================================================================
