----------------------------- MODULE SearchLedger -----------------------------
(***************************************************************************)
(* What a search engine promises of the requests it hands to its worker:   *)
(* each is answered once, by its last signal (searchFinished, or           *)
(* errorOccurred where the strategy has nothing more to say), in the order *)
(* of the requests, and none is forgotten while the engine exists.         *)
(***************************************************************************)
EXTENDS Naturals

VARIABLES asked,    \* requests made
          answered, \* requests answered
          open      \* the engine exists

ledger == <<asked, answered, open>>

Init == asked = 0 /\ answered = 0 /\ open = TRUE

Ask == open /\ asked' = asked + 1 /\ UNCHANGED <<answered, open>>

Answer == /\ open /\ answered < asked
          /\ answered' = answered + 1
          /\ UNCHANGED <<asked, open>>

Close == open /\ open' = FALSE /\ UNCHANGED <<asked, answered>>

Next == Ask \/ Answer \/ Close

SafeSpec == Init /\ [][Next]_ledger

Spec == SafeSpec /\ WF_ledger(Answer)
=============================================================================
