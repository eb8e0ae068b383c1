------------------------------ MODULE JobLedger ------------------------------
(***************************************************************************)
(* What a device of dfm-mount promises of the calls made on it: each is    *)
(* answered once, at once or later, and none is left without an answer.    *)
(* A call may be answered in the step that makes it.                       *)
(***************************************************************************)
EXTENDS FiniteSets

CONSTANT Calls

VARIABLES asked,    \* calls made
          answered  \* calls whose callback has run, or that have returned

ledger == <<asked, answered>>

Init == asked = {} /\ answered = {}

Ask(c) == c \notin asked /\ asked' = asked \cup {c} /\ UNCHANGED answered

AskAnswered(c) == /\ c \notin asked
                  /\ asked' = asked \cup {c} /\ answered' = answered \cup {c}

Answer(c) == /\ c \in asked \ answered
             /\ answered' = answered \cup {c} /\ UNCHANGED asked

Next == \E c \in Calls : Ask(c) \/ AskAnswered(c) \/ Answer(c)

SafeSpec == Init /\ [][Next]_ledger

Spec == SafeSpec /\ \A c \in Calls : WF_ledger(Answer(c))
=============================================================================
