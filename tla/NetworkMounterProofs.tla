------------------------- MODULE NetworkMounterProofs -------------------------
(***************************************************************************)
(* Proofs about NetworkMounter, for every number of calls, every keyring   *)
(* and however often gvfs asks.                                            *)
(*                                                                         *)
(* The invariant is about one call at a time: what a call has asked its    *)
(* user and been told of, given where it is on its way.                    *)
(***************************************************************************)
EXTENDS NetworkMounter, TLAPS

Ways == {"daemon", "gvfs", "unmount"}
Phases == {"asking", "pool", "request", "finished", "gvfs", "aborted", "answered"}
Errors == {"NoError", "AlreadyMounted", "UserCancelled", "DaemonError", "AnonymousNotAllowed",
           "WrongPasswd", "GioError", "NoReply", "AuthenticationFailed", "Other",
           "NotAuthorizedDismissed", "UserError", "UserFailed"}

CallRecord == [way : Ways, phase : Phases, info : Replies \cup {Nothing, Blank}, logins : Seq(Logins),
               asks : Nat, anonymous : BOOLEAN, err : Errors, result : BOOLEAN]

(* The user has been asked if the dialog is open, and not before the saved   *)
(* logins are used up                                                       *)
AsksFit(call) ==
    /\ call.asks \in {0, 1}
    /\ call.phase = "asking" => call.asks = 1
    /\ call.phase = "request" => call.asks = 0 /\ call.way = "daemon" /\ call.logins = <<>>
    /\ call.logins # <<>> => call.asks = 0 /\ call.way = "daemon" /\ call.phase = "pool"
    /\ call.phase = "gvfs" => call.way = "gvfs"

(* What is told so far                                                      *)
ErrFits(call) ==
    /\ call.result => call.err = "NoError" /\ call.phase \in {"finished", "answered"}
    /\ call.phase \in {"pool", "asking", "request", "gvfs"} => call.err = "NoError"
    /\ call.err = "WrongPasswd" => call.asks = 1 /\ call.info.kind \in Logins
    /\ call.err = "AnonymousNotAllowed" => call.info.kind = "anonymous"
    /\ call.phase = "gvfs" => /\ call.info.kind # "cancelled"
                              /\ call.info.kind = "anonymous" => call.anonymous
                              /\ call.asks = 1 => call.info \in Replies
    /\ call.anonymous => call.way = "gvfs" /\ call.info.kind = "anonymous"
    /\ call.way = "gvfs" /\ call.info.kind = "cancelled" /\ call.phase # "asking"
          => call.err = "UserCancelled"

CallFits(call) == AsksFit(call) /\ ErrFits(call)

IInv ==
    /\ mounted \in BOOLEAN /\ keyring \in Seq(Logins)
    /\ calls \in Seq(CallRecord) /\ Len(calls) <= MaxCalls
    /\ \A c \in DOMAIN calls : CallFits(calls[c])
    /\ pool = {c \in DOMAIN calls : calls[c].phase = "pool"}

-----------------------------------------------------------------------------
(* One call changes, or one is made                                        *)

\* A new call is a call.
LEMMA NewCall ==
    ASSUME NEW way \in Ways, NEW phase \in Phases
    PROVE  Call(way, phase) \in CallRecord
<1>1. Nothing \in Replies \cup {Nothing, Blank} /\ "NoError" \in Errors
  BY DEF Errors
<1>2. <<>> \in Seq(Logins)
  OBVIOUS
<1> QED
  BY <1>1, <1>2 DEF Call, CallRecord

\* A call goes on.
LEMMA CallGoesOn ==
    ASSUME IInv, NEW c \in DOMAIN calls, NEW next \in CallRecord, CallFits(next),
           calls' = [calls EXCEPT ![c] = next],
           pool' = IF next.phase = "pool" THEN pool \cup {c} ELSE pool \ {c},
           mounted' \in BOOLEAN, keyring' \in Seq(Logins)
    PROVE  IInv'
<1>1. /\ calls' \in Seq(CallRecord) /\ Len(calls') = Len(calls) /\ DOMAIN calls' = DOMAIN calls
      /\ calls'[c] = next /\ \A d \in DOMAIN calls : d # c => calls'[d] = calls[d]
  BY DEF IInv
<1>2. \A d \in DOMAIN calls' : CallFits(calls'[d])
  BY <1>1 DEF IInv
<1>3. pool' = {d \in DOMAIN calls' : calls'[d].phase = "pool"}
  BY <1>1 DEF IInv
<1> QED
  BY <1>1, <1>2, <1>3 DEF IInv

\* A call is made.
LEMMA CallMade ==
    ASSUME IInv, Len(calls) < MaxCalls, NEW call \in CallRecord, CallFits(call),
           calls' = Append(calls, call),
           pool' = IF call.phase = "pool" THEN pool \cup {Len(calls) + 1} ELSE pool,
           mounted' \in BOOLEAN, keyring' = keyring
    PROVE  IInv'
<1>1. /\ calls' \in Seq(CallRecord) /\ Len(calls') = Len(calls) + 1
      /\ DOMAIN calls' = DOMAIN calls \cup {Len(calls) + 1} /\ Len(calls) + 1 \notin DOMAIN calls
      /\ calls'[Len(calls) + 1] = call /\ \A d \in DOMAIN calls : calls'[d] = calls[d]
  BY DEF IInv
<1>2. \A d \in DOMAIN calls' : CallFits(calls'[d])
  BY <1>1 DEF IInv
<1>3. pool' = {d \in DOMAIN calls' : calls'[d].phase = "pool"}
  BY <1>1 DEF IInv
<1>4. Len(calls') <= MaxCalls
  BY <1>1, BoundsAssumption DEF IInv
<1> QED
  BY <1>1, <1>2, <1>3, <1>4 DEF IInv

\* The facts about a call that the steps start from.
LEMMA ACall ==
    ASSUME IInv, NEW c \in DOMAIN calls
    PROVE  calls[c] \in CallRecord /\ CallFits(calls[c]) /\ (c \in pool <=> calls[c].phase = "pool")
BY DEF IInv

-----------------------------------------------------------------------------
\* What is read of the keyring, and what it becomes, are logins.
LEMMA SavedLogins ==
    ASSUME keyring \in Seq(Logins)
    PROVE  LoginPasswd \subseteq Seq(Logins)
<1>1. ASSUME NEW lost \in SUBSET DOMAIN keyring
      PROVE  [i \in DOMAIN keyring |-> IF i \in lost THEN "wrong" ELSE keyring[i]] \in Seq(Logins)
  <2>1. \A i \in 1..Len(keyring) : keyring[i] \in Logins
    OBVIOUS
  <2>2. DOMAIN keyring = 1..Len(keyring) /\ Len(keyring) \in Nat
    OBVIOUS
  <2>3. [i \in 1..Len(keyring) |-> IF i \in lost THEN "wrong" ELSE keyring[i]]
           \in [1..Len(keyring) -> Logins]
    BY <2>1 DEF Logins
  <2> QED
    BY <2>2, <2>3
<1>2. <<>> \in Seq(Logins)
  OBVIOUS
<1>3. ASSUME NEW logins \in LoginPasswd PROVE logins \in Seq(Logins)
  <2>1. CASE logins = <<>>
    BY <1>2, <2>1
  <2>2. CASE logins # <<>>
    BY <1>1, <2>2 DEF LoginPasswd
  <2> QED
    BY <2>1, <2>2
<1> QED
  BY <1>3

LEMMA LoginSaved ==
    ASSUME keyring \in Seq(Logins), NEW login \in Logins
    PROVE  SavePasswd(login) \subseteq Seq(Logins)
BY DEF SavePasswd

\* The calls through the daemon.
LEMMA DaemonMade == ASSUME IInv, MountByDaemon PROVE IInv'
<1> DEFINE call == Call("daemon", "pool")
<1>1. /\ Len(calls) < MaxCalls /\ mounted' = mounted /\ keyring' = keyring
      /\ mounted' \in BOOLEAN /\ keyring \in Seq(Logins)
  BY DEF MountByDaemon, IInv
<1>2. call = [way |-> "daemon", phase |-> "pool", info |-> Nothing, logins |-> <<>>,
              asks |-> 0, anonymous |-> FALSE, err |-> "NoError", result |-> FALSE]
  BY DEF Call
<1>6. call \in CallRecord
  BY NewCall DEF Ways, Phases
<1> HIDE DEF call
<1>3. CASE calls' = Append(calls, Answer(call, FALSE, "AlreadyMounted")) /\ UNCHANGED pool
  <2> DEFINE new == [call EXCEPT !.phase = "answered", !.result = FALSE, !.err = "AlreadyMounted"]
  <2>1. new \in CallRecord /\ CallFits(new) /\ new.phase = "answered"
    BY <1>2, <1>6 DEF CallRecord, CallFits, AsksFit, ErrFits, Ways, Phases, Errors, Nothing
  <2> QED
    BY <1>1, <1>3, <2>1, CallMade DEF Answer
<1>4. CASE calls' = Append(calls, [call EXCEPT !.phase = "asking", !.asks = 1]) /\ UNCHANGED pool
  <2> DEFINE new == [call EXCEPT !.phase = "asking", !.asks = 1]
  <2>1. new \in CallRecord /\ CallFits(new) /\ new.phase = "asking"
    BY <1>2, <1>6 DEF CallRecord, CallFits, AsksFit, ErrFits, Ways, Phases, Errors, Nothing
  <2> QED
    BY <1>1, <1>4, <2>1, CallMade
<1>5. ASSUME NEW logins \in LoginPasswd, calls' = Append(calls, [call EXCEPT !.logins = logins]),
             pool' = pool \cup {Len(calls) + 1}
      PROVE  IInv'
  <2> DEFINE new == [call EXCEPT !.logins = logins]
  <2>1. logins \in Seq(Logins)
    BY <1>1, SavedLogins
  <2>2. new \in CallRecord /\ CallFits(new) /\ new.phase = "pool"
    BY <2>1, <1>2, <1>6 DEF CallRecord, CallFits, AsksFit, ErrFits, Ways, Phases, Errors, Nothing
  <2> QED
    BY <1>1, <1>5, <2>2, CallMade
<1>7. CASE /\ calls' = Append(calls, [call EXCEPT !.info = Blank])
           /\ pool' = pool \cup {Len(calls) + 1}
  <2> DEFINE new == [call EXCEPT !.info = Blank]
  <2>1. new \in CallRecord /\ CallFits(new) /\ new.phase = "pool"
    BY <1>2, <1>6 DEF CallRecord, CallFits, AsksFit, ErrFits, Ways, Phases, Errors, Blank
  <2> QED
    BY <1>1, <1>7, <2>1, CallMade
<1> QED
  BY <1>3, <1>4, <1>5, <1>7 DEF MountByDaemon, call

\* The user ends the dialog, and the watcher has the result of the pool.
LEMMA DaemonSteps ==
    ASSUME IInv, NEW c \in DOMAIN calls,
           \/ \E reply \in Replies : UserAnswers(c, reply)
           \/ MountWithSavedInfos(c) \/ MountWithUserInput(c) \/ Finished(c)
    PROVE  IInv'
<1>1. calls[c] \in CallRecord /\ CallFits(calls[c]) /\ (c \in pool <=> calls[c].phase = "pool")
  BY ACall
<1>2. mounted \in BOOLEAN /\ keyring \in Seq(Logins)
  BY DEF IInv
<1>3. ASSUME NEW reply \in Replies, UserAnswers(c, reply) PROVE IInv'
  <2>1. /\ calls[c].way = "daemon" /\ calls[c].phase = "asking"
        /\ UNCHANGED <<mounted, keyring>>
    BY <1>3 DEF UserAnswers
  <2>2. CASE reply.kind = "cancelled"
    <3> DEFINE next == [calls[c] EXCEPT !.phase = "answered", !.result = FALSE,
                                        !.err = "UserCancelled"]
    <3>1. next \in CallRecord /\ CallFits(next) /\ next.phase = "answered"
      BY <1>1, <2>1 DEF CallRecord, CallFits, AsksFit, ErrFits, Ways, Phases, Errors
    <3>2. calls' = [calls EXCEPT ![c] = next] /\ pool' = pool \ {c}
      BY <1>1, <1>3, <2>1, <2>2 DEF UserAnswers, Answer
    <3> QED
      BY <1>2, <2>1, <3>1, <3>2, CallGoesOn
  <2>3. CASE reply.kind # "cancelled"
    <3> DEFINE next == [calls[c] EXCEPT !.phase = "pool", !.info = reply]
    <3>1. next \in CallRecord /\ CallFits(next) /\ next.phase = "pool"
      BY <1>1, <2>1 DEF CallRecord, CallFits, AsksFit, ErrFits, Ways, Phases, Errors
    <3>2. calls' = [calls EXCEPT ![c] = next] /\ pool' = pool \cup {c}
      BY <1>1, <1>3, <2>1, <2>3 DEF UserAnswers
    <3> QED
      BY <1>2, <2>1, <3>1, <3>2, CallGoesOn
  <2> QED
    BY <2>2, <2>3
<1>4. CASE MountWithSavedInfos(c)
  <2>1. PICK ok \in BOOLEAN :
          /\ Attempt(Head(calls[c].logins), ok)
          /\ mounted' = (mounted \/ ok)
          /\ calls' = [calls EXCEPT
                 ![c].logins = IF ok THEN <<>> ELSE Tail(calls[c].logins),
                 ![c].phase = IF ok THEN "finished"
                              ELSE IF Tail(calls[c].logins) = <<>> THEN "request" ELSE @,
                 ![c].result = ok]
          /\ pool' = IF calls'[c].logins = <<>> THEN pool \ {c} ELSE pool
    BY <1>4 DEF MountWithSavedInfos
  <2>2. /\ calls[c].way = "daemon" /\ calls[c].phase = "pool" /\ calls[c].logins # <<>>
        /\ keyring' = keyring /\ c \in pool
    BY <1>1, <1>4 DEF MountWithSavedInfos
  <2>3. calls[c].logins \in Seq(Logins) /\ Tail(calls[c].logins) \in Seq(Logins)
        /\ <<>> \in Seq(Logins)
    BY <1>1, <2>2 DEF CallRecord
  <2>4. CASE ok
    <3> DEFINE next == [calls[c] EXCEPT !.logins = <<>>, !.phase = "finished", !.result = ok]
    <3>1. next \in CallRecord /\ CallFits(next) /\ next.phase = "finished" /\ next.logins = <<>>
      BY <1>1, <2>2, <2>3, <2>4 DEF CallRecord, CallFits, AsksFit, ErrFits, Ways, Phases, Errors
    <3>2. calls' = [calls EXCEPT ![c] = next]
      BY <1>1, <2>1, <2>4 DEF CallRecord
    <3>3. pool' = pool \ {c}
      BY <2>1, <3>1, <3>2 DEF IInv
    <3> QED
      BY <1>2, <2>1, <2>2, <3>1, <3>2, <3>3, CallGoesOn
  <2>5. CASE ~ok /\ Tail(calls[c].logins) = <<>>
    <3> DEFINE next == [calls[c] EXCEPT !.logins = <<>>, !.phase = "request", !.result = FALSE]
    <3>1. next \in CallRecord /\ CallFits(next) /\ next.phase = "request" /\ next.logins = <<>>
      BY <1>1, <2>2, <2>3 DEF CallRecord, CallFits, AsksFit, ErrFits, Ways, Phases, Errors
    <3>2. calls' = [calls EXCEPT ![c] = next]
      BY <1>1, <2>1, <2>5 DEF CallRecord
    <3>3. pool' = pool \ {c}
      BY <2>1, <3>1, <3>2 DEF IInv
    <3> QED
      BY <1>2, <2>1, <2>2, <3>1, <3>2, <3>3, CallGoesOn
  <2>6. CASE ~ok /\ Tail(calls[c].logins) # <<>>
    <3> DEFINE next == [calls[c] EXCEPT !.logins = Tail(calls[c].logins), !.result = FALSE]
    <3>1. next \in CallRecord /\ CallFits(next) /\ next.phase = "pool"
          /\ next.logins = Tail(calls[c].logins)
      BY <1>1, <2>2, <2>3 DEF CallRecord, CallFits, AsksFit, ErrFits, Ways, Phases, Errors
    <3>2. calls' = [calls EXCEPT ![c] = next]
      BY <1>1, <2>1, <2>6 DEF CallRecord
    <3>3. pool' = pool \cup {c}
      BY <2>1, <2>2, <2>6, <3>1, <3>2 DEF IInv
    <3> QED
      BY <1>2, <2>1, <2>2, <3>1, <3>2, <3>3, CallGoesOn
  <2> QED
    BY <2>4, <2>5, <2>6
<1>5. CASE MountWithUserInput(c)
  <2>1. PICK ok \in BOOLEAN, err \in {"NoError", "DaemonError", "AnonymousNotAllowed"} :
          /\ ok => err = "NoError"
          /\ mounted' = (mounted \/ ok)
          /\ err = "AnonymousNotAllowed" => calls[c].info.kind = "anonymous"
          /\ \/ keyring' = keyring
             \/ calls[c].info.kind \in Logins /\ keyring' \in SavePasswd(calls[c].info.kind)
          /\ calls' = [calls EXCEPT ![c].phase = "finished", ![c].result = ok, ![c].err = err]
    BY <1>5 DEF MountWithUserInput
  <2>2. /\ calls[c].way = "daemon" /\ calls[c].phase = "pool" /\ calls[c].logins = <<>>
        /\ pool' = pool \ {c}
    BY <1>1, <1>5 DEF MountWithUserInput
  <2>3. keyring' \in Seq(Logins)
    BY <1>2, <2>1, LoginSaved
  <2> DEFINE next == [calls[c] EXCEPT !.phase = "finished", !.result = ok, !.err = err]
  <2>4. next \in CallRecord /\ CallFits(next) /\ next.phase = "finished"
    BY <1>1, <2>1, <2>2 DEF CallRecord, CallFits, AsksFit, ErrFits, Ways, Phases, Errors
  <2>5. calls' = [calls EXCEPT ![c] = next]
    BY <1>1, <2>1
  <2> QED
    BY <1>2, <2>1, <2>2, <2>3, <2>4, <2>5, CallGoesOn
<1>6. CASE Finished(c)
  <2>1. UNCHANGED <<mounted, keyring>> /\ calls[c].way = "daemon" /\ c \notin pool
    BY <1>1, <1>6 DEF Finished
  <2>2. CASE /\ calls[c].phase = "request" /\ UNCHANGED pool
             /\ calls' = [calls EXCEPT ![c].phase = "asking", ![c].asks = @ + 1]
    <3> DEFINE next == [calls[c] EXCEPT !.phase = "asking", !.asks = @ + 1]
    <3>1. next \in CallRecord /\ CallFits(next) /\ next.phase = "asking"
      BY <1>1, <2>1, <2>2 DEF CallRecord, CallFits, AsksFit, ErrFits, Ways, Phases, Errors
    <3>2. calls' = [calls EXCEPT ![c] = next] /\ pool' = pool \ {c}
      BY <1>1, <2>1, <2>2
    <3> QED
      BY <1>2, <2>1, <3>1, <3>2, CallGoesOn
  <2>3. CASE /\ calls[c].phase = "request" /\ pool' = pool \cup {c}
             /\ calls' = [calls EXCEPT ![c].phase = "pool", ![c].info = Blank]
    <3> DEFINE next == [calls[c] EXCEPT !.phase = "pool", !.info = Blank]
    <3>1. next \in CallRecord /\ CallFits(next) /\ next.phase = "pool"
      BY <1>1, <2>1, <2>3 DEF CallRecord, CallFits, AsksFit, ErrFits, Ways, Phases, Errors, Blank
    <3>2. calls' = [calls EXCEPT ![c] = next]
      BY <1>1, <2>3
    <3> QED
      BY <1>2, <2>1, <2>3, <3>1, <3>2, CallGoesOn
  <2>4. CASE /\ calls[c].phase = "finished" /\ UNCHANGED pool
             /\ calls' = [calls EXCEPT ![c].phase = "answered"]
    <3> DEFINE next == [calls[c] EXCEPT !.phase = "answered"]
    <3>1. next \in CallRecord /\ CallFits(next) /\ next.phase = "answered"
      BY <1>1, <2>1, <2>4 DEF CallRecord, CallFits, AsksFit, ErrFits, Ways, Phases, Errors
    <3>2. calls' = [calls EXCEPT ![c] = next] /\ pool' = pool \ {c}
      BY <1>1, <2>1, <2>4
    <3> QED
      BY <1>2, <2>1, <3>1, <3>2, CallGoesOn
  <2> QED
    BY <1>6, <2>2, <2>3, <2>4 DEF Finished
<1> QED
  BY <1>3, <1>4, <1>5, <1>6

-----------------------------------------------------------------------------
\* The calls through gvfs, and those that unmount.
LEMMA OthersMade ==
    ASSUME IInv, MountByGvfs \/ UnmountNetworkDevAsync \/ UnmountNetworkDev
    PROVE  IInv'
<1>1. mounted \in BOOLEAN
  BY DEF IInv
<1>2. CASE MountByGvfs
  <2>1. /\ Call("gvfs", "gvfs") \in CallRecord /\ CallFits(Call("gvfs", "gvfs"))
        /\ Call("gvfs", "gvfs").phase = "gvfs"
    BY NewCall DEF Call, CallFits, AsksFit, ErrFits, Ways, Phases, Nothing
  <2> QED
    BY <1>1, <1>2, <2>1, CallMade DEF MountByGvfs
<1>3. CASE UnmountNetworkDevAsync
  <2>1. /\ Call("unmount", "pool") \in CallRecord /\ CallFits(Call("unmount", "pool"))
        /\ Call("unmount", "pool").phase = "pool"
    BY NewCall DEF Call, CallFits, AsksFit, ErrFits, Ways, Phases, Nothing
  <2> QED
    BY <1>1, <1>3, <2>1, CallMade DEF UnmountNetworkDevAsync
<1>4. CASE UnmountNetworkDev
  <2>1. PICK ok \in BOOLEAN :
          /\ mounted' = (mounted /\ ~ok)
          /\ calls' = Append(calls, Answer(Call("unmount", "pool"), ok, "NoError"))
    BY <1>4 DEF UnmountNetworkDev
  <2> DEFINE old == Call("unmount", "pool")
             new == [old EXCEPT !.phase = "answered", !.result = ok, !.err = "NoError"]
  <2>2. /\ old \in CallRecord /\ old.logins = <<>> /\ old.asks = 0 /\ old.way = "unmount"
        /\ old.anonymous = FALSE
    BY NewCall DEF Call, Ways, Phases
  <2> HIDE DEF old
  <2>3. new \in CallRecord /\ CallFits(new) /\ new.phase = "answered"
    BY <2>2, ZenonT(30) DEF CallRecord, CallFits, AsksFit, ErrFits, Ways, Phases, Errors
  <2>4. Len(calls) < MaxCalls /\ UNCHANGED <<keyring, pool>> /\ calls' = Append(calls, new)
    BY <1>4, <2>1 DEF UnmountNetworkDev, Answer, old
  <2> QED
    BY <1>1, <2>1, <2>3, <2>4, CallMade
<1> QED
  BY <1>2, <1>3, <1>4

\* gvfs asks, is answered, and ends.
LEMMA GvfsSteps ==
    ASSUME IInv, NEW c \in DOMAIN calls,
           \/ \E reply \in Replies, offered \in BOOLEAN : ReplyToGvfs(c, reply, offered)
           \/ AskPasswd(c) \/ AskQuestion(c) \/ MountByGvfsCallback(c)
    PROVE  IInv'
<1>1. calls[c] \in CallRecord /\ CallFits(calls[c]) /\ (c \in pool <=> calls[c].phase = "pool")
  BY ACall
<1>2. /\ mounted' = mounted /\ keyring' = keyring /\ pool' = pool /\ calls[c].way = "gvfs"
      /\ mounted \in BOOLEAN /\ keyring \in Seq(Logins) /\ c \notin pool
  BY <1>1 DEF IInv, ReplyToGvfs, AskPasswd, AskQuestion, MountByGvfsCallback
<1>3. ASSUME NEW next \in CallRecord, CallFits(next), next.phase # "pool",
             calls' = [calls EXCEPT ![c] = next]
      PROVE  IInv'
  BY <1>2, <1>3, CallGoesOn
<1>4. ASSUME NEW reply \in Replies, NEW offered \in BOOLEAN, ReplyToGvfs(c, reply, offered)
      PROVE  IInv'
  <2> DEFINE refused == reply.kind = "cancelled" \/ (reply.kind = "anonymous" /\ ~offered)
             phase == IF refused THEN "aborted" ELSE "gvfs"
             err == IF reply.kind = "cancelled" THEN "UserCancelled"
                    ELSE IF refused THEN "AnonymousNotAllowed" ELSE calls[c].err
             anonymous == reply.kind = "anonymous" /\ offered
             next == [calls[c] EXCEPT !.phase = phase, !.err = err, !.info = reply,
                                      !.anonymous = anonymous]
  <2>1. calls[c].phase = "asking"
    BY <1>4 DEF ReplyToGvfs
  <2>2. anonymous \in BOOLEAN /\ (~refused /\ reply.kind = "anonymous" => anonymous)
    OBVIOUS
  <2>3. /\ calls' = [calls EXCEPT ![c].phase = phase, ![c].err = err, ![c].anonymous = anonymous,
                                   ![c].info = reply]
        /\ err \in Errors /\ phase \in Phases
        /\ refused => err # "WrongPasswd" /\ (reply.kind = "cancelled" => err = "UserCancelled")
        /\ err = "AnonymousNotAllowed" => reply.kind = "anonymous"
        /\ anonymous => reply.kind = "anonymous"
        /\ refused => phase = "aborted"
        /\ ~refused => phase = "gvfs" /\ err = "NoError" /\ reply.kind # "cancelled"
    BY <1>1, <1>4, <2>1 DEF ReplyToGvfs, CallRecord, CallFits, ErrFits, Errors, Phases
  <2> HIDE DEF anonymous, refused, err, phase
  <2>4. calls' = [calls EXCEPT ![c] = next]
    BY <1>1, <2>3 DEF CallRecord
  <2>5. next \in CallRecord
    BY <1>1, <2>2, <2>3 DEF CallRecord
  <2>6. CASE refused
    <3>1. CallFits(next) /\ next.phase # "pool"
      BY <1>1, <1>2, <2>1, <2>6, <2>3 DEF CallRecord, CallFits, AsksFit, ErrFits, Ways, Phases, Errors
    <3> QED
      BY <1>3, <2>4, <2>5, <3>1
  <2>7. CASE ~refused
    <3>1. CallFits(next) /\ next.phase # "pool"
      BY <1>1, <1>2, <2>1, <2>7, <2>2, <2>3 DEF CallRecord, CallFits, AsksFit, ErrFits, Ways, Phases, Errors
    <3> QED
      BY <1>3, <2>4, <2>5, <3>1
  <2> QED
    BY <2>6, <2>7
<1>5. CASE AskPasswd(c)
  <2>1. calls[c].phase = "gvfs"
    BY <1>5 DEF AskPasswd
  <2>2. CASE calls[c].asks = 0 /\ calls' = [calls EXCEPT ![c].phase = "asking", ![c].asks = 1]
    <3> DEFINE next == [calls[c] EXCEPT !.phase = "asking", !.asks = 1]
    <3>1. next \in CallRecord /\ CallFits(next) /\ next.phase # "pool"
      BY <1>1, <1>2, <2>1, <2>2 DEF CallRecord, CallFits, AsksFit, ErrFits, Ways, Phases, Errors
    <3>2. calls' = [calls EXCEPT ![c] = next]
      BY <1>1, <2>2
    <3> QED
      BY <1>3, <3>1, <3>2
  <2>3. CASE calls' = [calls EXCEPT ![c].phase = "aborted", ![c].err = "UserFailed"]
    <3> DEFINE next == [calls[c] EXCEPT !.phase = "aborted", !.err = "UserFailed"]
    <3>1. next \in CallRecord /\ CallFits(next) /\ next.phase # "pool"
      BY <1>1, <1>2, <2>1 DEF CallRecord, CallFits, AsksFit, ErrFits, Ways, Phases, Errors
    <3>2. calls' = [calls EXCEPT ![c] = next]
      BY <1>1, <2>3
    <3> QED
      BY <1>3, <3>1, <3>2
  <2>4. CASE /\ calls[c].asks > 0
             /\ calls' = [calls EXCEPT ![c].phase = "aborted",
                             ![c].err = IF calls[c].anonymous THEN "AnonymousNotAllowed"
                                        ELSE "WrongPasswd"]
    <3> DEFINE err == IF calls[c].anonymous THEN "AnonymousNotAllowed" ELSE "WrongPasswd"
               next == [calls[c] EXCEPT !.phase = "aborted", !.err = err]
    <3>1. calls[c].asks = 1 /\ calls[c].info \in Replies
      BY <1>1, <2>1, <2>4 DEF CallFits, AsksFit, ErrFits
    <3>2. calls[c].info.kind \in Logins \/ calls[c].anonymous
      BY <1>1, <2>1, <3>1 DEF CallFits, ErrFits, Replies
    <3>3. /\ err \in Errors
          /\ err = "WrongPasswd" => calls[c].info.kind \in Logins
          /\ err = "AnonymousNotAllowed" => calls[c].info.kind = "anonymous"
      BY <1>1, <3>2 DEF CallFits, ErrFits, Errors
    <3>4. calls' = [calls EXCEPT ![c] = next]
      BY <1>1, <2>4
    <3> HIDE DEF err
    <3>5. next \in CallRecord /\ next.phase # "pool"
      BY <1>1, <3>3 DEF CallRecord, Phases
    <3>6. CallFits(next)
      BY <1>1, <1>2, <2>1, <3>1, <3>3 DEF CallRecord, CallFits, AsksFit, ErrFits
    <3> QED
      BY <1>3, <3>4, <3>5, <3>6
  <2> QED
    BY <1>5, <2>2, <2>3, <2>4 DEF AskPasswd
<1>6. CASE AskQuestion(c)
  <2> DEFINE next == [calls[c] EXCEPT !.phase = "aborted"]
  <2>1. next \in CallRecord /\ CallFits(next) /\ next.phase # "pool"
    BY <1>1, <1>2, <1>6 DEF CallRecord, CallFits, AsksFit, ErrFits, Ways, Phases, Errors, AskQuestion
  <2>2. calls' = [calls EXCEPT ![c] = next]
    BY <1>1, <1>6 DEF AskQuestion
  <2> QED
    BY <1>3, <2>1, <2>2
<1>7. CASE MountByGvfsCallback(c)
  <2>1. PICK ok \in BOOLEAN :
          /\ ok => calls[c].phase = "gvfs" /\ calls[c].info.kind # "wrong"
          /\ calls' = [calls EXCEPT ![c] = Answer(calls[c], ok,
                       IF ~ok /\ calls[c].err = "NoError" THEN "GioError" ELSE calls[c].err)]
    BY <1>7 DEF MountByGvfsCallback
  <2>2. calls[c].phase \in {"gvfs", "aborted"}
    BY <1>7 DEF MountByGvfsCallback
  <2> DEFINE err == IF ~ok /\ calls[c].err = "NoError" THEN "GioError" ELSE calls[c].err
             next == [calls[c] EXCEPT !.phase = "answered", !.result = ok, !.err = err]
  <2>3. next \in CallRecord /\ CallFits(next) /\ next.phase # "pool"
    BY <1>1, <1>2, <2>1, <2>2, ZenonT(30)
    DEF CallRecord, CallFits, AsksFit, ErrFits, Ways, Phases, Errors
  <2>4. calls' = [calls EXCEPT ![c] = next]
    BY <1>1, <2>1 DEF Answer
  <2> QED
    BY <1>3, <2>3, <2>4
<1> QED
  BY <1>4, <1>5, <1>6, <1>7

\* The daemon unmounts, and the watcher tells.
LEMMA UnmountSteps ==
    ASSUME IInv, NEW c \in DOMAIN calls, UnmountDetailed(c) \/ UnmountFinished(c)
    PROVE  IInv'
<1>1. calls[c] \in CallRecord /\ CallFits(calls[c]) /\ (c \in pool <=> calls[c].phase = "pool")
  BY ACall
<1>2. mounted \in BOOLEAN /\ keyring \in Seq(Logins) /\ calls[c].way = "unmount"
  BY DEF IInv, UnmountDetailed, UnmountFinished
<1>3. CASE UnmountDetailed(c)
  <2>1. PICK ok \in BOOLEAN, told \in {"NoReply", "AuthenticationFailed", "Other"} :
          /\ mounted' = (mounted /\ ~ok)
          /\ calls' = [calls EXCEPT ![c].phase = "finished", ![c].result = ok,
                          ![c].err = IF ok THEN "NoError" ELSE told]
    BY <1>3 DEF UnmountDetailed
  <2>2. calls[c].phase = "pool" /\ pool' = pool \ {c} /\ keyring' = keyring
    BY <1>1, <1>3 DEF UnmountDetailed
  <2> DEFINE err == IF ok THEN "NoError" ELSE told
             next == [calls[c] EXCEPT !.phase = "finished", !.result = ok, !.err = err]
  <2>3. next \in CallRecord
    BY <1>1, <2>1 DEF CallRecord, Phases, Errors
  <2>4. CallFits(next) /\ next.phase = "finished"
    <3>1. CASE ok
      BY <1>1, <1>2, <2>1, <2>2, <3>1 DEF CallRecord, CallFits, AsksFit, ErrFits, Ways, Phases, Errors
    <3>2. CASE ~ok
      BY <1>1, <1>2, <2>1, <2>2, <3>2 DEF CallRecord, CallFits, AsksFit, ErrFits, Ways, Phases, Errors
    <3> QED
      BY <3>1, <3>2
  <2>5. calls' = [calls EXCEPT ![c] = next]
    BY <1>1, <2>1
  <2> QED
    BY <1>2, <2>1, <2>2, <2>3, <2>4, <2>5, CallGoesOn
<1>4. CASE UnmountFinished(c)
  <2> DEFINE err == CASE calls[c].err = "NoReply" -> "NotAuthorizedDismissed"
                      [] calls[c].err = "Other"   -> "UserError"
                      [] OTHER                    -> calls[c].err
             next == [calls[c] EXCEPT !.phase = "answered", !.err = err]
  <2>1. calls[c].phase = "finished" /\ UNCHANGED <<mounted, keyring, pool>> /\ c \notin pool
    BY <1>1, <1>4 DEF UnmountFinished
  <2>2. next \in CallRecord /\ CallFits(next) /\ next.phase = "answered"
    BY <1>1, <1>2, <2>1 DEF CallRecord, CallFits, AsksFit, ErrFits, Ways, Phases, Errors
  <2>3. calls' = [calls EXCEPT ![c] = next] /\ pool' = pool \ {c}
    BY <1>1, <1>4, <2>1 DEF UnmountFinished
  <2> QED
    BY <1>2, <2>1, <2>2, <2>3, CallGoesOn
<1> QED
  BY <1>3, <1>4

-----------------------------------------------------------------------------
(* The theorems                                                            *)

\* No call yet, and some saved logins.
LEMMA InitHolds == Init => IInv
<1> SUFFICES ASSUME Init PROVE IInv
  OBVIOUS
<1>1. calls = <<>> /\ pool = {} /\ mounted \in BOOLEAN
  BY DEF Init
<1>2. keyring \in Seq(Logins)
  <2>1. PICK n \in 0..MaxSaved : keyring \in [1..n -> Logins]
    BY DEF Init
  <2> QED
    BY <2>1, BoundsAssumption
<1>3. calls \in Seq(CallRecord) /\ Len(calls) = 0 /\ DOMAIN calls = {}
  BY <1>1
<1> QED
  BY <1>1, <1>2, <1>3, BoundsAssumption DEF IInv

\* Every step keeps the invariant.
LEMMA NextKeeps == IInv /\ [Next]_vars => IInv'
<1> SUFFICES ASSUME IInv, [Next]_vars PROVE IInv'
  OBVIOUS
<1>1. CASE MountByDaemon
  BY <1>1, DaemonMade
<1>2. CASE MountByGvfs \/ UnmountNetworkDevAsync \/ UnmountNetworkDev
  BY <1>2, OthersMade
<1>3. CASE User
  BY <1>3, DaemonSteps, GvfsSteps DEF User
<1>4. CASE Work
  BY <1>4, DaemonSteps, GvfsSteps, UnmountSteps DEF Work
<1>5. CASE \E c \in DOMAIN calls : AskPasswd(c) \/ AskQuestion(c)
  BY <1>5, GvfsSteps
<1>6. CASE UNCHANGED vars
  BY <1>6 DEF vars, IInv
<1> QED
  BY <1>1, <1>2, <1>3, <1>4, <1>5, <1>6 DEF Next

LEMMA InvariantHolds == Spec => []IInv
BY InitHolds, NextKeeps, PTL DEF Spec

\* One call asks its user at most once, however often the server refuses.
THEOREM UserAskedOnce == Spec => []AskedOnce
<1>1. IInv => AskedOnce
  BY DEF IInv, CallFits, AsksFit, AskedOnce
<1> QED
  BY <1>1, InvariantHolds, PTL

\* The error a call is answered with is that of what happened to it, whatever the other calls do.
THEOREM ErrorIsOfTheCall == Spec => []ErrorFits
<1>1. IInv => ErrorFits
  BY DEF IInv, CallFits, ErrFits, ErrorFits
<1> QED
  BY <1>1, InvariantHolds, PTL

\* The keyring gains no login that did not mount the share.
THEOREM SavedLoginsWork == Spec => OnlyGoodLoginsSaved
<1>1. IInv /\ [Next]_vars => [WrongLogins' \subseteq WrongLogins]_keyring
  <2> SUFFICES ASSUME IInv, Next, keyring' # keyring PROVE WrongLogins' \subseteq WrongLogins
    BY DEF vars
  <2>1. PICK c \in DOMAIN calls : MountWithUserInput(c)
    <3>1. ~(MountByDaemon \/ MountByGvfs \/ UnmountNetworkDevAsync \/ UnmountNetworkDev)
      BY DEF MountByDaemon, MountByGvfs, UnmountNetworkDevAsync, UnmountNetworkDev
    <3>2. ASSUME NEW c \in DOMAIN calls
          PROVE  /\ \A reply \in Replies, offered \in BOOLEAN :
                       ~UserAnswers(c, reply) /\ ~ReplyToGvfs(c, reply, offered)
                 /\ ~MountWithSavedInfos(c) /\ ~Finished(c) /\ ~MountByGvfsCallback(c)
                 /\ ~UnmountDetailed(c) /\ ~UnmountFinished(c) /\ ~AskPasswd(c) /\ ~AskQuestion(c)
      BY DEF UserAnswers, ReplyToGvfs, MountWithSavedInfos, Finished, MountByGvfsCallback,
             UnmountDetailed, UnmountFinished, AskPasswd, AskQuestion
    <3> QED
      BY <3>1, <3>2 DEF Next, User, Work
  <2>2. PICK ok \in BOOLEAN :
          /\ Attempt(calls[c].info.kind, ok)
          /\ ok /\ calls[c].info.kind \in Logins
          /\ keyring' \in SavePasswd(calls[c].info.kind)
    BY <2>1 DEF MountWithUserInput
  <2>3. calls[c].info.kind = "right"
    BY <2>2 DEF Attempt, Logins
  <2>4. keyring \in Seq(Logins)
    BY DEF IInv
  <2>5. CASE keyring' = Append(keyring, "right")
    BY <2>4, <2>5 DEF WrongLogins
  <2>6. ASSUME NEW i \in DOMAIN keyring, keyring' = [keyring EXCEPT ![i] = "right"]
        PROVE  WrongLogins' \subseteq WrongLogins
    BY <2>4, <2>6 DEF WrongLogins
  <2> QED
    BY <2>2, <2>3, <2>5, <2>6 DEF SavePasswd
<1> QED
  BY <1>1, InvariantHolds, PTL DEF Spec, OnlyGoodLoginsSaved

\* The mounter implements the safety part of JobLedger: no call is answered twice, and
\* none that was not made.
THEOREM LedgerSafety == Spec => Ledger!SafeSpec
<1> DEFINE answered == {c \in DOMAIN calls : calls[c].phase = "answered"}
<1>1. Init => Ledger!Init
  BY DEF Init, Ledger!Init
<1>2. IInv /\ [Next]_vars => [Ledger!Next]_Ledger!ledger
  <2> SUFFICES ASSUME IInv, [Next]_vars PROVE [Ledger!Next]_Ledger!ledger
    OBVIOUS
  <2>1. ASSUME NEW c \in DOMAIN calls, calls[c].phase # "answered",
               DOMAIN calls' = DOMAIN calls, \A d \in DOMAIN calls : d # c => calls'[d] = calls[d]
        PROVE  [Ledger!Next]_Ledger!ledger
    <3>1. c \in Ids
      BY BoundsAssumption DEF IInv, Ids
    <3>2. CASE calls'[c].phase = "answered"
      <4>1. answered' = answered \cup {c} /\ c \notin answered
        BY <2>1, <3>2
      <4> QED
        BY <2>1, <3>1, <4>1 DEF Ledger!Next, Ledger!Answer
    <3>3. CASE calls'[c].phase # "answered"
      <4>1. answered' = answered
        BY <2>1, <3>3
      <4> QED
        BY <2>1, <4>1 DEF Ledger!ledger
    <3> QED
      BY <3>2, <3>3
  <2>2. ASSUME NEW call, Len(calls) < MaxCalls, calls' = Append(calls, call)
        PROVE  [Ledger!Next]_Ledger!ledger
    <3> DEFINE n == Len(calls) + 1
    <3>1. /\ DOMAIN calls' = DOMAIN calls \cup {n} /\ n \notin DOMAIN calls
          /\ calls'[n] = call /\ \A d \in DOMAIN calls : calls'[d] = calls[d]
      BY <2>2 DEF IInv
    <3>2. n \in Ids
      BY <2>2, BoundsAssumption DEF IInv, Ids
    <3> HIDE DEF n
    <3>3. CASE call.phase = "answered"
      <4>1. answered' = answered \cup {n}
        BY <3>1, <3>3
      <4> QED
        BY <3>1, <3>2, <4>1 DEF Ledger!Next, Ledger!AskAnswered
    <3>4. CASE call.phase # "answered"
      <4>1. answered' = answered
        BY <3>1, <3>4
      <4> QED
        BY <3>1, <3>2, <4>1 DEF Ledger!Next, Ledger!Ask
    <3> QED
      BY <3>3, <3>4
  <2>3. CASE MountByDaemon \/ MountByGvfs \/ UnmountNetworkDevAsync \/ UnmountNetworkDev
    BY <2>2, <2>3 DEF MountByDaemon, MountByGvfs, UnmountNetworkDevAsync, UnmountNetworkDev
  <2>4. ASSUME NEW c \in DOMAIN calls,
               \/ \E reply \in Replies : UserAnswers(c, reply)
                     \/ \E offered \in BOOLEAN : ReplyToGvfs(c, reply, offered)
               \/ MountWithSavedInfos(c) \/ MountWithUserInput(c) \/ Finished(c)
               \/ MountByGvfsCallback(c) \/ UnmountDetailed(c) \/ UnmountFinished(c)
               \/ AskPasswd(c) \/ AskQuestion(c)
        PROVE  [Ledger!Next]_Ledger!ledger
    <3>1. calls[c].phase # "answered"
      BY <2>4, ACall
      DEF UserAnswers, ReplyToGvfs, MountWithSavedInfos, MountWithUserInput, Finished,
          MountByGvfsCallback, UnmountDetailed, UnmountFinished, AskPasswd, AskQuestion
    <3>2. DOMAIN calls' = DOMAIN calls /\ \A d \in DOMAIN calls : d # c => calls'[d] = calls[d]
      <4>1. ASSUME NEW reply \in Replies, UserAnswers(c, reply)
            PROVE  DOMAIN calls' = DOMAIN calls /\ \A d \in DOMAIN calls : d # c => calls'[d] = calls[d]
        BY <4>1 DEF UserAnswers
      <4>2. CASE MountWithSavedInfos(c)
        BY <4>2 DEF MountWithSavedInfos
      <4>3. CASE MountWithUserInput(c)
        BY <4>3 DEF MountWithUserInput
      <4>4. CASE Finished(c)
        BY <4>4 DEF Finished
      <4>5. CASE MountByGvfsCallback(c) \/ AskPasswd(c) \/ AskQuestion(c)
        BY <4>5 DEF MountByGvfsCallback, AskPasswd, AskQuestion
      <4>6. CASE UnmountDetailed(c) \/ UnmountFinished(c)
        BY <4>6 DEF UnmountDetailed, UnmountFinished
      <4>7. ASSUME NEW reply \in Replies, NEW offered \in BOOLEAN, ReplyToGvfs(c, reply, offered)
            PROVE  DOMAIN calls' = DOMAIN calls /\ \A d \in DOMAIN calls : d # c => calls'[d] = calls[d]
        BY <4>7 DEF ReplyToGvfs
      <4> QED
        BY <2>4, <4>1, <4>2, <4>3, <4>4, <4>5, <4>6, <4>7
    <3> QED
      BY <2>1, <3>1, <3>2
  <2>5. CASE UNCHANGED vars
    BY <2>5 DEF vars, Ledger!ledger
  <2> QED
    BY <2>3, <2>4, <2>5 DEF Next, User, Work
<1> QED
  BY <1>1, <1>2, InvariantHolds, PTL DEF Spec, Ledger!SafeSpec
=============================================================================
