---------------------------- MODULE NetworkMounter ----------------------------
(***************************************************************************)
(* DNetworkMounter: calls that mount one network share, through the mount  *)
(* daemon (smb) or through gvfs, with the logins of the keyring and those  *)
(* the user is asked for, and calls that unmount it through the daemon.    *)
(*                                                                         *)
(* D-Bus calls to the daemon block a thread of the pool; the dialogs run   *)
(* on the main thread, whose other work goes on meanwhile.                 *)
(***************************************************************************)
EXTENDS Integers, Sequences

CONSTANTS MaxCalls,   \* bound: calls
          MaxSaved,   \* bound: logins in the keyring at first
          MaxAsks     \* bound: passwords gvfs asks for in one call

ASSUME BoundsAssumption == MaxCalls \in Nat /\ MaxSaved \in Nat /\ MaxAsks \in Nat \ {0}

VARIABLES
    mounted,    \* the share is mounted, by the current user and where the daemon does
    keyring,    \* the saved logins of the share, right or wrong ones
    calls,      \* the calls, first one first
    pool        \* calls whose task is on the thread pool

vars == <<mounted, keyring, calls, pool>>

Logins == {"right", "wrong"}
Replies == [kind : {"cancelled", "anonymous"} \cup Logins, save : BOOLEAN]
Nothing == [kind |-> "none", save |-> FALSE]
Blank == [kind |-> "blank", save |-> FALSE]       \* what is tried without a getPassInfo
Ids == 1..MaxCalls

Call(way, phase) ==
    [way |-> way, phase |-> phase, info |-> Nothing, logins |-> <<>>,
     asks |-> 0, anonymous |-> FALSE, err |-> "NoError", result |-> FALSE]

Answer(call, result, err) ==
    [call EXCEPT !.phase = "answered", !.result = result, !.err = err]

-----------------------------------------------------------------------------
(* Through the daemon                                                      *)

(* What the daemon does with a login: it mounts, if the login is right and   *)
(* nothing fails; anonymous users may or may not be let in                   *)
Attempt(kind, ok) == ok => kind # "wrong" /\ kind # "none"

(* loginPasswd(): the search may fail, and a login whose password cannot be  *)
(* looked up is tried without it                                             *)
LoginPasswd ==
    {<<>>} \cup {[i \in DOMAIN keyring |-> IF i \in lost THEN "wrong" ELSE keyring[i]] :
                     lost \in SUBSET DOMAIN keyring}

(* savePasswd(): a new login, or the same user's; storing it may fail        *)
SavePasswd(login) ==
    {keyring, Append(keyring, login)} \cup {[keyring EXCEPT ![i] = login] : i \in DOMAIN keyring}

(* mountByDaemon(): no second mount of the same user; the user is asked      *)
(* first if the keyring has nothing, if the client has a dialog for it       *)
MountByDaemon ==
    /\ Len(calls) < MaxCalls
    /\ LET call == Call("daemon", "pool") IN
       \/ mounted /\ calls' = Append(calls, Answer(call, FALSE, "AlreadyMounted"))
          /\ UNCHANGED pool
       \/ /\ ~mounted
          /\ calls' = Append(calls, [call EXCEPT !.phase = "asking", !.asks = 1])
          /\ UNCHANGED pool
       \/ /\ ~mounted
          /\ \/ calls' = Append(calls, [call EXCEPT !.info = Blank])
             \/ \E logins \in LoginPasswd \ {<<>>} :
                    calls' = Append(calls, [call EXCEPT !.logins = logins])
          /\ pool' = pool \cup {Len(calls) + 1}
    /\ UNCHANGED <<mounted, keyring>>

\* Mutant: nobody is told when the user cancels.
UserAnswersUntold(c, reply) ==
    /\ calls[c].way = "daemon" /\ calls[c].phase = "asking"
    /\ IF reply.kind = "cancelled"
       THEN calls' = [calls EXCEPT ![c].phase = "aborted"] /\ UNCHANGED pool
       ELSE /\ calls' = [calls EXCEPT ![c].phase = "pool", ![c].info = reply]
            /\ pool' = pool \cup {c}
    /\ UNCHANGED <<mounted, keyring>>

(* The dialog: cancelled, the call is answered; otherwise the input is tried *)
UserAnswers(c, reply) ==
    /\ calls[c].way = "daemon" /\ calls[c].phase = "asking"
    /\ IF reply.kind = "cancelled"
       THEN calls' = [calls EXCEPT ![c] = Answer(@, FALSE, "UserCancelled")] /\ UNCHANGED pool
       ELSE /\ calls' = [calls EXCEPT ![c].phase = "pool", ![c].info = reply]
            /\ pool' = pool \cup {c}
    /\ UNCHANGED <<mounted, keyring>>

(* mountWithSavedInfos(): the next login; when all were refused, the user    *)
(* has to be asked                                                           *)
MountWithSavedInfos(c) ==
    /\ c \in pool /\ calls[c].way = "daemon" /\ calls[c].logins # <<>>
    /\ \E ok \in BOOLEAN :
          /\ Attempt(Head(calls[c].logins), ok)
          /\ mounted' = (mounted \/ ok)
          /\ LET rest == Tail(calls[c].logins) IN
             calls' = [calls EXCEPT
                 ![c].logins = IF ok THEN <<>> ELSE rest,
                 ![c].phase = IF ok THEN "finished" ELSE IF rest = <<>> THEN "request" ELSE @,
                 ![c].result = ok]
          /\ pool' = IF calls'[c].logins = <<>> THEN pool \ {c} ELSE pool
    /\ UNCHANGED keyring

\* Mutant: the login is saved before it has been tried.
MountWithUntriedInput(c) ==
    /\ c \in pool /\ calls[c].way = "daemon" /\ calls[c].logins = <<>>
    /\ \E ok \in {o \in BOOLEAN : Attempt(calls[c].info.kind, o)} :
          /\ mounted' = (mounted \/ ok)
          /\ calls' = [calls EXCEPT ![c].phase = "finished", ![c].result = ok,
                          ![c].err = IF ok THEN "NoError" ELSE "DaemonError"]
    /\ keyring' = IF calls[c].info.save /\ calls[c].info.kind \in Logins
                  THEN Append(keyring, calls[c].info.kind) ELSE keyring
    /\ pool' = pool \ {c}

(* mountWithUserInput(): a login is saved if the user wants it, is not       *)
(* anonymous, and it worked.  A daemon that is gone leaves errno 0.          *)
MountWithUserInput(c) ==
    /\ c \in pool /\ calls[c].way = "daemon" /\ calls[c].logins = <<>>
    /\ LET info == calls[c].info IN
       \E ok \in {o \in BOOLEAN : Attempt(info.kind, o)},
          err \in {"NoError", "DaemonError", "AnonymousNotAllowed"} :
          /\ ok => err = "NoError"
          /\ err = "AnonymousNotAllowed" => info.kind = "anonymous"
          /\ mounted' = (mounted \/ ok)
          /\ IF ok /\ info.save /\ info.kind \in Logins THEN keyring' \in SavePasswd(info.kind)
                                                       ELSE UNCHANGED keyring
          /\ calls' = [calls EXCEPT ![c].phase = "finished", ![c].result = ok, ![c].err = err]
    /\ pool' = pool \ {c}

(* The watcher: with the saved logins used up the user is asked, once; else  *)
(* the call is answered                                                      *)
Finished(c) ==
    /\ calls[c].way = "daemon"
    /\ \/ /\ calls[c].phase = "request"
          /\ calls' = [calls EXCEPT ![c].phase = "asking", ![c].asks = @ + 1]
          /\ UNCHANGED pool
       \/ /\ calls[c].phase = "request"
          /\ calls' = [calls EXCEPT ![c].phase = "pool", ![c].info = Blank]
          /\ pool' = pool \cup {c}
       \/ /\ calls[c].phase = "finished"
          /\ calls' = [calls EXCEPT ![c].phase = "answered"]
          /\ UNCHANGED pool
    /\ UNCHANGED <<mounted, keyring>>

-----------------------------------------------------------------------------
(* Through gvfs                                                            *)

MountByGvfs ==
    /\ Len(calls) < MaxCalls
    /\ calls' = Append(calls, Call("gvfs", "gvfs"))
    /\ UNCHANGED <<mounted, keyring, pool>>

\* Mutant: the flag is forgotten, and every question goes to the user.
AskPasswdEveryTime(c) ==
    /\ calls[c].way = "gvfs" /\ calls[c].phase = "gvfs" /\ calls[c].asks < MaxAsks
    /\ calls' = [calls EXCEPT ![c].phase = "asking", ![c].asks = @ + 1]
    /\ UNCHANGED <<mounted, keyring, pool>>

(* mountByGvfsAskPasswd(): the user is asked once, if there is a dialog for  *)
(* it; being asked again is taken as a refusal of the login                  *)
AskPasswd(c) ==
    /\ calls[c].way = "gvfs" /\ calls[c].phase = "gvfs" /\ calls[c].asks < MaxAsks
    /\ \/ calls[c].asks = 0
          /\ calls' = [calls EXCEPT ![c].phase = "asking", ![c].asks = 1]
       \/ calls[c].asks = 0
          /\ calls' = [calls EXCEPT ![c].phase = "aborted", ![c].err = "UserFailed"]
       \/ calls[c].asks > 0
          /\ calls' = [calls EXCEPT ![c].phase = "aborted",
                          ![c].err = IF calls[c].anonymous THEN "AnonymousNotAllowed"
                                     ELSE "WrongPasswd"]
    /\ UNCHANGED <<mounted, keyring, pool>>

(* The user's reply, with gvfs offering anonymous access or not              *)
ReplyToGvfs(c, reply, offered) ==
    /\ calls[c].way = "gvfs" /\ calls[c].phase = "asking"
    /\ calls' = [calls EXCEPT
          ![c].phase = IF reply.kind = "cancelled" \/ (reply.kind = "anonymous" /\ ~offered)
                       THEN "aborted" ELSE "gvfs",
          ![c].err = IF reply.kind = "cancelled" THEN "UserCancelled"
                     ELSE IF reply.kind = "anonymous" /\ ~offered THEN "AnonymousNotAllowed"
                     ELSE @,
          ![c].anonymous = (reply.kind = "anonymous" /\ offered),
          ![c].info = reply]
    /\ UNCHANGED <<mounted, keyring, pool>>

(* mountByGvfsAskQuestion(): answered, or aborted without a reason kept      *)
AskQuestion(c) ==
    /\ calls[c].way = "gvfs" /\ calls[c].phase = "gvfs"
    /\ calls' = [calls EXCEPT ![c].phase = "aborted"]
    /\ UNCHANGED <<mounted, keyring, pool>>

\* Mutant: what GIO says takes the place of what the dialogs found out.
MountByGvfsCallbackGioFirst(c) ==
    /\ calls[c].way = "gvfs" /\ calls[c].phase \in {"gvfs", "aborted"}
    /\ \E ok \in {o \in BOOLEAN : o => calls[c].phase = "gvfs" /\ calls[c].info.kind # "wrong"} :
          calls' = [calls EXCEPT ![c] = Answer(@, ok, IF ok THEN "NoError" ELSE "GioError")]
    /\ UNCHANGED <<mounted, keyring, pool>>

(* mountByGvfsCallback(): GIO's own error only if the dialogs had none       *)
MountByGvfsCallback(c) ==
    /\ calls[c].way = "gvfs" /\ calls[c].phase \in {"gvfs", "aborted"}
    /\ \E ok \in {o \in BOOLEAN : o => calls[c].phase = "gvfs" /\ calls[c].info.kind # "wrong"} :
          calls' = [calls EXCEPT ![c] = Answer(@, ok,
                       IF ~ok /\ calls[c].err = "NoError" THEN "GioError" ELSE calls[c].err)]
    /\ UNCHANGED <<mounted, keyring, pool>>

-----------------------------------------------------------------------------
(* Unmounting through the daemon                                           *)

UnmountNetworkDevAsync ==
    /\ Len(calls) < MaxCalls
    /\ calls' = Append(calls, Call("unmount", "pool"))
    /\ pool' = pool \cup {Len(calls) + 1}
    /\ UNCHANGED <<mounted, keyring>>

(* The blocking form knows success and failure only                          *)
UnmountNetworkDev ==
    /\ Len(calls) < MaxCalls
    /\ \E ok \in {o \in BOOLEAN : o => mounted} :
          /\ mounted' = (mounted /\ ~ok)
          /\ calls' = Append(calls, Answer(Call("unmount", "pool"), ok, "NoError"))
    /\ UNCHANGED <<keyring, pool>>

(* unmountNetworkDevAsyncDetailed(): the daemon's answer or a D-Bus error    *)
UnmountDetailed(c) ==
    /\ c \in pool /\ calls[c].way = "unmount"
    /\ pool' = pool \ {c}
    /\ \E ok \in {o \in BOOLEAN : o => mounted},
          err \in {"NoReply", "AuthenticationFailed", "Other"} :
          /\ mounted' = (mounted /\ ~ok)
          /\ calls' = [calls EXCEPT ![c].phase = "finished", ![c].result = ok,
                          ![c].err = IF ok THEN "NoError" ELSE err]
    /\ UNCHANGED keyring

UnmountFinished(c) ==
    /\ calls[c].way = "unmount" /\ calls[c].phase = "finished"
    /\ calls' = [calls EXCEPT ![c].phase = "answered",
                    ![c].err = CASE @ = "NoReply" -> "NotAuthorizedDismissed"
                                 [] @ = "Other"   -> "UserError"
                                 [] OTHER         -> @]
    /\ UNCHANGED <<mounted, keyring, pool>>

-----------------------------------------------------------------------------
Init ==
    /\ mounted \in BOOLEAN
    /\ keyring \in UNION {[1..n -> Logins] : n \in 0..MaxSaved}
    /\ calls = <<>> /\ pool = {}

User == \E c \in DOMAIN calls, reply \in Replies :
            \/ UserAnswers(c, reply)
            \/ \E offered \in BOOLEAN : ReplyToGvfs(c, reply, offered)

Work == \E c \in DOMAIN calls :
            \/ MountWithSavedInfos(c) \/ MountWithUserInput(c) \/ Finished(c)
            \/ MountByGvfsCallback(c)
            \/ UnmountDetailed(c) \/ UnmountFinished(c)

Next ==
    \/ MountByDaemon \/ MountByGvfs \/ UnmountNetworkDevAsync \/ UnmountNetworkDev
    \/ User
    \/ Work
    \/ \E c \in DOMAIN calls : AskPasswd(c) \/ AskQuestion(c)

(* The pool, gvfs and the main thread run, and the user ends each dialog     *)
Spec == Init /\ [][Next]_vars /\ WF_vars(Work) /\ WF_vars(User)

-----------------------------------------------------------------------------
(* Properties                                                              *)

(* One call asks its user at most once, on either way, with saved logins or *)
(* without, and whatever the server refuses.                                *)
AskedOnce == \A c \in DOMAIN calls : calls[c].asks <= 1

(* The error told is that of what happened: cancelled if the user cancelled *)
(* the dialog of gvfs, a wrong password only to a user who typed a login,   *)
(* anonymous access refused only to one who chose it, and no success with   *)
(* an error.                                                                *)
ErrorFits ==
    \A c \in DOMAIN calls : calls[c].phase = "answered" =>
        /\ calls[c].result => calls[c].err = "NoError"
        /\ calls[c].err = "WrongPasswd" => calls[c].asks = 1 /\ calls[c].info.kind \in Logins
        /\ calls[c].err = "AnonymousNotAllowed" => calls[c].info.kind = "anonymous"
        /\ (calls[c].way = "gvfs" /\ calls[c].info.kind = "cancelled")
              => calls[c].err = "UserCancelled"

WrongLogins == {i \in DOMAIN keyring : keyring[i] = "wrong"}

(* The keyring never gains a login that did not mount the share.            *)
OnlyGoodLoginsSaved == [][WrongLogins' \subseteq WrongLogins]_keyring

(* Every call is answered once, whatever threads, dialogs and answers of    *)
(* the servers it takes.                                                    *)
Ledger == INSTANCE JobLedger WITH
    Calls <- Ids,
    asked <- DOMAIN calls,
    answered <- {c \in DOMAIN calls : calls[c].phase = "answered"}

LedgerSpec == Ledger!Spec
=============================================================================
