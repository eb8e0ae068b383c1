----------------------------- MODULE BlockDevice -----------------------------
(***************************************************************************)
(* DBlockDevice of dfm-mount: the eight operations on a block device, each *)
(* in a blocking and in an asynchronous form.  An operation looks at the   *)
(* objects the UDisks client has cached, refuses or settles the call from  *)
(* them, or sends one request to UDisks.                                   *)
(*                                                                         *)
(* The client's cache follows UDisks through signals that its main loop    *)
(* takes one by one; the reply to an asynchronous request comes the same   *)
(* way.  A blocking call takes its reply off the connection and overtakes  *)
(* the signals before it.                                                  *)
(***************************************************************************)
EXTENDS Integers, SequencesExt

CONSTANTS Kinds,      \* the devices that are looked at
          MaxCalls,   \* bound: calls on the device
          MaxEvents   \* bound: what other programs and the hardware do

ASSUME KindsAssumption ==
    Kinds \subseteq [fs : BOOLEAN, encrypted : BOOLEAN, drive : BOOLEAN, ejectable : BOOLEAN]
ASSUME BoundsAssumption == MaxCalls \in Nat /\ MaxEvents \in Nat

VARIABLES
    \* the device and UDisks
    kind,        \* the interfaces it has; is its drive ejectable?
    exported,    \* what UDisks exports of it now
    requests,    \* requests UDisks has not completed
    events,
    \* the UDisks client
    bus,         \* signals and replies posted to its main loop
    seen,        \* its cache
    \* DBlockDevice
    calls,       \* the calls made, first one first
    lastError,   \* its code, and the call that set it
    \* history
    held         \* per call: the mount states of the device since it was made

vars == <<kind, exported, requests, events, bus, seen, calls, lastError, held>>
deviceVars == <<calls, lastError>>

FilesystemOps == {"mount", "unmount", "rename"}
DriveOps      == {"eject", "powerOff"}
EncryptedOps  == {"lock", "unlock"}
Ops == FilesystemOps \cup DriveOps \cup EncryptedOps \cup {"rescan"}
Places == {"block", "drive"}      \* what a job of UDisks works on

Ids == 1..MaxCalls
Blocked == \E c \in DOMAIN calls : calls[c].sync /\ ~calls[c].answered

-----------------------------------------------------------------------------
(* UDisks                                                                  *)

Properties(e) == [type |-> "properties", of |-> e]
Announced(e) == Append(bus, Properties(e))
Told(c, ok) == [type |-> "reply", to |-> c, ok |-> ok]
JobsOf(R) == {r.job : r \in R} \cap Places
Witnessed(e) == [c \in DOMAIN held |->
                    IF calls[c].answered THEN held[c] ELSE held[c] \cup {e.mounted}]

(* Another program mounts, unmounts; the device is pulled out               *)
OtherChange ==
    /\ events < MaxEvents /\ events' = events + 1
    /\ \/ exported.present /\ kind.fs /\ exported' = [exported EXCEPT !.mounted = ~@]
       \/ exported.present /\ exported' = [present |-> FALSE, mounted |-> FALSE, jobs |-> {}]
    /\ bus' = Announced(exported')
    /\ held' = Witnessed(exported')
    /\ UNCHANGED <<kind, requests, seen, deviceVars>>

(* UDisks exports a job for a request that runs long enough                 *)
ExportJob(r) ==
    /\ r.job = "none" /\ exported.present
    /\ requests' = (requests \ {r}) \cup
          {[r EXCEPT !.job = IF r.op \in DriveOps THEN "drive" ELSE "block"]}
    /\ exported' = [exported EXCEPT !.jobs = JobsOf(requests')]
    /\ bus' = IF exported' = exported THEN bus ELSE Announced(exported')
    /\ UNCHANGED <<kind, events, seen, deviceVars, held>>

CanSucceed(op) == CASE op = "mount"   -> ~exported.mounted
                    [] op = "unmount" -> exported.mounted
                    [] OTHER          -> TRUE

AfterSuccess(op) == CASE op = "mount"    -> [exported EXCEPT !.mounted = TRUE]
                      [] op = "unmount"  -> [exported EXCEPT !.mounted = FALSE]
                      [] op = "powerOff" -> [present |-> FALSE, mounted |-> FALSE, jobs |-> {}]
                      [] OTHER           -> exported

(* It completes; the reply is sent before or after the changed properties   *)
CompleteRequest(r) ==
    /\ requests' = requests \ {r}
    /\ \E ok \in {k \in BOOLEAN : k => exported.present /\ CanSucceed(r.op)} :
          LET after == IF ok THEN AfterSuccess(r.op) ELSE exported IN
          /\ exported' = IF after.present THEN [after EXCEPT !.jobs = JobsOf(requests')]
                                          ELSE after
          /\ held' = Witnessed(exported')
          /\ LET reply == Told(r.call, ok)
             IN \/ bus' = Append(Announced(exported'), reply)
                \/ ~r.sync /\ bus' = Append(Append(bus, reply), Properties(exported'))
    /\ UNCHANGED <<kind, events, seen, deviceVars>>

-----------------------------------------------------------------------------
(* DBlockDevice                                                            *)

(* findJob(): powerOff() looks at the jobs of the drive as well             *)
FindJob(op) == /\ seen.present
               /\ \/ "block" \in seen.jobs
                  \/ op = "powerOff" /\ kind.drive /\ "drive" \in seen.jobs

Row(when, error, result) == [when |-> when, error |-> error, result |-> result]

Busy(op) == Row(FindJob(op), "Busy", FALSE)
NoFilesystem(result) == Row(~(seen.present /\ kind.fs), "NotMountable", result)
NoDriver    == Row(~(seen.present /\ kind.drive), "NoDriver", FALSE)
NotEjectable == Row(~(seen.present /\ kind.ejectable), "NotEjectable", FALSE)
NoEncrypted == Row(~(seen.present /\ kind.encrypted), "NotEncryptable", FALSE)

(* What each operation looks at before it sends its request, in order.      *)
Checks(op, sync) ==
    CASE op = "mount"    -> <<Busy(op), NoFilesystem(FALSE), Row(seen.mounted, "AlreadyMounted", TRUE)>>
      [] op = "unmount"  -> <<Busy(op), NoFilesystem(TRUE), Row(~seen.mounted, "NotMounted", TRUE)>>
      [] op = "rename"   -> <<Busy(op), NoFilesystem(FALSE), Row(seen.mounted, "AlreadyMounted", FALSE)>>
      [] op = "eject" /\ sync  -> <<Busy(op), NoDriver, NotEjectable>>
      [] op = "eject" /\ ~sync -> <<Busy(op), NotEjectable, NoDriver>>
      [] op = "powerOff" -> <<Busy(op), NoDriver>>
      [] op \in EncryptedOps -> <<Busy(op), NoEncrypted>>
      [] op = "rescan"   -> <<Busy(op), Row(~seen.present, "NoBlock", FALSE)>>

NewCall(op, sync) == [op |-> op, sync |-> sync, answered |-> FALSE, result |-> FALSE,
                      error |-> "None", by |-> 0, fresh |-> FALSE]
Answered(call, result, error, c) ==
    [call EXCEPT !.answered = TRUE, !.result = result, !.error = error, !.by = c]

\* Mutants: lastError keeps what it was; the callback is not called.
SettleSilently(op, sync, row) ==
    /\ UNCHANGED <<lastError, requests>>
    /\ calls' = Append(calls, Answered(NewCall(op, sync), row.result,
                                       lastError.code, lastError.by))

SettleUnanswered(op, sync, row) ==
    /\ lastError' = [code |-> row.error, by |-> Len(calls) + 1]
    /\ calls' = Append(calls, NewCall(op, sync))
    /\ UNCHANGED requests

(* A check holds: answered at once.  rescan() leaves lastError alone, and   *)
(* its asynchronous form tells the callback an error of its own.            *)
Settle(op, sync, row) ==
    LET c == Len(calls) + 1
        kept == op = "rescan" /\ row.error = "NoBlock"
        own == IF kept THEN lastError ELSE [code |-> row.error, by |-> c]
        told == IF kept /\ ~sync THEN [code |-> "NoBlock", by |-> c] ELSE own
    IN /\ lastError' = own
       /\ calls' = Append(calls, [Answered(NewCall(op, sync), row.result, told.code, told.by)
                                      EXCEPT !.fresh = seen = exported])
       /\ UNCHANGED requests

Send(op, sync) ==
    /\ calls' = Append(calls, [NewCall(op, sync) EXCEPT !.fresh = TRUE])
    /\ requests' = requests \cup
          {[call |-> Len(calls) + 1, op |-> op, sync |-> sync, job |-> "none"]}
    /\ UNCHANGED lastError

Operate(op, sync) ==
    /\ ~Blocked /\ Len(calls) < MaxCalls
    /\ LET checks == Checks(op, sync)
           hold == {i \in DOMAIN checks : checks[i].when}
       IN \/ hold = {} /\ Send(op, sync)
          \/ \E i \in hold : (\A j \in hold : i <= j) /\ Settle(op, sync, checks[i])
    /\ held' = Append(held, {exported.mounted})
    /\ UNCHANGED <<kind, exported, events, bus, seen>>

(* The property getters, const as they are, write lastError when the         *)
(* interface they look up is missing: that of a partition always is, and     *)
(* which one it was is left out                                              *)
GetProperty ==
    /\ ~Blocked
    /\ lastError' = [code |-> "NoInterface", by |-> 0]
    /\ UNCHANGED <<kind, exported, requests, events, bus, seen, calls, held>>

(* The blocking call takes its reply from the connection's own thread; a    *)
(* failure is kept in lastError, but for rescan()                           *)
SyncReturn(c) ==
    \E i \in DOMAIN bus :
        /\ bus[i].type = "reply" /\ bus[i].to = c /\ calls[c].sync
        /\ bus' = RemoveAt(bus, i)
        /\ lastError' = IF bus[i].ok \/ calls[c].op = "rescan" THEN lastError
                        ELSE [code |-> "Failed", by |-> c]
        /\ calls' = [calls EXCEPT ![c] =
                        Answered(@, bus[i].ok, lastError'.code, lastError'.by)]
        /\ UNCHANGED <<kind, exported, requests, events, seen, held>>

\* Mutant: success is reported whatever UDisks answered.
AsyncCallbackSucceeds(message) ==
    /\ calls' = [calls EXCEPT ![message.to] = Answered(@, TRUE, "None", message.to)]
    /\ UNCHANGED <<seen, lastError>>

(* The finish callbacks: the error goes to the caller and not to lastError, *)
(* and the device is not needed: it may be destroyed, which ends the calls  *)
AsyncCallback(message) ==
    LET c == message.to IN
    /\ calls' = [calls EXCEPT ![c] =
                    Answered(@, message.ok, IF message.ok THEN "None" ELSE "Failed", c)]
    /\ UNCHANGED <<seen, lastError>>

(* The main loop runs only while no blocking call is made                   *)
MainLoop ==
    /\ ~Blocked /\ bus # <<>>
    /\ LET message == Head(bus)
       IN IF message.type = "reply" THEN AsyncCallback(message)
          ELSE seen' = message.of /\ UNCHANGED <<calls, lastError>>
    /\ bus' = Tail(bus)
    /\ UNCHANGED <<kind, exported, requests, events, held>>

-----------------------------------------------------------------------------
Init ==
    /\ kind \in Kinds
    /\ \E m \in {k \in BOOLEAN : k => kind.fs} :
          exported = [present |-> TRUE, mounted |-> m, jobs |-> {}]
    /\ seen = exported
    /\ requests = {} /\ events = 0 /\ bus = <<>>
    /\ calls = <<>> /\ held = <<>>
    /\ lastError = [code |-> "None", by |-> 0]

UDisks == \/ OtherChange
          \/ \E r \in requests : ExportJob(r) \/ CompleteRequest(r)

Next ==
    \/ UDisks
    \/ \E op \in Ops, sync \in BOOLEAN : Operate(op, sync)
    \/ GetProperty
    \/ \E c \in DOMAIN calls : SyncReturn(c)
    \/ MainLoop

(* UDisks completes what it was asked (D-Bus answers for a service that     *)
(* has gone), and the main thread runs                                      *)
Fairness == /\ WF_vars(\E r \in requests : CompleteRequest(r))
            /\ WF_vars(\E c \in DOMAIN calls : SyncReturn(c))
            /\ WF_vars(MainLoop)

Spec == Init /\ [][Next]_vars /\ Fairness

-----------------------------------------------------------------------------
(* Properties                                                              *)

(* A failed call finds its own reason: in the error its callback is given,  *)
(* or in lastError() once the blocking form has returned, whatever calls    *)
(* were answered and whatever properties were read in between.  The         *)
(* blocking rescan() alone does not say.                                    *)
FailuresExplained ==
    \A c \in DOMAIN calls :
        (calls[c].answered /\ ~calls[c].result /\ ~(calls[c].op = "rescan" /\ calls[c].sync))
            => calls[c].by = c /\ calls[c].error # "None"

(* mount() and unmount() answered with success tell the truth: at some      *)
(* moment between call and answer the device was so, provided that the      *)
(* cache was up to date when the call was settled from it.  Devices without *)
(* a file system are never mounted.                                         *)
AnswersTrue ==
    \A c \in DOMAIN calls :
        (calls[c].answered /\ calls[c].result /\ calls[c].fresh)
            => /\ calls[c].op = "mount" => TRUE \in held[c]
               /\ calls[c].op = "unmount" => FALSE \in held[c]

(* Every call is answered exactly once, by its return value or its callback *)
(* - refused, settled from the cache or by the reply of UDisks.             *)
Ledger == INSTANCE JobLedger WITH
    Calls <- Ids,
    asked <- DOMAIN calls,
    answered <- {c \in DOMAIN calls : calls[c].answered}

LedgerSpec == Ledger!Spec

=============================================================================
