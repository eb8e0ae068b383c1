-------------------------- MODULE BlockDeviceProofs --------------------------
(***************************************************************************)
(* Proofs about BlockDevice, for every set of devices, every number of     *)
(* calls and whatever other programs do.                                   *)
(*                                                                         *)
(* The invariant follows a call: while it is not answered it has a request *)
(* at UDisks or a reply on the bus, never two of them, and a reply that    *)
(* says success is about a state the device was in since the call.         *)
(***************************************************************************)
EXTENDS BlockDevice, SequenceTheorems, TLAPS

-----------------------------------------------------------------------------
(* The inductive invariant                                                 *)

Codes == {"None", "Busy", "NotMountable", "AlreadyMounted", "NotMounted", "NoDriver", "NotEjectable",
          "NotEncryptable", "NoBlock", "NoInterface", "Failed"}
Exported == [present : BOOLEAN, mounted : BOOLEAN, jobs : SUBSET Places]
Request == [call : Nat, op : Ops, sync : BOOLEAN, job : Places \cup {"none"}]
Message == [type : {"properties"}, of : Exported] \cup [type : {"reply"}, to : Nat, ok : BOOLEAN]
CallRecord == [op : Ops, sync : BOOLEAN, answered : BOOLEAN, result : BOOLEAN,
               error : Codes, by : Nat, fresh : BOOLEAN]

Types ==
    /\ kind \in Kinds /\ exported \in Exported /\ bus \in Seq(Message) /\ requests \subseteq Request
    /\ calls \in Seq(CallRecord) /\ Len(calls) <= MaxCalls
    /\ held \in Seq(SUBSET BOOLEAN) /\ Len(held) = Len(calls)
    /\ lastError \in [code : Codes, by : Nat]

(* Nothing is mounted that is not there                                     *)
Mounts == exported.mounted = TRUE => exported.present = TRUE /\ kind.fs = TRUE

(* The device was in the state that a successful op brings about or finds   *)
Happened(op, states) == (op = "mount" => TRUE \in states) /\ (op = "unmount" => FALSE \in states)

(* Requests are those of calls C that wait, one each                        *)
RequestsFit(R, C) ==
    /\ \A r \in R : /\ r.call \in DOMAIN C /\ C[r.call].answered = FALSE /\ r.op = C[r.call].op
                    /\ r.op = "mount" => kind.fs = TRUE
    /\ \A r, q \in R : r.call = q.call => r = q

IsReply(b, i) == i \in DOMAIN b /\ b[i].type = "reply"

(* Replies on the bus b are to calls C that wait, one each; H are the states *)
(* of the device that the calls have seen                                   *)
RepliesFit(b, C, H) ==
    /\ \A i \in DOMAIN b : IsReply(b, i) =>
          /\ b[i].to \in DOMAIN C /\ C[b[i].to].answered = FALSE
          /\ b[i].ok = TRUE => Happened(C[b[i].to].op, H[b[i].to])
    /\ \A i, j \in DOMAIN b : (IsReply(b, i) /\ IsReply(b, j) /\ b[i].to = b[j].to) => i = j

(* No call has both                                                         *)
Apart(b, R) == \A i \in DOMAIN b, r \in R : IsReply(b, i) => b[i].to # r.call

(* What an answered call was told: its own error, or the truth              *)
Told1(call, c) ==
    (call.answered = TRUE /\ call.result = FALSE /\ ~(call.op = "rescan" /\ call.sync = TRUE))
        => call.by = c /\ call.error # "None"
Told2(call, states) ==
    (call.answered = TRUE /\ call.result = TRUE /\ call.fresh = TRUE) => Happened(call.op, states)
AnswersFit(C, H) == \A c \in DOMAIN C : Told1(C[c], c) /\ Told2(C[c], H[c])

IInv ==
    /\ Types /\ Mounts
    /\ RequestsFit(requests, calls) /\ RepliesFit(bus, calls, held) /\ Apart(bus, requests)
    /\ AnswersFit(calls, held)

-----------------------------------------------------------------------------
(* Sequences                                                               *)

\* A sequence with an element more.
LEMMA Added ==
    ASSUME NEW S, NEW q \in Seq(S), NEW x \in S
    PROVE  /\ Append(q, x) \in Seq(S) /\ Len(Append(q, x)) = Len(q) + 1
           /\ DOMAIN Append(q, x) = DOMAIN q \cup {Len(q) + 1} /\ Len(q) + 1 \notin DOMAIN q
           /\ Append(q, x)[Len(q) + 1] = x /\ \A i \in DOMAIN q : Append(q, x)[i] = q[i]
<1>1. /\ Append(q, x) \in Seq(S) /\ Len(Append(q, x)) = Len(q) + 1
      /\ \A i \in 1..Len(q) : Append(q, x)[i] = q[i]
      /\ Append(q, x)[Len(q) + 1] = x
  BY AppendProperties
<1>2. Len(q) \in Nat /\ DOMAIN q = 1..Len(q) /\ DOMAIN Append(q, x) = 1..(Len(q) + 1)
  BY <1>1, LenProperties
<1> QED
  BY <1>1, <1>2

\* A sequence with an element less.
LEMMA Removed ==
    ASSUME NEW S, NEW q \in Seq(S), NEW n \in DOMAIN q
    PROVE  /\ RemoveAt(q, n) \in Seq(S)
           /\ \A i \in DOMAIN RemoveAt(q, n) :
                 \/ i < n /\ i \in DOMAIN q /\ RemoveAt(q, n)[i] = q[i]
                 \/ i >= n /\ i + 1 \in DOMAIN q /\ RemoveAt(q, n)[i] = q[i + 1]
<1> DEFINE a == SubSeq(q, 1, n - 1)
           b == SubSeq(q, n + 1, Len(q))
<1>1. Len(q) \in Nat /\ DOMAIN q = 1..Len(q) /\ n \in 1..Len(q) /\ \A i \in 1..Len(q) : q[i] \in S
  BY LenProperties, ElementOfSeq
<1>2. a \in Seq(S) /\ Len(a) = n - 1 /\ \A i \in 1..(n - 1) : a[i] = q[i]
  <2>1. \A i \in 1..(n - 1) : q[i] \in S
    BY <1>1
  <2> QED
    BY <1>1, <2>1, SubSeqProperties
<1>3. b \in Seq(S) /\ Len(b) = Len(q) - n /\ \A i \in 1..(Len(q) - n) : b[i] = q[n + i]
  <2>1. \A i \in (n + 1)..Len(q) : q[i] \in S
    BY <1>1
  <2>2. /\ b \in Seq(S) /\ Len(b) = IF n + 1 <= Len(q) THEN Len(q) - (n + 1) + 1 ELSE 0
        /\ \A i \in 1..(Len(q) - (n + 1) + 1) : b[i] = q[n + 1 + i - 1]
    BY <1>1, <2>1, SubSeqProperties
  <2> HIDE DEF b
  <2>3. Len(b) = Len(q) - n
    BY <1>1, <2>2
  <2>4. ASSUME NEW i \in 1..(Len(q) - n) PROVE b[i] = q[n + i]
    <3>1. i \in 1..(Len(q) - (n + 1) + 1) /\ n + 1 + i - 1 = n + i
      BY <1>1
    <3> QED
      BY <2>2, <3>1
  <2> QED
    BY <2>2, <2>3, <2>4
<1> HIDE DEF a, b
<1>4. /\ a \o b \in Seq(S) /\ Len(a \o b) = Len(q) - 1
      /\ \A i \in 1..(Len(q) - 1) : (a \o b)[i] = IF i <= n - 1 THEN a[i] ELSE b[i - (n - 1)]
  <2>1. /\ a \o b \in Seq(S) /\ Len(a \o b) = Len(a) + Len(b)
        /\ \A i \in 1..(Len(a) + Len(b)) : (a \o b)[i] = IF i <= Len(a) THEN a[i] ELSE b[i - Len(a)]
    BY <1>2, <1>3, ConcatProperties, Zenon
  <2>2. Len(a) + Len(b) = Len(q) - 1
    BY <1>1, <1>2, <1>3
  <2> QED
    BY <1>2, <2>1, <2>2
<1>5. RemoveAt(q, n) = a \o b
  BY DEF RemoveAt, a, b
<1>6. DOMAIN (a \o b) = 1..(Len(q) - 1)
  BY <1>4, LenProperties
<1> DEFINE ab == a \o b
<1> HIDE DEF RemoveAt, ab
<1>7. ASSUME NEW i \in 1..(Len(q) - 1)
      PROVE  \/ i < n /\ i \in DOMAIN q /\ ab[i] = q[i]
             \/ i >= n /\ i + 1 \in DOMAIN q /\ ab[i] = q[i + 1]
  <2>1. CASE i < n
    BY <1>1, <1>2, <1>4, <2>1 DEF ab
  <2>2. CASE i >= n
    <3>1. ab[i] = b[i - (n - 1)] /\ i - (n - 1) \in 1..(Len(q) - n)
      BY <1>1, <1>4, <2>2 DEF ab
    <3>2. b[i - (n - 1)] = q[n + (i - (n - 1))] /\ n + (i - (n - 1)) = i + 1
      BY <1>1, <1>3, <3>1
    <3> QED
      BY <1>1, <2>2, <3>1, <3>2
  <2> QED
    BY <1>1, <2>1, <2>2
<1> QED
  BY <1>4, <1>5, <1>6, <1>7 DEF ab

\* The rest of a queue.
LEMMA Rest ==
    ASSUME NEW S, NEW q \in Seq(S), q # <<>>
    PROVE  /\ Tail(q) \in Seq(S) /\ 1 \in DOMAIN q /\ Head(q) = q[1]
           /\ \A i \in DOMAIN Tail(q) : i >= 1 /\ i + 1 \in DOMAIN q /\ Tail(q)[i] = q[i + 1]
<1>1. Tail(q) \in Seq(S) /\ Len(Tail(q)) = Len(q) - 1 /\ \A i \in 1..Len(Tail(q)) : Tail(q)[i] = q[i + 1]
  BY HeadTailProperties
<1>2. Len(q) \in Nat /\ Len(q) # 0 /\ DOMAIN q = 1..Len(q) /\ DOMAIN Tail(q) = 1..Len(Tail(q))
  BY <1>1, EmptySeq, LenProperties
<1>3. Head(q) = q[1]
  BY <1>2, HeadTailProperties, ElementOfSeq
<1> QED
  BY <1>1, <1>2, <1>3

-----------------------------------------------------------------------------
(* The bus                                                                 *)

\* Signals are not replies.
LEMMA SignalPosted ==
    ASSUME NEW b \in Seq(Message), NEW R, NEW C, NEW H, NEW e \in Exported,
           RepliesFit(b, C, H), Apart(b, R)
    PROVE  LET d == Append(b, Properties(e))
           IN d \in Seq(Message) /\ RepliesFit(d, C, H) /\ Apart(d, R)
<1> DEFINE d == Append(b, Properties(e))
<1>1. Properties(e) \in Message /\ Properties(e).type = "properties"
  BY DEF Properties, Message
<1>2. /\ d \in Seq(Message) /\ DOMAIN d = DOMAIN b \cup {Len(b) + 1} /\ d[Len(b) + 1] = Properties(e)
      /\ \A i \in DOMAIN b : d[i] = b[i]
  BY <1>1, Added
<1> HIDE DEF d
<1>3. \A i \in DOMAIN d : IsReply(d, i) => i \in DOMAIN b /\ IsReply(b, i) /\ d[i] = b[i]
  BY <1>1, <1>2 DEF IsReply
<1> QED
  BY <1>2, <1>3 DEF RepliesFit, Apart, d

\* A reply to a call that waits for one.
LEMMA ReplyPosted ==
    ASSUME NEW b \in Seq(Message), NEW R, NEW C, NEW H, NEW c \in Nat, NEW ok \in BOOLEAN,
           RepliesFit(b, C, H), Apart(b, R),
           c \in DOMAIN C, C[c].answered = FALSE, ok = TRUE => Happened(C[c].op, H[c]),
           \A i \in DOMAIN b : IsReply(b, i) => b[i].to # c,
           \A r \in R : r.call # c
    PROVE  LET d == Append(b, Told(c, ok))
           IN d \in Seq(Message) /\ RepliesFit(d, C, H) /\ Apart(d, R)
<1> DEFINE d == Append(b, Told(c, ok))
           n == Len(b) + 1
<1>1. Told(c, ok) \in Message /\ Told(c, ok).to = c /\ Told(c, ok).ok = ok
  BY DEF Told, Message
<1>2. /\ d \in Seq(Message) /\ DOMAIN d = DOMAIN b \cup {n} /\ d[n] = Told(c, ok)
      /\ \A i \in DOMAIN b : d[i] = b[i]
  BY <1>1, Added
<1> HIDE DEF d, n
<1>3. \A i \in DOMAIN d : IsReply(d, i) => \/ i \in DOMAIN b /\ IsReply(b, i) /\ d[i] = b[i]
                                           \/ i = n /\ d[i].to = c /\ d[i].ok = ok
  BY <1>1, <1>2 DEF IsReply
<1>4. RepliesFit(d, C, H)
  BY <1>2, <1>3 DEF RepliesFit
<1>5. Apart(d, R)
  BY <1>2, <1>3 DEF Apart
<1> QED
  BY <1>2, <1>4, <1>5 DEF d

\* What a message less leaves on the bus.
LEMMA MessageTaken ==
    ASSUME NEW b \in Seq(Message), NEW d \in Seq(Message), NEW R, NEW C, NEW H, NEW n \in DOMAIN b,
           RepliesFit(b, C, H), Apart(b, R),
           \A i \in DOMAIN d : \/ i < n /\ i \in DOMAIN b /\ d[i] = b[i]
                               \/ i >= n /\ i + 1 \in DOMAIN b /\ d[i] = b[i + 1]
    PROVE  /\ RepliesFit(d, C, H) /\ Apart(d, R)
           /\ IsReply(b, n) => \A i \in DOMAIN d : IsReply(d, i) => d[i].to # b[n].to
<1> DEFINE f(i) == IF i < n THEN i ELSE i + 1
<1>1. \A i \in DOMAIN d : f(i) \in DOMAIN b /\ d[i] = b[f(i)] /\ f(i) # n /\ i \in Nat
  BY LenProperties
<1>2. \A i, j \in DOMAIN d : f(i) = f(j) => i = j
  BY LenProperties
<1> HIDE DEF f
<1>3. \A i \in DOMAIN d : IsReply(d, i) => IsReply(b, f(i))
  BY <1>1 DEF IsReply
<1>4. RepliesFit(d, C, H)
  BY <1>1, <1>2, <1>3 DEF RepliesFit
<1>5. Apart(d, R)
  BY <1>1, <1>3 DEF Apart
<1>6. IsReply(b, n) => \A i \in DOMAIN d : IsReply(d, i) => d[i].to # b[n].to
  BY <1>1, <1>3 DEF RepliesFit
<1> QED
  BY <1>4, <1>5, <1>6

\* Replies to calls that have only seen more still fit.
LEMMA StillFits ==
    ASSUME NEW b, NEW C, NEW C2, NEW H, NEW H2, RepliesFit(b, C, H),
           \A i \in DOMAIN b : IsReply(b, i) =>
               b[i].to \in DOMAIN C2 /\ C2[b[i].to] = C[b[i].to] /\ H[b[i].to] \subseteq H2[b[i].to]
    PROVE  RepliesFit(b, C2, H2)
BY DEF RepliesFit, Happened

-----------------------------------------------------------------------------
(* Steps of UDisks                                                         *)

\* What the calls have seen when the device changes.
LEMMA Witness ==
    ASSUME IInv, NEW e \in Exported, held' = Witnessed(e)
    PROVE  /\ held' \in Seq(SUBSET BOOLEAN) /\ Len(held') = Len(calls)
           /\ \A c \in DOMAIN calls : /\ c \in DOMAIN held /\ held[c] \subseteq held'[c]
                                      /\ calls[c].answered = FALSE => e.mounted \in held'[c]
           /\ AnswersFit(calls, held') /\ RepliesFit(bus, calls, held')
<1>1. /\ held \in Seq(SUBSET BOOLEAN) /\ Len(held) = Len(calls) /\ Len(calls) \in Nat
      /\ DOMAIN held = 1..Len(calls) /\ DOMAIN calls = 1..Len(calls) /\ e.mounted \in BOOLEAN
  BY LenProperties DEF IInv, Types, Exported
<1>2. DOMAIN calls = DOMAIN held /\ \A c \in DOMAIN held : held[c] \in SUBSET BOOLEAN
  BY <1>1, ElementOfSeq
<1>3. ASSUME NEW c \in DOMAIN calls
      PROVE  /\ held'[c] \in SUBSET BOOLEAN /\ held[c] \subseteq held'[c]
             /\ calls[c].answered = TRUE => held'[c] = held[c]
             /\ calls[c].answered = FALSE => e.mounted \in held'[c]
  <2>1. held'[c] = IF calls[c].answered THEN held[c] ELSE held[c] \cup {e.mounted}
    BY <1>2 DEF Witnessed
  <2>2. CASE calls[c].answered
    BY <1>2, <2>1, <2>2
  <2>3. CASE ~calls[c].answered
    BY <1>1, <1>2, <2>1, <2>3
  <2> QED
    BY <2>2, <2>3
<1>4. held' \in [1..Len(calls) -> SUBSET BOOLEAN]
  BY <1>1, <1>2 DEF Witnessed
<1>5. held' \in Seq(SUBSET BOOLEAN) /\ Len(held') = Len(calls)
  BY <1>1, <1>4
<1>6. AnswersFit(calls, held')
  <2>1. AnswersFit(calls, held)
    BY DEF IInv
  <2> SUFFICES ASSUME NEW c \in DOMAIN calls PROVE Told1(calls[c], c) /\ Told2(calls[c], held'[c])
    BY DEF AnswersFit
  <2>2. CASE calls[c].answered = TRUE
    <3>1. held'[c] = held[c]
      BY <1>3, <2>2
    <3> QED
      BY <2>1, <3>1 DEF AnswersFit
  <2>3. CASE calls[c].answered # TRUE
    BY <2>3 DEF Told1, Told2
  <2> QED
    BY <2>2, <2>3
<1>7. RepliesFit(bus, calls, held')
  <2>1. \A i \in DOMAIN bus : IsReply(bus, i) => bus[i].to \in DOMAIN calls
    BY DEF IInv, RepliesFit
  <2>2. \A i \in DOMAIN bus : IsReply(bus, i) =>
            /\ bus[i].to \in DOMAIN calls /\ calls[bus[i].to] = calls[bus[i].to]
            /\ held[bus[i].to] \subseteq held'[bus[i].to]
    BY <1>3, <2>1
  <2>3. RepliesFit(bus, calls, held)
    BY DEF IInv
  <2> QED
    BY <2>2, <2>3, StillFits, Zenon
<1>8. \A c \in DOMAIN calls : /\ c \in DOMAIN held /\ held[c] \subseteq held'[c]
                              /\ calls[c].answered = FALSE => e.mounted \in held'[c]
  BY <1>2, <1>3
<1> QED
  BY <1>5, <1>6, <1>7, <1>8

\* Another program, and the hardware.
LEMMA OthersChange == ASSUME IInv, OtherChange PROVE IInv'
<1>1. exported' \in Exported /\ Mounts'
  <2>1. kind.fs \in BOOLEAN /\ kind' = kind /\ exported \in Exported
    BY KindsAssumption DEF OtherChange, IInv, Types
  <2>2. CASE exported.present /\ kind.fs /\ exported' = [exported EXCEPT !.mounted = ~@]
    BY <2>1, <2>2 DEF Exported, Mounts
  <2>3. CASE exported' = [present |-> FALSE, mounted |-> FALSE, jobs |-> {}]
    BY <2>1, <2>3 DEF Exported, Mounts
  <2> QED
    BY <2>2, <2>3 DEF OtherChange
<1>2. /\ bus' = Append(bus, Properties(exported')) /\ held' = Witnessed(exported')
      /\ UNCHANGED <<kind, requests, calls, lastError>>
  BY DEF OtherChange, Announced, deviceVars
<1>3. /\ held' \in Seq(SUBSET BOOLEAN) /\ Len(held') = Len(calls)
      /\ AnswersFit(calls, held') /\ RepliesFit(bus, calls, held')
  BY <1>1, <1>2, Witness
<1>4. bus' \in Seq(Message) /\ RepliesFit(bus', calls, held') /\ Apart(bus', requests)
  BY <1>1, <1>2, <1>3, SignalPosted DEF IInv, Types
<1> QED
  BY <1>1, <1>2, <1>3, <1>4 DEF IInv, Types, RequestsFit

\* A job appears.
LEMMA JobAppears ==
    ASSUME IInv, NEW r \in requests, ExportJob(r) PROVE IInv'
<1> DEFINE job == IF r.op \in DriveOps THEN "drive" ELSE "block"
           new == [r EXCEPT !.job = job]
<1>1. /\ requests' = (requests \ {r}) \cup {new} /\ exported' = [exported EXCEPT !.jobs = JobsOf(requests')]
      /\ bus' = (IF exported' = exported THEN bus ELSE Append(bus, Properties(exported')))
      /\ UNCHANGED <<kind, calls, held, lastError>>
  BY DEF ExportJob, deviceVars, Announced
<1>2. r \in Request /\ requests \subseteq Request /\ exported \in Exported
  BY DEF IInv, Types
<1>3. new \in Request /\ new.call = r.call /\ new.op = r.op
  BY <1>2 DEF Request, Places
<1> HIDE DEF new
<1>4. exported' \in Exported /\ exported'.mounted = exported.mounted /\ exported'.present = exported.present
  BY <1>1, <1>2 DEF Exported, JobsOf
<1>5. requests' \subseteq Request
  BY <1>1, <1>2, <1>3
<1>6. RequestsFit(requests', calls)
  <2>1. \A q \in requests' : \E q0 \in requests : q.call = q0.call /\ q.op = q0.op
    BY <1>1, <1>3
  <2>2. \A q, p \in requests' : q.call = p.call => q = p
    BY <1>1, <1>3 DEF IInv, RequestsFit
  <2> QED
    BY <1>1, <2>1, <2>2 DEF IInv, RequestsFit
<1>7. Apart(bus, requests')
  BY <1>1, <1>3 DEF IInv, Apart
<1>8. bus' \in Seq(Message) /\ RepliesFit(bus', calls, held) /\ Apart(bus', requests')
  <2>1. bus \in Seq(Message) /\ RepliesFit(bus, calls, held)
    BY DEF IInv, Types
  <2>2. CASE exported' = exported
    BY <1>1, <1>7, <2>1, <2>2
  <2>3. CASE exported' # exported
    BY <1>1, <1>4, <1>7, <2>1, <2>3, SignalPosted
  <2> QED
    BY <2>2, <2>3
<1>9. Types' /\ Mounts'
  BY <1>1, <1>4, <1>5, <1>8 DEF IInv, Types, Mounts
<1> QED
  BY <1>1, <1>6, <1>8, <1>9 DEF IInv, RequestsFit

\* What a completed request makes of the device.
LEMMA DeviceAfter ==
    ASSUME IInv, NEW r \in requests, NEW ok \in BOOLEAN, NEW jobs \in SUBSET Places,
           ok => exported.present /\ CanSucceed(r.op)
    PROVE  LET after == IF ok THEN AfterSuccess(r.op) ELSE exported
               e == IF after.present THEN [after EXCEPT !.jobs = jobs] ELSE after
           IN /\ e \in Exported
              /\ e.mounted = TRUE => e.present = TRUE /\ kind.fs = TRUE
              /\ ok = TRUE => /\ r.op = "mount" => e.mounted = TRUE
                              /\ r.op = "unmount" => e.mounted = FALSE
<1> DEFINE after == IF ok THEN AfterSuccess(r.op) ELSE exported
           e == IF after.present THEN [after EXCEPT !.jobs = jobs] ELSE after
<1>1. /\ exported \in Exported
      /\ exported.mounted = TRUE => exported.present = TRUE /\ kind.fs = TRUE
      /\ r.op = "mount" => kind.fs = TRUE
  BY DEF IInv, Types, Mounts, RequestsFit
<1>2. /\ after \in Exported
      /\ after.mounted = TRUE => after.present = TRUE /\ kind.fs = TRUE
      /\ ok = TRUE => /\ r.op = "mount" => after.mounted = TRUE
                      /\ r.op = "unmount" => after.mounted = FALSE
  <2>1. CASE ~ok
    BY <1>1, <2>1
  <2>2. CASE ok /\ r.op = "mount"
    <3>1. after = [exported EXCEPT !.mounted = TRUE] /\ exported.present = TRUE
      BY <1>1, <2>2 DEF AfterSuccess, Exported
    <3> HIDE DEF after
    <3> QED
      BY <1>1, <2>2, <3>1 DEF Exported
  <2>3. CASE ok /\ r.op = "unmount"
    <3>1. after = [exported EXCEPT !.mounted = FALSE]
      BY <1>1, <2>3 DEF AfterSuccess
    <3> HIDE DEF after
    <3> QED
      BY <1>1, <2>3, <3>1 DEF Exported
  <2>4. CASE ok /\ r.op = "powerOff"
    <3>1. after = [present |-> FALSE, mounted |-> FALSE, jobs |-> {}]
      BY <2>4 DEF AfterSuccess
    <3> HIDE DEF after
    <3> QED
      BY <2>4, <3>1 DEF Exported
  <2>5. CASE ok /\ r.op \notin {"mount", "unmount", "powerOff"}
    <3>1. after = exported
      BY <2>5 DEF AfterSuccess
    <3> HIDE DEF after
    <3> QED
      BY <1>1, <2>5, <3>1
  <2> QED
    BY <2>1, <2>2, <2>3, <2>4, <2>5
<1> HIDE DEF after
<1>3. e \in Exported /\ e.mounted = after.mounted /\ e.present = after.present
  <2>1. CASE after.present
    <3>1. e = [after EXCEPT !.jobs = jobs]
      BY <2>1
    <3> HIDE DEF e
    <3> QED
      BY <1>2, <3>1 DEF Exported
  <2>2. CASE ~after.present
    <3>1. e = after
      BY <2>2
    <3> HIDE DEF e
    <3> QED
      BY <1>2, <3>1
  <2> QED
    BY <2>1, <2>2
<1> HIDE DEF e
<1>4. /\ e \in Exported
      /\ e.mounted = TRUE => e.present = TRUE /\ kind.fs = TRUE
      /\ ok = TRUE => /\ r.op = "mount" => e.mounted = TRUE
                      /\ r.op = "unmount" => e.mounted = FALSE
  BY <1>2, <1>3
<1> QED
  BY <1>4 DEF e, after

\* A request is completed.
LEMMA RequestCompletes ==
    ASSUME IInv, NEW r \in requests, CompleteRequest(r) PROVE IInv'
<1>1. PICK ok \in BOOLEAN :
          /\ ok => exported.present /\ CanSucceed(r.op)
          /\ LET after == IF ok THEN AfterSuccess(r.op) ELSE exported
             IN exported' = IF after.present THEN [after EXCEPT !.jobs = JobsOf(requests')] ELSE after
          /\ held' = Witnessed(exported')
          /\ \/ bus' = Append(Append(bus, Properties(exported')), Told(r.call, ok))
             \/ bus' = Append(Append(bus, Told(r.call, ok)), Properties(exported'))
  BY DEF CompleteRequest, Announced
<1>2. requests' = requests \ {r} /\ UNCHANGED <<kind, seen, calls, lastError>>
  BY DEF CompleteRequest, deviceVars
<1>3. /\ exported' \in Exported
      /\ exported'.mounted = TRUE => exported'.present = TRUE /\ kind.fs = TRUE
      /\ ok = TRUE => /\ r.op = "mount" => exported'.mounted = TRUE
                      /\ r.op = "unmount" => exported'.mounted = FALSE
  <2>1. JobsOf(requests') \in SUBSET Places
    BY DEF JobsOf
  <2> QED
    BY <1>1, <2>1, DeviceAfter
<1>4. /\ held' \in Seq(SUBSET BOOLEAN) /\ Len(held') = Len(calls)
      /\ \A c \in DOMAIN calls : calls[c].answered = FALSE => exported'.mounted \in held'[c]
      /\ AnswersFit(calls, held') /\ RepliesFit(bus, calls, held')
  <2>1. held' = Witnessed(exported') /\ exported' \in Exported
    BY <1>1, <1>3
  <2> QED
    BY <2>1, Witness
<1>5. /\ r.call \in Nat /\ r.call \in DOMAIN calls /\ calls[r.call].answered = FALSE
      /\ r.op = calls[r.call].op
      /\ \A q \in requests' : q.call # r.call /\ q \in requests
  BY <1>2 DEF IInv, Types, RequestsFit, Request
<1>6. ok = TRUE => Happened(calls[r.call].op, held'[r.call])
  <2>1. exported'.mounted \in held'[r.call]
    BY <1>4, <1>5
  <2>2. ok = TRUE => /\ calls[r.call].op = "mount" => TRUE \in held'[r.call]
                     /\ calls[r.call].op = "unmount" => FALSE \in held'[r.call]
    BY <1>3, <1>5, <2>1, Zenon
  <2> QED
    BY <2>2, Zenon DEF Happened
<1>7. bus \in Seq(Message) /\ Apart(bus, requests) /\ Apart(bus, requests')
  BY <1>5 DEF IInv, Types, Apart
<1>8. bus' \in Seq(Message) /\ RepliesFit(bus', calls, held') /\ Apart(bus', requests')
  <2>1. CASE bus' = Append(Append(bus, Properties(exported')), Told(r.call, ok))
    <3> DEFINE d == Append(bus, Properties(exported'))
    <3>1. d \in Seq(Message) /\ RepliesFit(d, calls, held') /\ Apart(d, requests)
      BY <1>3, <1>4, <1>7, SignalPosted
    <3> HIDE DEF d
    <3>2. Apart(d, requests') /\ \A i \in DOMAIN d : IsReply(d, i) => d[i].to # r.call
      BY <1>5, <3>1 DEF Apart
    <3>3. bus' = Append(d, Told(r.call, ok))
      BY <2>1 DEF d
    <3> QED
      BY <1>5, <1>6, <3>1, <3>2, <3>3, ReplyPosted
  <2>2. CASE bus' = Append(Append(bus, Told(r.call, ok)), Properties(exported'))
    <3> DEFINE d == Append(bus, Told(r.call, ok))
    <3>1. \A i \in DOMAIN bus : IsReply(bus, i) => bus[i].to # r.call
      BY <1>7 DEF Apart
    <3>2. d \in Seq(Message) /\ RepliesFit(d, calls, held') /\ Apart(d, requests')
      BY <1>4, <1>5, <1>6, <1>7, <3>1, ReplyPosted
    <3> HIDE DEF d
    <3>3. bus' = Append(d, Properties(exported'))
      BY <2>2 DEF d
    <3> QED
      BY <1>3, <3>2, <3>3, SignalPosted
  <2> QED
    BY <1>1, <2>1, <2>2
<1>9. Types' /\ Mounts'
  BY <1>2, <1>3, <1>4, <1>8 DEF IInv, Types, Mounts
<1>10. RequestsFit(requests', calls')
  BY <1>2, <1>5 DEF IInv, RequestsFit
<1> QED
  BY <1>2, <1>4, <1>8, <1>9, <1>10 DEF IInv, RequestsFit

-----------------------------------------------------------------------------
(* Steps of the device                                                     *)

\* What holds of a check that an operation may be settled by.
RowFits(row, op) ==
    /\ row.error \in Codes \ {"None"} /\ row.result \in BOOLEAN
    /\ row.error = "NoBlock" => op = "rescan"
    /\ (row.when /\ row.result = TRUE) =>
          \/ op = "mount" /\ seen.mounted
          \/ op = "unmount" /\ ~(seen.mounted /\ seen.present /\ kind.fs)

\* Refusals are failures.
LEMMA Refused ==
    ASSUME NEW op, NEW when, NEW error \in Codes \ {"None", "NoBlock"}
    PROVE  RowFits(Row(when, error, FALSE), op)
BY DEF Row, RowFits

LEMMA CommonRows ==
    ASSUME NEW op
    PROVE  /\ RowFits(Busy(op), op) /\ RowFits(NoFilesystem(FALSE), op) /\ RowFits(NoDriver, op)
           /\ RowFits(NotEjectable, op) /\ RowFits(NoEncrypted, op)
<1>1. {"Busy", "NotMountable", "NoDriver", "NotEjectable", "NotEncryptable"} \subseteq Codes \ {"None", "NoBlock"}
  BY DEF Codes
<1> QED
  BY <1>1, Refused DEF Busy, NoFilesystem, NoDriver, NotEjectable, NoEncrypted

LEMMA OneOfThree ==
    ASSUME NEW x, NEW y, NEW z, NEW i \in DOMAIN <<x, y, z>>
    PROVE  <<x, y, z>>[i] \in {x, y, z}
OBVIOUS

LEMMA SecondOfThree ==
    ASSUME NEW x, NEW y, NEW z
    PROVE  2 \in DOMAIN <<x, y, z>> /\ <<x, y, z>>[2] = y
OBVIOUS

LEMMA OneOfTwo ==
    ASSUME NEW x, NEW y, NEW i \in DOMAIN <<x, y>>
    PROVE  <<x, y>>[i] \in {x, y}
OBVIOUS

LEMMA RowsFit ==
    ASSUME NEW op \in Ops, NEW sync \in BOOLEAN, NEW i \in DOMAIN Checks(op, sync)
    PROVE  RowFits(Checks(op, sync)[i], op)
<1>1. CASE op = "mount"
  <2>1. Checks(op, sync) = <<Busy(op), NoFilesystem(FALSE), Row(seen.mounted, "AlreadyMounted", TRUE)>>
    BY <1>1 DEF Checks, EncryptedOps
  <2>2. RowFits(Row(seen.mounted, "AlreadyMounted", TRUE), op)
    BY <1>1 DEF Row, RowFits, Codes
  <2>3. Checks(op, sync)[i] \in {Busy(op), NoFilesystem(FALSE), Row(seen.mounted, "AlreadyMounted", TRUE)}
    BY <2>1, OneOfThree, Zenon
  <2> QED
    BY <2>2, <2>3, CommonRows, Zenon
<1>2. CASE op = "unmount"
  <2>1. Checks(op, sync) = <<Busy(op), NoFilesystem(TRUE), Row(~seen.mounted, "NotMounted", TRUE)>>
    BY <1>2 DEF Checks, EncryptedOps
  <2>2. RowFits(Row(~seen.mounted, "NotMounted", TRUE), op) /\ RowFits(NoFilesystem(TRUE), op)
    BY <1>2 DEF NoFilesystem, Row, RowFits, Codes
  <2>3. Checks(op, sync)[i] \in {Busy(op), NoFilesystem(TRUE), Row(~seen.mounted, "NotMounted", TRUE)}
    BY <2>1, OneOfThree, Zenon
  <2> QED
    BY <2>2, <2>3, CommonRows, Zenon
<1>3. CASE op = "rename"
  <2>1. Checks(op, sync) = <<Busy(op), NoFilesystem(FALSE), Row(seen.mounted, "AlreadyMounted", FALSE)>>
    BY <1>3 DEF Checks, EncryptedOps
  <2>2. RowFits(Row(seen.mounted, "AlreadyMounted", FALSE), op)
    BY Refused DEF Codes
  <2>3. Checks(op, sync)[i] \in {Busy(op), NoFilesystem(FALSE), Row(seen.mounted, "AlreadyMounted", FALSE)}
    BY <2>1, OneOfThree, Zenon
  <2> QED
    BY <2>2, <2>3, CommonRows, Zenon
<1>4. CASE op = "eject" /\ sync
  <2>1. Checks(op, sync) = <<Busy(op), NoDriver, NotEjectable>>
    BY <1>4 DEF Checks, EncryptedOps
  <2>3. Checks(op, sync)[i] \in {Busy(op), NoDriver, NotEjectable}
    BY <2>1, OneOfThree, Zenon
  <2> QED
    BY <2>3, CommonRows, Zenon
<1>5. CASE op = "eject" /\ ~sync
  <2>1. Checks(op, sync) = <<Busy(op), NotEjectable, NoDriver>>
    BY <1>5 DEF Checks, EncryptedOps
  <2>3. Checks(op, sync)[i] \in {Busy(op), NotEjectable, NoDriver}
    BY <2>1, OneOfThree, Zenon
  <2> QED
    BY <2>3, CommonRows, Zenon
<1>6. CASE op = "powerOff"
  <2>1. Checks(op, sync) = <<Busy(op), NoDriver>>
    BY <1>6 DEF Checks, EncryptedOps
  <2>3. Checks(op, sync)[i] \in {Busy(op), NoDriver}
    BY <2>1, OneOfTwo, Zenon
  <2> QED
    BY <2>3, CommonRows, Zenon
<1>7. CASE op \in EncryptedOps
  <2>1. Checks(op, sync) = <<Busy(op), NoEncrypted>>
    BY <1>7 DEF Checks, EncryptedOps
  <2>3. Checks(op, sync)[i] \in {Busy(op), NoEncrypted}
    BY <2>1, OneOfTwo, Zenon
  <2> QED
    BY <2>3, CommonRows, Zenon
<1>8. CASE op = "rescan"
  <2>1. Checks(op, sync) = <<Busy(op), Row(~seen.present, "NoBlock", FALSE)>>
    BY <1>8 DEF Checks, EncryptedOps
  <2>2. RowFits(Row(~seen.present, "NoBlock", FALSE), op)
    BY <1>8 DEF Row, RowFits, Codes
  <2>3. Checks(op, sync)[i] \in {Busy(op), Row(~seen.present, "NoBlock", FALSE)}
    BY <2>1, OneOfTwo, Zenon
  <2> QED
    BY <2>2, <2>3, CommonRows, Zenon
<1> QED
  BY <1>1, <1>2, <1>3, <1>4, <1>5, <1>6, <1>7, <1>8 DEF Ops, FilesystemOps, DriveOps

\* A request for a mount is sent for a file system only.
LEMMA MountSent ==
    ASSUME IInv, NEW sync \in BOOLEAN, {i \in DOMAIN Checks("mount", sync) : Checks("mount", sync)[i].when} = {}
    PROVE  kind.fs = TRUE
<1>1. Checks("mount", sync)[2] = NoFilesystem(FALSE) /\ 2 \in DOMAIN Checks("mount", sync)
  <2> DEFINE first == Busy("mount")
             second == NoFilesystem(FALSE)
             third == Row(seen.mounted, "AlreadyMounted", TRUE)
  <2>1. Checks("mount", sync) = <<first, second, third>>
    BY DEF Checks, EncryptedOps
  <2> HIDE DEF first, second, third
  <2>2. 2 \in DOMAIN <<first, second, third>> /\ <<first, second, third>>[2] = second
    BY SecondOfThree
  <2> QED
    BY <2>1, <2>2, Zenon DEF second
<1>2. ~NoFilesystem(FALSE).when
  BY <1>1
<1>3. kind.fs
  BY <1>2 DEF NoFilesystem, Row
<1>4. kind.fs \in BOOLEAN
  BY KindsAssumption DEF IInv, Types
<1> QED
  BY <1>3, <1>4

\* A call is made.
LEMMA CallMade ==
    ASSUME IInv, Len(calls) < MaxCalls, NEW call \in CallRecord, calls' = Append(calls, call),
           held' = Append(held, {exported.mounted}), UNCHANGED <<kind, exported, bus>>,
           lastError' \in [code : Codes, by : Nat],
           Told1(call, Len(calls) + 1), Told2(call, {exported.mounted}),
           \/ requests' = requests
           \/ \E r \in Request : /\ requests' = requests \cup {r} /\ r.call = Len(calls) + 1
                                 /\ r.op = call.op /\ call.answered = FALSE
                                 /\ r.op = "mount" => kind.fs = TRUE
    PROVE  IInv'
<1> DEFINE n == Len(calls) + 1
<1>1. /\ calls \in Seq(CallRecord) /\ Len(calls) \in Nat /\ DOMAIN calls = 1..Len(calls)
      /\ held \in Seq(SUBSET BOOLEAN) /\ Len(held) = Len(calls) /\ {exported.mounted} \in SUBSET BOOLEAN
      /\ DOMAIN held = DOMAIN calls
  BY LenProperties DEF IInv, Types, Exported
<1>2. /\ calls' \in Seq(CallRecord) /\ Len(calls') = n /\ DOMAIN calls' = DOMAIN calls \cup {n}
      /\ n \notin DOMAIN calls /\ calls'[n] = call /\ \A c \in DOMAIN calls : calls'[c] = calls[c]
  BY <1>1, Added
<1>3. /\ held' \in Seq(SUBSET BOOLEAN) /\ Len(held') = n
      /\ held'[n] = {exported.mounted} /\ \A c \in DOMAIN calls : held'[c] = held[c]
  BY <1>1, Added
<1>4. n \in Nat /\ n <= MaxCalls
  BY <1>1, BoundsAssumption
<1> HIDE DEF n
<1>5. AnswersFit(calls', held')
  <2> SUFFICES ASSUME NEW c \in DOMAIN calls' PROVE Told1(calls'[c], c) /\ Told2(calls'[c], held'[c])
    BY DEF AnswersFit
  <2>1. CASE c = n
    BY <1>2, <1>3, <2>1 DEF n
  <2>2. CASE c \in DOMAIN calls
    BY <1>2, <1>3, <2>2 DEF IInv, AnswersFit
  <2> QED
    BY <1>2, <2>1, <2>2
<1>6. RepliesFit(bus, calls', held')
  <2>1. \A i \in DOMAIN bus : IsReply(bus, i) => bus[i].to \in DOMAIN calls
    BY DEF IInv, RepliesFit
  <2>2. \A i \in DOMAIN bus : IsReply(bus, i) =>
            /\ bus[i].to \in DOMAIN calls' /\ calls'[bus[i].to] = calls[bus[i].to]
            /\ held[bus[i].to] \subseteq held'[bus[i].to]
    BY <1>2, <1>3, <2>1
  <2>3. RepliesFit(bus, calls, held)
    BY DEF IInv
  <2> QED
    BY <2>2, <2>3 DEF RepliesFit, Happened
<1>7. requests' \subseteq Request /\ RequestsFit(requests', calls') /\ Apart(bus, requests')
  <2>1. /\ requests \subseteq Request /\ RequestsFit(requests, calls) /\ Apart(bus, requests)
        /\ \A i \in DOMAIN bus : IsReply(bus, i) => bus[i].to \in DOMAIN calls
    BY DEF IInv, Types, RepliesFit
  <2>2. CASE requests' = requests
    <3>1. RequestsFit(requests', calls')
      BY <1>2, <2>1, <2>2 DEF RequestsFit
    <3> QED
      BY <2>1, <2>2, <3>1
  <2>3. ASSUME NEW r \in Request, requests' = requests \cup {r}, r.call = n,
               r.op = call.op, call.answered = FALSE, r.op = "mount" => kind.fs = TRUE
        PROVE  requests' \subseteq Request /\ RequestsFit(requests', calls') /\ Apart(bus, requests')
    <3>1. RequestsFit(requests', calls')
      BY <1>2, <2>1, <2>3 DEF RequestsFit
    <3>2. Apart(bus, requests')
      BY <1>2, <2>1, <2>3 DEF Apart
    <3> QED
      BY <2>1, <2>3, <3>1, <3>2
  <2>4. \/ requests' = requests
        \/ \E r \in Request : /\ requests' = requests \cup {r} /\ r.call = n
                              /\ r.op = call.op /\ call.answered = FALSE
                              /\ r.op = "mount" => kind.fs = TRUE
    BY DEF n
  <2> QED
    BY <2>2, <2>3, <2>4, Zenon
<1> QED
  BY <1>2, <1>3, <1>4, <1>5, <1>6, <1>7 DEF IInv, Types, Mounts, RequestsFit, n

\* An operation is called.
LEMMA OperateSound ==
    ASSUME IInv, NEW op \in Ops, NEW sync \in BOOLEAN, Operate(op, sync) PROVE IInv'
<1> DEFINE checks == Checks(op, sync)
           hold == {i \in DOMAIN checks : checks[i].when}
           n == Len(calls) + 1
<1>1. /\ Len(calls) < MaxCalls /\ held' = Append(held, {exported.mounted})
      /\ UNCHANGED <<kind, exported, bus>>
      /\ \/ hold = {} /\ Send(op, sync)
         \/ \E i \in hold : Settle(op, sync, checks[i])
  BY DEF Operate
<1>2. n \in Nat /\ lastError \in [code : Codes, by : Nat] /\ "None" \in Codes
  BY LenProperties DEF IInv, Types, Codes
<1>3. CASE hold = {} /\ Send(op, sync)
  <2> DEFINE call == [NewCall(op, sync) EXCEPT !.fresh = TRUE]
             r == [call |-> n, op |-> op, sync |-> sync, job |-> "none"]
  <2>1. calls' = Append(calls, call) /\ requests' = requests \cup {r} /\ lastError' = lastError
    BY <1>3 DEF Send
  <2>2. /\ call \in CallRecord /\ call.op = op /\ call.answered = FALSE
    BY <1>2 DEF NewCall, CallRecord
  <2>3. r \in Request /\ r.call = n /\ r.op = op
    BY <1>2 DEF Request
  <2> HIDE DEF call, r
  <2>4. Told1(call, n) /\ Told2(call, {exported.mounted})
    BY <2>2 DEF Told1, Told2
  <2>5. op = "mount" => kind.fs = TRUE
    BY <1>3, MountSent
  <2>6. \E q \in Request : /\ requests' = requests \cup {q} /\ q.call = n
                           /\ q.op = call.op /\ call.answered = FALSE
                           /\ q.op = "mount" => kind.fs = TRUE
    BY <2>1, <2>2, <2>3, <2>5
  <2> QED
    BY <1>1, <1>2, <2>1, <2>2, <2>4, <2>6, CallMade
<1>4. ASSUME NEW i \in hold, Settle(op, sync, checks[i]) PROVE IInv'
  <2> DEFINE row == checks[i]
             kept == op = "rescan" /\ row.error = "NoBlock"
             own == IF kept THEN lastError ELSE [code |-> row.error, by |-> n]
             told == IF kept /\ ~sync THEN [code |-> "NoBlock", by |-> n] ELSE own
             call == [Answered(NewCall(op, sync), row.result, told.code, told.by)
                         EXCEPT !.fresh = seen = exported]
  <2>1. lastError' = own /\ calls' = Append(calls, call) /\ requests' = requests
    BY <1>4 DEF Settle
  <2>2. RowFits(row, op) /\ row.when
    BY <1>4, RowsFit
  <2>3. row.error \in Codes /\ row.error # "None" /\ row.result \in BOOLEAN
    BY <2>2 DEF RowFits
  <2> HIDE DEF row
  <2>4. own \in [code : Codes, by : Nat] /\ told \in [code : Codes, by : Nat]
    BY <1>2, <2>3 DEF Codes
  <2>5. ~(op = "rescan" /\ sync = TRUE) => told.by = n /\ told.code # "None"
    BY <2>2, <2>3 DEF RowFits
  <2> HIDE DEF own, told
  <2>6. /\ call \in CallRecord /\ call.op = op /\ call.sync = sync /\ call.answered = TRUE
        /\ call.result = row.result /\ call.error = told.code /\ call.by = told.by
        /\ call.fresh = (seen = exported)
    BY <1>2, <2>3, <2>4 DEF NewCall, Answered, CallRecord
  <2> HIDE DEF call
  <2>7. Told1(call, n)
    BY <2>5, <2>6 DEF Told1
  <2>8. Told2(call, {exported.mounted})
    <3> SUFFICES ASSUME row.result = TRUE, call.fresh = TRUE PROVE Happened(op, {exported.mounted})
      BY <2>6 DEF Told2
    <3>1. seen = exported
      BY <2>6
    <3>2. \/ op = "mount" /\ exported.mounted
          \/ op = "unmount" /\ ~(exported.mounted /\ exported.present /\ kind.fs)
      BY <2>2, <3>1 DEF RowFits
    <3>3. exported.mounted \in BOOLEAN /\ (exported.mounted = TRUE => exported.present = TRUE /\ kind.fs = TRUE)
      BY DEF IInv, Types, Mounts, Exported
    <3>4. \/ op = "mount" /\ exported.mounted = TRUE
          \/ op = "unmount" /\ exported.mounted = FALSE
      BY <3>2, <3>3
    <3> QED
      BY <3>4 DEF Happened
  <2> QED
    BY <1>1, <2>1, <2>4, <2>6, <2>7, <2>8, CallMade
<1> QED
  BY <1>1, <1>3, <1>4

-----------------------------------------------------------------------------
(* Answers                                                                 *)

\* A reply is taken off the bus and its call is answered.
LEMMA ReplyTaken ==
    ASSUME IInv, NEW n \in DOMAIN bus, IsReply(bus, n), bus' \in Seq(Message),
           \A i \in DOMAIN bus' : \/ i < n /\ i \in DOMAIN bus /\ bus'[i] = bus[i]
                                  \/ i >= n /\ i + 1 \in DOMAIN bus /\ bus'[i] = bus[i + 1],
           NEW error \in Codes, NEW by \in Nat,
           calls' = [calls EXCEPT ![bus[n].to] = Answered(@, bus[n].ok, error, by)],
           lastError' \in [code : Codes, by : Nat], UNCHANGED <<kind, exported, requests, held>>,
           bus[n].ok = FALSE => \/ by = bus[n].to /\ error # "None"
                                \/ calls[bus[n].to].op = "rescan" /\ calls[bus[n].to].sync = TRUE
    PROVE  IInv'
<1> DEFINE c == bus[n].to
           ok == bus[n].ok
<1>1. /\ bus \in Seq(Message) /\ RepliesFit(bus, calls, held) /\ Apart(bus, requests)
      /\ calls \in Seq(CallRecord) /\ Len(calls) \in Nat /\ DOMAIN calls = 1..Len(calls)
      /\ RequestsFit(requests, calls) /\ AnswersFit(calls, held)
  BY LenProperties DEF IInv, Types
<1>2. bus[n] \in Message /\ bus[n].type = "reply"
  BY <1>1, ElementOfSeq, LenProperties DEF IsReply
<1>3. ok \in BOOLEAN
  BY <1>2 DEF Message
<1>4. c \in DOMAIN calls /\ calls[c].answered = FALSE /\ (ok = TRUE => Happened(calls[c].op, held[c]))
  BY <1>1 DEF RepliesFit
<1>5. RepliesFit(bus', calls, held) /\ Apart(bus', requests)
      /\ \A i \in DOMAIN bus' : IsReply(bus', i) => bus'[i].to # c
  BY <1>1, MessageTaken
<1>6. \A r \in requests : r.call # c
  BY <1>1 DEF Apart
<1>7. calls[c] \in CallRecord
  BY <1>1, <1>4, ElementOfSeq
<1> HIDE DEF c, ok
<1> DEFINE call == Answered(calls[c], ok, error, by)
<1>8. /\ call \in CallRecord /\ call.op = calls[c].op /\ call.sync = calls[c].sync
      /\ call.answered = TRUE /\ call.result = ok /\ call.error = error /\ call.by = by
  BY <1>3, <1>7 DEF Answered, CallRecord
<1>9. calls' = [calls EXCEPT ![c] = call]
  BY DEF c, ok
<1> HIDE DEF call
<1>10. /\ calls' \in Seq(CallRecord) /\ Len(calls') = Len(calls) /\ DOMAIN calls' = DOMAIN calls
       /\ calls'[c] = call /\ \A d \in DOMAIN calls : d # c => calls'[d] = calls[d]
  BY <1>1, <1>4, <1>8, <1>9, ExceptSeq
<1>11. AnswersFit(calls', held)
  <2> SUFFICES ASSUME NEW d \in DOMAIN calls PROVE Told1(calls'[d], d) /\ Told2(calls'[d], held[d])
    BY <1>10 DEF AnswersFit
  <2>1. CASE d # c
    BY <1>1, <1>10, <2>1 DEF AnswersFit
  <2>2. CASE d = c
    <3>1. Told1(call, c)
      BY <1>8 DEF Told1, c, ok
    <3>2. Told2(call, held[c])
      BY <1>4, <1>8 DEF Told2
    <3> QED
      BY <1>10, <2>2, <3>1, <3>2
  <2> QED
    BY <2>1, <2>2
<1>12. RepliesFit(bus', calls', held)
  <2>1. \A i \in DOMAIN bus' : IsReply(bus', i) => bus'[i].to \in DOMAIN calls
    BY <1>5 DEF RepliesFit
  <2>2. \A i \in DOMAIN bus' : IsReply(bus', i) =>
            /\ bus'[i].to \in DOMAIN calls' /\ calls'[bus'[i].to] = calls[bus'[i].to]
            /\ held[bus'[i].to] \subseteq held[bus'[i].to]
    BY <1>5, <1>10, <2>1
  <2> QED
    BY <1>5, <2>2 DEF RepliesFit, Happened
<1>13. RequestsFit(requests, calls')
  BY <1>1, <1>6, <1>10 DEF RequestsFit
<1> QED
  BY <1>5, <1>10, <1>11, <1>12, <1>13 DEF IInv, Types, Mounts, RequestsFit

\* A blocking call returns.
LEMMA SyncReturns ==
    ASSUME IInv, NEW c \in DOMAIN calls, SyncReturn(c) PROVE IInv'
<1>1. PICK n \in DOMAIN bus :
          /\ bus[n].type = "reply" /\ bus[n].to = c /\ calls[c].sync
          /\ bus' = RemoveAt(bus, n)
          /\ lastError' = IF bus[n].ok \/ calls[c].op = "rescan" THEN lastError
                          ELSE [code |-> "Failed", by |-> c]
          /\ calls' = [calls EXCEPT ![c] = Answered(@, bus[n].ok, lastError'.code, lastError'.by)]
          /\ UNCHANGED <<kind, exported, requests, held>>
  BY DEF SyncReturn
<1>2. /\ bus \in Seq(Message) /\ lastError \in [code : Codes, by : Nat] /\ "Failed" \in Codes
      /\ calls[c] \in CallRecord /\ c \in Nat
  BY ElementOfSeq, LenProperties DEF IInv, Types, Codes
<1>3. lastError' \in [code : Codes, by : Nat]
  BY <1>1, <1>2
<1>4. bus[n].ok = FALSE => \/ lastError'.by = c /\ lastError'.code # "None"
                           \/ calls[c].op = "rescan" /\ calls[c].sync = TRUE
  <2>1. calls[c].sync = TRUE
    BY <1>1, <1>2 DEF CallRecord
  <2> QED
    BY <1>1, <2>1
<1>5. /\ bus' \in Seq(Message)
      /\ \A i \in DOMAIN bus' : \/ i < n /\ i \in DOMAIN bus /\ bus'[i] = bus[i]
                                \/ i >= n /\ i + 1 \in DOMAIN bus /\ bus'[i] = bus[i + 1]
  BY <1>1, <1>2, Removed
<1> DEFINE error == lastError'.code
           by == lastError'.by
<1>6. IsReply(bus, n) /\ error \in Codes /\ by \in Nat
  BY <1>1, <1>3 DEF IsReply
<1>7. calls' = [calls EXCEPT ![bus[n].to] = Answered(@, bus[n].ok, error, by)]
  BY <1>1
<1>8. bus[n].ok = FALSE => \/ by = bus[n].to /\ error # "None"
                           \/ calls[bus[n].to].op = "rescan" /\ calls[bus[n].to].sync = TRUE
  BY <1>1, <1>4
<1>9. UNCHANGED <<kind, exported, requests, held>>
  BY <1>1
<1> HIDE DEF error, by
<1> QED
  BY <1>3, <1>5, <1>6, <1>7, <1>8, <1>9, ReplyTaken

\* The main loop takes a signal, or runs a callback.
LEMMA MainLoopRuns == ASSUME IInv, MainLoop PROVE IInv'
<1>1. /\ bus # <<>> /\ bus' = Tail(bus) /\ UNCHANGED <<kind, exported, requests, held>>
      /\ IF Head(bus).type = "reply" THEN AsyncCallback(Head(bus))
         ELSE UNCHANGED <<calls, lastError>>
  BY DEF MainLoop
<1>2. bus \in Seq(Message)
  BY DEF IInv, Types
<1>3. /\ bus' \in Seq(Message) /\ 1 \in DOMAIN bus /\ Head(bus) = bus[1]
      /\ \A i \in DOMAIN bus' : i >= 1 /\ i + 1 \in DOMAIN bus /\ bus'[i] = bus[i + 1]
  BY <1>1, <1>2, Rest
<1>4. CASE bus[1].type = "reply"
  <2> DEFINE error == IF bus[1].ok THEN "None" ELSE "Failed"
  <2>1. /\ calls' = [calls EXCEPT ![bus[1].to] = Answered(@, bus[1].ok, error, bus[1].to)]
        /\ lastError' = lastError
    BY <1>1, <1>3, <1>4 DEF AsyncCallback
  <2>2. bus[1] \in Message
    BY <1>2, <1>3, ElementOfSeq, LenProperties
  <2>3. IsReply(bus, 1) /\ bus[1].to \in Nat /\ bus[1].ok \in BOOLEAN
    BY <1>3, <1>4, <2>2 DEF IsReply, Message
  <2>4. error \in Codes /\ (bus[1].ok = FALSE => bus[1].to = bus[1].to /\ error # "None")
    BY DEF Codes
  <2>5. lastError' \in [code : Codes, by : Nat]
    BY <2>1 DEF IInv, Types
  <2> HIDE DEF error
  <2> QED
    BY <1>1, <1>3, <2>1, <2>3, <2>4, <2>5, ReplyTaken
<1>5. CASE bus[1].type # "reply"
  <2>1. UNCHANGED <<calls, lastError>>
    BY <1>1, <1>3, <1>5
  <2>2. RepliesFit(bus, calls, held) /\ Apart(bus, requests)
    BY DEF IInv
  <2>3. /\ \A i \in DOMAIN bus' : \/ i < 1 /\ i \in DOMAIN bus /\ bus'[i] = bus[i]
                                  \/ i >= 1 /\ i + 1 \in DOMAIN bus /\ bus'[i] = bus[i + 1]
        /\ bus' \in Seq(Message) /\ 1 \in DOMAIN bus
    BY <1>3
  <2>4. RepliesFit(bus', calls, held) /\ Apart(bus', requests)
    BY <1>2, <2>2, <2>3, MessageTaken
  <2> QED
    BY <1>1, <1>3, <2>1, <2>4 DEF IInv, Types, Mounts, RequestsFit
<1> QED
  BY <1>4, <1>5

\* A getter changes lastError alone: no call that was answered looks there again.
LEMMA PropertyRead == ASSUME IInv, GetProperty PROVE IInv'
<1>1. /\ lastError' = [code |-> "NoInterface", by |-> 0]
      /\ UNCHANGED <<kind, exported, requests, bus, calls, held>>
  BY DEF GetProperty
<1>2. lastError' \in [code : Codes, by : Nat]
  BY <1>1 DEF Codes
<1> QED
  BY <1>1, <1>2 DEF IInv, Types, Mounts, RequestsFit, RepliesFit, Apart, AnswersFit, IsReply

-----------------------------------------------------------------------------
(* The theorems                                                            *)

LEMMA InitSound == Init => IInv
<1> SUFFICES ASSUME Init PROVE IInv
  OBVIOUS
<1>1. PICK m \in {k \in BOOLEAN : k => kind.fs} : exported = [present |-> TRUE, mounted |-> m, jobs |-> {}]
  BY DEF Init
<1>2. kind \in Kinds /\ kind.fs \in BOOLEAN
  BY KindsAssumption DEF Init
<1>3. exported \in Exported /\ Mounts
  BY <1>1, <1>2 DEF Exported, Mounts
<1>4. requests = {} /\ bus = <<>> /\ calls = <<>> /\ held = <<>> /\ lastError = [code |-> "None", by |-> 0]
  BY DEF Init
<1>5. Types
  BY <1>2, <1>3, <1>4, EmptySeq, BoundsAssumption DEF Types, Codes
<1>6. DOMAIN bus = {} /\ DOMAIN calls = {}
  BY <1>4
<1> QED
  BY <1>3, <1>4, <1>5, <1>6 DEF IInv, RequestsFit, RepliesFit, Apart, AnswersFit

LEMMA NextSound == ASSUME IInv, [Next]_vars PROVE IInv'
<1>1. CASE UNCHANGED vars
  BY <1>1 DEF vars, IInv, Types, Mounts, RequestsFit, RepliesFit, Apart, AnswersFit, IsReply
<1>2. CASE UDisks
  BY <1>2, OthersChange, JobAppears, RequestCompletes DEF UDisks
<1>3. CASE \E op \in Ops, sync \in BOOLEAN : Operate(op, sync)
  BY <1>3, OperateSound
<1>4. CASE \E c \in DOMAIN calls : SyncReturn(c)
  BY <1>4, SyncReturns
<1>5. CASE MainLoop
  BY <1>5, MainLoopRuns
<1>6. CASE GetProperty
  BY <1>6, PropertyRead
<1> QED
  BY <1>1, <1>2, <1>3, <1>4, <1>5, <1>6 DEF Next

LEMMA InvariantHolds == Spec => []IInv
BY InitSound, NextSound, PTL DEF Spec

\* Failed calls have an error, and it is theirs.
THEOREM FailuresCarryTheirReason == Spec => []FailuresExplained
<1>1. IInv => FailuresExplained
  <2> SUFFICES ASSUME IInv, NEW c \in DOMAIN calls, calls[c].answered, ~calls[c].result,
                      ~(calls[c].op = "rescan" /\ calls[c].sync)
               PROVE  calls[c].by = c /\ calls[c].error # "None"
    BY DEF FailuresExplained
  <2>1. calls[c] \in CallRecord
    BY ElementOfSeq, LenProperties DEF IInv, Types
  <2>2. calls[c].answered = TRUE /\ calls[c].result = FALSE /\ ~(calls[c].op = "rescan" /\ calls[c].sync = TRUE)
    BY <2>1 DEF CallRecord
  <2>3. Told1(calls[c], c)
    BY DEF IInv, AnswersFit
  <2> QED
    BY <2>2, <2>3 DEF Told1
<1> QED
  BY <1>1, InvariantHolds, PTL

\* Success is only reported of a device that was so since the call.
THEOREM AnswersAreTrue == Spec => []AnswersTrue
<1>1. IInv => AnswersTrue
  <2> SUFFICES ASSUME IInv, NEW c \in DOMAIN calls, calls[c].answered, calls[c].result, calls[c].fresh
               PROVE  /\ calls[c].op = "mount" => TRUE \in held[c]
                      /\ calls[c].op = "unmount" => FALSE \in held[c]
    BY DEF AnswersTrue
  <2>1. calls[c] \in CallRecord
    BY ElementOfSeq, LenProperties DEF IInv, Types
  <2>2. calls[c].answered = TRUE /\ calls[c].result = TRUE /\ calls[c].fresh = TRUE
    BY <2>1 DEF CallRecord
  <2>3. Told2(calls[c], held[c])
    BY DEF IInv, AnswersFit
  <2>4. Happened(calls[c].op, held[c])
    BY <2>2, <2>3 DEF Told2
  <2> QED
    BY <2>4, Zenon DEF Happened
<1> QED
  BY <1>1, InvariantHolds, PTL

\* The device implements the safety part of JobLedger: no call is answered twice, and
\* none that was not made.
THEOREM LedgerSafety == Spec => Ledger!SafeSpec
<1> DEFINE answered == {c \in DOMAIN calls : calls[c].answered}
<1>1. Init => Ledger!Init
  BY DEF Init, Ledger!Init
<1>2. IInv /\ [Next]_vars => [Ledger!Next]_Ledger!ledger
  <2> SUFFICES ASSUME IInv, [Next]_vars PROVE [Ledger!Next]_Ledger!ledger
    OBVIOUS
  <2>1. ASSUME NEW call, Len(calls) < MaxCalls, calls' = Append(calls, call)
        PROVE  [Ledger!Next]_Ledger!ledger
    <3> DEFINE n == Len(calls) + 1
    <3>1. /\ DOMAIN calls' = DOMAIN calls \cup {n} /\ n \notin DOMAIN calls
          /\ calls'[n] = call /\ \A d \in DOMAIN calls : calls'[d] = calls[d]
      BY <2>1 DEF IInv, Types
    <3>2. n \in Ids
      BY <2>1, LenProperties, BoundsAssumption DEF IInv, Types, Ids
    <3> HIDE DEF n
    <3>3. CASE call.answered
      <4>1. answered' = answered \cup {n}
        BY <3>1, <3>3
      <4> QED
        BY <3>1, <3>2, <4>1 DEF Ledger!Next, Ledger!AskAnswered
    <3>4. CASE ~call.answered
      <4>1. answered' = answered
        BY <3>1, <3>4
      <4> QED
        BY <3>1, <3>2, <4>1 DEF Ledger!Next, Ledger!Ask
    <3> QED
      BY <3>3, <3>4
  <2>2. ASSUME NEW n \in DOMAIN bus, IsReply(bus, n), NEW result, NEW error, NEW by,
               calls' = [calls EXCEPT ![bus[n].to] = Answered(@, result, error, by)]
        PROVE  [Ledger!Next]_Ledger!ledger
    <3> DEFINE c == bus[n].to
    <3>1. c \in DOMAIN calls /\ calls[c].answered = FALSE
      BY <2>2 DEF IInv, RepliesFit
    <3> HIDE DEF c
    <3>2. calls \in Seq(CallRecord) /\ calls[c] \in CallRecord
      BY <3>1, ElementOfSeq, LenProperties DEF IInv, Types
    <3>3. DOMAIN calls' = DOMAIN calls /\ \A d \in DOMAIN calls : d # c => calls'[d] = calls[d]
      BY <2>2 DEF c
    <3>4. calls'[c].answered = TRUE
      <4>1. calls'[c] = Answered(calls[c], result, error, by)
        BY <2>2, <3>1 DEF c
      <4> QED
        BY <3>2, <4>1 DEF Answered, CallRecord
    <3>5. answered' = answered \cup {c} /\ c \notin answered
      BY <3>1, <3>3, <3>4
    <3>6. c \in Ids
      BY <3>1, LenProperties, BoundsAssumption DEF IInv, Types, Ids
    <3> QED
      BY <3>1, <3>3, <3>5, <3>6 DEF Ledger!Next, Ledger!Answer
  <2>3. ASSUME NEW op \in Ops, NEW sync \in BOOLEAN, Operate(op, sync)
        PROVE  [Ledger!Next]_Ledger!ledger
    BY <2>1, <2>3 DEF Operate, Settle, Send
  <2>4. ASSUME NEW c \in DOMAIN calls, SyncReturn(c) PROVE [Ledger!Next]_Ledger!ledger
    <3>1. PICK n \in DOMAIN bus :
              /\ bus[n].type = "reply" /\ bus[n].to = c
              /\ calls' = [calls EXCEPT ![c] = Answered(@, bus[n].ok, lastError'.code, lastError'.by)]
      BY <2>4 DEF SyncReturn
    <3> DEFINE error == lastError'.code
               by == lastError'.by
               result == bus[n].ok
    <3>2. IsReply(bus, n) /\ calls' = [calls EXCEPT ![bus[n].to] = Answered(@, result, error, by)]
      BY <3>1 DEF IsReply
    <3> HIDE DEF error, by, result
    <3> QED
      BY <2>2, <3>2
  <2>5. CASE MainLoop
    <3>1. bus # <<>> /\ 1 \in DOMAIN bus /\ Head(bus) = bus[1]
      BY <2>5, Rest DEF MainLoop, IInv, Types
    <3>2. CASE bus[1].type = "reply"
      <4> DEFINE error == IF bus[1].ok THEN "None" ELSE "Failed"
                 by == bus[1].to
                 result == bus[1].ok
      <4>1. IsReply(bus, 1) /\ calls' = [calls EXCEPT ![bus[1].to] = Answered(@, result, error, by)]
        BY <2>5, <3>1, <3>2 DEF MainLoop, AsyncCallback, IsReply
      <4> HIDE DEF error, by, result
      <4> QED
        BY <2>2, <3>1, <4>1
    <3>3. CASE bus[1].type # "reply"
      BY <2>5, <3>1, <3>3 DEF MainLoop, Ledger!ledger
    <3> QED
      BY <3>2, <3>3
  <2>6. CASE UDisks \/ GetProperty \/ UNCHANGED vars
    BY <2>6 DEF UDisks, GetProperty, OtherChange, ExportJob, CompleteRequest, deviceVars, vars, Ledger!ledger
  <2> QED
    BY <2>3, <2>4, <2>5, <2>6 DEF Next
<1> QED
  BY <1>1, <1>2, InvariantHolds, PTL DEF Spec, Ledger!SafeSpec
=============================================================================
