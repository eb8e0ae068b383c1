------------------------- MODULE ProtocolMountsProofs -------------------------
(***************************************************************************)
(* Proofs about ProtocolMounts, for every set of shares and phones, every  *)
(* number of events, calls and starts of the monitor.                      *)
(***************************************************************************)
EXTENDS ProtocolMounts, TLAPS

CallRecord == [op : {"mount", "unmount"}, sync : BOOLEAN, result : BOOLEAN,
               phase : {"waiting", "done", "answered", "dropped"}]
LoopRecord == [call : Ids, exit : {"running", "answer", "timeout"},
               timer : BOOLEAN]
DeviceRecord == [exists : BOOLEAN, mountHandler : BOOLEAN, volumeHandler : BOOLEAN]

-----------------------------------------------------------------------------
(* The inductive invariant                                                 *)

GioInv ==
    /\ volumes \subseteq Phones /\ mounts \subseteq Roots /\ cachedDevices \subseteq Roots
    /\ events \in 0..MaxEvents /\ faithful \in BOOLEAN /\ lost \in BOOLEAN
    /\ undefined \in BOOLEAN

(* A monitor that is connected has handlers, one for each start at most      *)
StartInv ==
    /\ starts \in 0..MaxStarts /\ handlers \in Nat /\ handlers <= starts
    /\ connections \in BOOLEAN /\ (connections => handlers > 0)

DeviceInv ==
    /\ device \in DeviceRecord /\ calls \in Seq(CallRecord) /\ Len(calls) <= MaxCalls
    /\ requests \subseteq DOMAIN calls

(* The stack of event loops is that of the blocking calls that have not      *)
(* returned, each once                                                      *)
LoopsInv ==
    /\ loops \in Seq(LoopRecord)
    /\ \A i \in DOMAIN loops : /\ loops[i].call \in DOMAIN calls
                               /\ calls[loops[i].call].sync
                               /\ calls[loops[i].call].phase # "answered"
    /\ \A i, j \in DOMAIN loops : loops[i].call = loops[j].call => i = j
    /\ \A c \in DOMAIN calls :
          calls[c].sync /\ calls[c].phase # "answered" => \E i \in DOMAIN loops : loops[i].call = c

IInv == GioInv /\ StartInv /\ DeviceInv /\ LoopsInv /\ CacheIsDevices /\ HandlerFollows

(* What will answer the calls: GIO an asynchronous one, and a loop that has    *)
(* not been told to exit is of a call GIO has still to answer.  The loop of   *)
(* a later call is inside those of the earlier ones.                          *)
AwaitInv ==
    /\ \A c \in DOMAIN calls :
          ~calls[c].sync => (calls[c].phase \in {"waiting", "done"} <=> c \in requests)
    /\ \A i \in DOMAIN loops : loops[i].exit = "running" => loops[i].call \in requests
    /\ \A i, j \in DOMAIN loops : i < j => loops[j].call < loops[i].call

-----------------------------------------------------------------------------
(* What comes and goes                                                     *)

\* A mount comes or goes, by itself or by a call, heard or not.
LEMMA MountEvents ==
    ASSUME IInv, NEW root \in Roots, AddMount(root) \/ RemoveMount(root), UNCHANGED handlers
    PROVE  /\ volumes' \subseteq Phones /\ mounts' \subseteq Roots /\ cachedDevices' \subseteq Roots
           /\ faithful' \in BOOLEAN /\ lost' \in BOOLEAN /\ device' \in DeviceRecord
           /\ CacheIsDevices' /\ HandlerFollows'
<1> USE DEF IInv, GioInv, StartInv, DeviceInv
<1>1. /\ volumes' = volumes /\ faithful' = (faithful /\ handlers > 0)
      /\ volumes \cap Hidden = {} /\ Root \notin Hidden /\ Hidden \cap Phones = {}
  BY RootsAssumption DEF AddMount, RemoveMount, Heard
<1>2. CASE AddMount(root)
  <2>1. /\ mounts' = mounts \cup {root} /\ (root \in Phones => root \in volumes)
    BY <1>2 DEF AddMount
  <2>2. CASE handlers > 0 /\ root \notin Hidden
    <3>1. /\ cachedDevices' = cachedDevices \cup {root}
          /\ device' = Mounted(root) /\ lost' = (lost /\ ~(root = Root /\ device.exists))
      BY <1>2, <2>2 DEF AddMount, OnMountAdded
    <3>2. device' \in DeviceRecord
      <4>1. ASSUME NEW handler \in BOOLEAN
            PROVE  [device EXCEPT !.mountHandler = handler] \in DeviceRecord
        BY DEF DeviceRecord
      <4>2. (root \in mounts') \in BOOLEAN
        OBVIOUS
      <4> QED
        BY <3>1, <4>1, <4>2 DEF Mounted
    <3>3. CacheIsDevices'
      BY <1>1, <2>1, <2>2, <3>1 DEF CacheIsDevices, DevicesThereAre
    <3>4. HandlerFollows'
      <4>1. CASE root = Root /\ device.exists
        BY <2>1, <3>1, <4>1 DEF HandlerFollows, Mounted, DeviceRecord
      <4>2. CASE ~(root = Root /\ device.exists)
        BY <1>1, <2>1, <3>1, <4>2 DEF HandlerFollows, Mounted, DeviceRecord
      <4> QED
        BY <4>1, <4>2
    <3> QED
      BY <1>1, <2>1, <3>1, <3>2, <3>3, <3>4
  <2>3. CASE ~(handlers > 0 /\ root \notin Hidden)
    <3>1. UNCHANGED <<cachedDevices, device, lost>>
      BY <1>2, <2>3 DEF AddMount, OnMountAdded
    <3>2. CacheIsDevices' /\ HandlerFollows'
      BY <1>1, <2>1, <2>3, <3>1 DEF CacheIsDevices, DevicesThereAre, HandlerFollows
    <3> QED
      BY <1>1, <2>1, <3>1, <3>2
  <2> QED
    BY <2>2, <2>3
<1>3. CASE RemoveMount(root)
  <2>1. mounts' = mounts \ {root} /\ lost' = (lost /\ root # Root)
    BY <1>3 DEF RemoveMount
  <2>2. CASE handlers > 0
    <3>1. /\ cachedDevices' = IF IsOrphanMount(root, volumes) THEN cachedDevices \ {root}
                              ELSE cachedDevices
          /\ device' = Unmounted(root)
      BY <1>3, <2>2 DEF RemoveMount, OnMountRemoved
    <3>2. device' \in DeviceRecord
      BY <3>1 DEF Unmounted, DeviceRecord
    <3>3. CacheIsDevices'
      BY <1>1, <2>1, <2>2, <3>1 DEF CacheIsDevices, DevicesThereAre, IsOrphanMount, Shares
    <3>4. HandlerFollows'
      <4>1. CASE root = Root
        BY <2>1, <3>1, <4>1 DEF HandlerFollows, Unmounted, DeviceRecord
      <4>2. CASE root # Root
        BY <1>1, <2>1, <3>1, <4>2 DEF HandlerFollows, Unmounted, DeviceRecord
      <4> QED
        BY <4>1, <4>2
    <3> QED
      BY <1>1, <2>1, <3>1, <3>2, <3>3, <3>4
  <2>3. CASE ~(handlers > 0)
    <3>1. UNCHANGED <<cachedDevices, device>>
      BY <1>3, <2>3 DEF RemoveMount, OnMountRemoved
    <3>2. CacheIsDevices' /\ HandlerFollows'
      BY <1>1, <2>1, <2>3, <3>1 DEF CacheIsDevices, HandlerFollows
    <3> QED
      BY <1>1, <2>1, <3>1, <3>2
  <2> QED
    BY <2>2, <2>3
<1> QED
  BY <1>2, <1>3

\* A phone is plugged in or pulled out.
LEMMA VolumeEvents ==
    ASSUME IInv, NEW root \in Roots, VolumeAdded(root) \/ VolumeRemoved(root)
    PROVE  /\ volumes' \subseteq Phones /\ mounts' \subseteq Roots /\ cachedDevices' \subseteq Roots
           /\ faithful' \in BOOLEAN /\ UNCHANGED <<device, lost>>
           /\ CacheIsDevices' /\ HandlerFollows'
<1> USE DEF IInv, GioInv, StartInv, DeviceInv
<1>1. /\ UNCHANGED <<mounts, device, lost>> /\ faithful' = (faithful /\ handlers > 0)
      /\ root \in Phones
  BY DEF VolumeAdded, VolumeRemoved, Heard
<1>2. HandlerFollows'
  BY <1>1 DEF HandlerFollows
<1>3. CASE VolumeAdded(root)
  <2>1. /\ volumes' = volumes \cup {root}
        /\ cachedDevices' = IF handlers > 0 THEN cachedDevices \cup {root} ELSE cachedDevices
    BY <1>3 DEF VolumeAdded
  <2> QED
    BY <1>1, <1>2, <2>1 DEF CacheIsDevices, DevicesThereAre
<1>4. CASE VolumeRemoved(root)
  <2>1. /\ volumes' = volumes \ {root}
        /\ cachedDevices' = IF handlers > 0 THEN cachedDevices \ {root} ELSE cachedDevices
    BY <1>4 DEF VolumeRemoved
  <2> QED
    BY <1>1, <1>2, <2>1 DEF CacheIsDevices, DevicesThereAre
<1> QED
  BY <1>3, <1>4

-----------------------------------------------------------------------------
(* Calls and event loops                                                   *)

\* What a step that leaves GIO and the monitor alone keeps.
LEMMA MonitorKept ==
    ASSUME IInv, UNCHANGED <<gioVars, monitorVars, faithful, undefined>>
    PROVE  /\ StartInv' /\ CacheIsDevices'
           /\ (lost' \in BOOLEAN => GioInv')
           /\ (device' = device /\ lost' = lost => HandlerFollows')
BY DEF IInv, GioInv, StartInv, CacheIsDevices, DevicesThereAre, HandlerFollows, gioVars, monitorVars

\* A call that is answered at once, or dropped, has no loop.
LEMMA CallWithoutLoop ==
    ASSUME IInv, CanCall, NEW call \in CallRecord, call.sync => call.phase = "answered",
           calls' = Append(calls, call), UNCHANGED <<loops, requests, device>>
    PROVE  DeviceInv' /\ LoopsInv'
<1>1. /\ calls' \in Seq(CallRecord) /\ Len(calls') = Len(calls) + 1
      /\ DOMAIN calls' = DOMAIN calls \cup {Len(calls) + 1} /\ Len(calls) + 1 \notin DOMAIN calls
      /\ calls'[Len(calls) + 1] = call /\ \A d \in DOMAIN calls : calls'[d] = calls[d]
  BY DEF IInv, DeviceInv
<1>2. DeviceInv'
  BY <1>1, BoundsAssumption DEF IInv, DeviceInv, CanCall
<1>3. LoopsInv'
  BY <1>1 DEF IInv, LoopsInv
<1> QED
  BY <1>2, <1>3

\* A request to GIO; a blocking call waits for it in a loop of its own.
LEMMA CallWithRequest ==
    ASSUME IInv, CanCall, NEW op \in {"mount", "unmount"}, NEW sync \in BOOLEAN,
           Request(op, sync), UNCHANGED device
    PROVE  DeviceInv' /\ LoopsInv'
<1> DEFINE c == Len(calls) + 1
           call == [op |-> op, sync |-> sync, phase |-> "waiting", result |-> FALSE]
<1>1. /\ calls' = Append(calls, call) /\ requests' = requests \cup {c}
      /\ loops' = IF sync THEN <<[call |-> c, exit |-> "running", timer |-> TRUE]>> \o loops ELSE loops
      /\ call \in CallRecord /\ c \in Ids
  BY BoundsAssumption DEF Request, Call, CallRecord, CanCall, Ids, IInv, DeviceInv
<1>2. /\ calls' \in Seq(CallRecord) /\ Len(calls') = c
      /\ DOMAIN calls' = DOMAIN calls \cup {c} /\ c \notin DOMAIN calls
      /\ calls'[c] = call /\ \A d \in DOMAIN calls : calls'[d] = calls[d]
  BY <1>1 DEF IInv, DeviceInv
<1>3. DeviceInv'
  BY <1>1, <1>2, BoundsAssumption DEF IInv, DeviceInv, CanCall
<1> HIDE DEF c
<1>4. CASE sync
  <2> DEFINE loop == [call |-> c, exit |-> "running", timer |-> TRUE]
  <2>1. loops' = <<loop>> \o loops /\ loop \in LoopRecord /\ loop.call = c
    BY <1>1, <1>4 DEF LoopRecord
  <2> HIDE DEF loop
  <2>2. /\ loops' \in Seq(LoopRecord) /\ Len(loops') = Len(loops) + 1 /\ loops'[1] = loop
        /\ \A i \in DOMAIN loops' : i # 1 => i - 1 \in DOMAIN loops /\ loops'[i] = loops[i - 1]
        /\ \A i \in DOMAIN loops : i + 1 \in DOMAIN loops' /\ loops'[i + 1] = loops[i]
        /\ 1 \in DOMAIN loops'
    BY <2>1 DEF IInv, LoopsInv
  <2>3. ASSUME NEW i \in DOMAIN loops'
        PROVE  /\ loops'[i].call \in DOMAIN calls' /\ calls'[loops'[i].call].sync
               /\ calls'[loops'[i].call].phase # "answered"
               /\ i # 1 => loops'[i].call # c
    BY <1>2, <1>4, <2>1, <2>2 DEF IInv, LoopsInv
  <2>4. \A i, j \in DOMAIN loops' : loops'[i].call = loops'[j].call => i = j
    <3> SUFFICES ASSUME NEW i \in DOMAIN loops', NEW j \in DOMAIN loops',
                        loops'[i].call = loops'[j].call
                 PROVE  i = j
      OBVIOUS
    <3>1. CASE i = 1 \/ j = 1
      BY <2>1, <2>2, <2>3, <3>1
    <3>2. CASE i # 1 /\ j # 1
      <4>1. i - 1 = j - 1
        BY <2>2, <3>2 DEF IInv, LoopsInv
      <4> QED
        BY <2>2, <4>1
    <3> QED
      BY <3>1, <3>2
  <2>5. ASSUME NEW d \in DOMAIN calls', calls'[d].sync, calls'[d].phase # "answered"
        PROVE  \E i \in DOMAIN loops' : loops'[i].call = d
    <3>1. CASE d = c
      BY <2>1, <2>2, <3>1
    <3>2. CASE d # c
      <4>1. PICK i \in DOMAIN loops : loops[i].call = d
        BY <1>2, <2>5, <3>2 DEF IInv, LoopsInv
      <4> QED
        BY <2>2, <4>1
    <3> QED
      BY <3>1, <3>2
  <2> QED
    BY <1>3, <2>2, <2>3, <2>4, <2>5 DEF LoopsInv
<1>5. CASE ~sync
  <2>1. loops' = loops
    BY <1>1, <1>5
  <2> QED
    BY <1>2, <1>3, <1>5, <2>1 DEF IInv, LoopsInv
<1> QED
  BY <1>4, <1>5

\* The calls that are made.
LEMMA CallsMade ==
    ASSUME IInv, NEW sync \in BOOLEAN, Mount(sync) \/ Unmount(sync)
    PROVE  IInv'
<1>1. CanCall /\ UNCHANGED <<device, gioVars, monitorVars, faithful, history>>
  BY DEF Mount, Unmount
<1>2. GioInv' /\ StartInv' /\ CacheIsDevices' /\ HandlerFollows'
  BY <1>1, MonitorKept DEF IInv, GioInv, history
<1>3. ASSUME NEW op \in {"mount", "unmount"}, NEW result \in BOOLEAN, Settle(op, sync, result)
      PROVE  DeviceInv' /\ LoopsInv'
  <2> DEFINE call == [op |-> op, sync |-> sync, phase |-> "answered", result |-> result]
  <2>1. call \in CallRecord /\ call.phase = "answered"
    BY DEF CallRecord
  <2>2. calls' = Append(calls, call) /\ UNCHANGED <<loops, requests, device>>
    BY <1>1, <1>3 DEF Settle, Call
  <2> QED
    BY <1>1, <2>1, <2>2, CallWithoutLoop
<1>4. ASSUME NEW op \in {"mount", "unmount"}, Request(op, sync) PROVE DeviceInv' /\ LoopsInv'
  BY <1>1, <1>4, CallWithRequest
<1>5. CASE /\ calls' = Append(calls, Call("mount", sync, IF sync THEN "answered" ELSE "dropped",
                                           FALSE))
           /\ UNCHANGED <<loops, requests>>
  <2> DEFINE phase == IF sync THEN "answered" ELSE "dropped"
             call == [op |-> "mount", sync |-> sync, phase |-> phase, result |-> FALSE]
  <2>1. call \in CallRecord /\ (call.sync => call.phase = "answered")
    BY DEF CallRecord
  <2>2. calls' = Append(calls, call) /\ UNCHANGED <<loops, requests, device>>
    BY <1>1, <1>5 DEF Call
  <2> QED
    BY <1>1, <1>2, <2>1, <2>2, CallWithoutLoop DEF IInv
<1> QED
  BY <1>2, <1>3, <1>4, <1>5 DEF Mount, Unmount, IInv

\* GIO carries a request out.
LEMMA RequestCarriedOut ==
    ASSUME IInv, NEW c \in requests, CarryOut(c)
    PROVE  IInv'
<1>1. /\ c \in DOMAIN calls /\ calls[c].phase = "waiting" /\ calls[c] \in CallRecord
      /\ calls' = [calls EXCEPT ![c].phase = "done", ![c].result = TRUE]
      /\ AddMount(Root) \/ RemoveMount(Root)
      /\ UNCHANGED <<events, handlers, connections, starts, loops, requests, undefined>>
  BY DEF CarryOut, IInv, DeviceInv
<1>2. /\ volumes' \subseteq Phones /\ mounts' \subseteq Roots /\ cachedDevices' \subseteq Roots
      /\ faithful' \in BOOLEAN /\ lost' \in BOOLEAN /\ device' \in DeviceRecord
      /\ CacheIsDevices' /\ HandlerFollows'
  BY <1>1, RootsAssumption, MountEvents
<1>3. /\ calls' \in Seq(CallRecord) /\ Len(calls') = Len(calls) /\ DOMAIN calls' = DOMAIN calls
      /\ calls'[c].sync = calls[c].sync /\ calls'[c].phase = "done"
      /\ \A d \in DOMAIN calls : d # c => calls'[d] = calls[d]
  <2> DEFINE next == [calls[c] EXCEPT !.phase = "done", !.result = TRUE]
  <2>1. next \in CallRecord /\ next.sync = calls[c].sync /\ next.phase = "done"
    BY <1>1 DEF CallRecord
  <2>2. calls' = [calls EXCEPT ![c] = next]
    BY <1>1
  <2> HIDE DEF next
  <2>3. calls \in Seq(CallRecord) /\ c \in DOMAIN calls
    BY <1>1 DEF IInv, DeviceInv
  <2>4. /\ calls' \in Seq(CallRecord) /\ Len(calls') = Len(calls) /\ DOMAIN calls' = DOMAIN calls
        /\ calls'[c] = next /\ \A d \in DOMAIN calls : d # c => calls'[d] = calls[d]
    BY <2>1, <2>2, <2>3
  <2> QED
    BY <2>1, <2>4
<1>4. DeviceInv'
  BY <1>1, <1>2, <1>3 DEF IInv, DeviceInv
<1>5. LoopsInv'
  <2>1. ASSUME NEW d \in DOMAIN calls
        PROVE  /\ calls'[d].sync = calls[d].sync
               /\ (calls'[d].phase # "answered") = (calls[d].phase # "answered")
    BY <1>1, <1>3
  <2> QED
    BY <1>1, <1>3, <2>1 DEF IInv, LoopsInv
<1>6. GioInv' /\ StartInv'
  BY <1>1, <1>2 DEF IInv, GioInv, StartInv
<1> QED
  BY <1>2, <1>4, <1>5, <1>6 DEF IInv

\* An asynchronous call is answered; that of an unmount drops the mount.
LEMMA AnswerCalledBack ==
    ASSUME IInv, NEW c \in requests, AsyncCallback(c)
    PROVE  IInv'
<1>1. /\ c \in DOMAIN calls /\ calls[c] \in CallRecord /\ ~calls[c].sync
      /\ calls' = [calls EXCEPT ![c].phase = "answered"] /\ requests' = requests \ {c}
      /\ UNCHANGED <<loops, gioVars, monitorVars, faithful, undefined>>
  BY DEF AsyncCallback, IInv, DeviceInv
<1>2. /\ calls' \in Seq(CallRecord) /\ Len(calls') = Len(calls) /\ DOMAIN calls' = DOMAIN calls
      /\ ~calls'[c].sync /\ \A d \in DOMAIN calls : d # c => calls'[d] = calls[d]
  <2> DEFINE next == [calls[c] EXCEPT !.phase = "answered"]
  <2>1. next \in CallRecord /\ next.sync = calls[c].sync
    BY <1>1 DEF CallRecord
  <2>2. calls' = [calls EXCEPT ![c] = next]
    BY <1>1
  <2> HIDE DEF next
  <2> QED
    BY <1>1, <2>1, <2>2 DEF IInv, DeviceInv
<1>3. LoopsInv'
  BY <1>1, <1>2 DEF IInv, LoopsInv
<1>4. device' \in DeviceRecord /\ lost' \in BOOLEAN /\ HandlerFollows'
  <2>1. CASE calls[c].op = "unmount"
    <3>1. device' = [device EXCEPT !.mountHandler = FALSE] /\ lost' = (lost \/ Root \in mounts)
      BY <2>1 DEF AsyncCallback
    <3>2. device' \in DeviceRecord
      BY <3>1 DEF IInv, DeviceInv, DeviceRecord
    <3>3. lost' \in BOOLEAN
      BY <3>1
    <3>4. ~lost' => Root \notin mounts'
      BY <1>1, <3>1 DEF gioVars
    <3> QED
      BY <3>1, <3>2, <3>3, <3>4 DEF HandlerFollows, IInv, DeviceInv, DeviceRecord
  <2>2. CASE calls[c].op # "unmount"
    BY <1>1, <2>2 DEF AsyncCallback, IInv, DeviceInv, GioInv, HandlerFollows, gioVars
  <2> QED
    BY <2>1, <2>2
<1>5. DeviceInv'
  BY <1>1, <1>2, <1>4 DEF IInv, DeviceInv
<1>6. GioInv' /\ StartInv' /\ CacheIsDevices'
  BY <1>1, <1>4, MonitorKept
<1> QED
  BY <1>3, <1>4, <1>5, <1>6 DEF IInv

\* Loops are told to exit: they stay on the stack, each with its call.
LEMMA LoopsToldToExit ==
    ASSUME IInv, loops' \in Seq(LoopRecord), Len(loops') = Len(loops),
           \A i \in DOMAIN loops : loops'[i].call = loops[i].call, UNCHANGED calls
    PROVE  LoopsInv'
<1>1. DOMAIN loops' = DOMAIN loops
  BY DEF IInv, LoopsInv
<1> QED
  BY <1>1 DEF IInv, LoopsInv

\* A blocking call is answered: its loop is told, if it is there.
LEMMA AnswerOfBlocker ==
    ASSUME IInv, NEW c \in requests, BlockerCallback(c)
    PROVE  IInv'
<1>1. /\ requests' = requests \ {c} /\ undefined' \in BOOLEAN
      /\ UNCHANGED <<device, calls, gioVars, monitorVars, faithful, lost>>
  BY DEF BlockerCallback, IInv, GioInv
<1>2. LoopsInv'
  <2>1. CASE LoopOf(c) # {}
    <3> DEFINE next(i) == IF i \in LoopOf(c) THEN [loops[i] EXCEPT !.exit = "answer"]
                                              ELSE loops[i]
    <3>1. loops' = [i \in DOMAIN loops |-> next(i)]
      BY <2>1 DEF BlockerCallback
    <3>2. ASSUME NEW i \in DOMAIN loops
          PROVE  next(i) \in LoopRecord /\ next(i).call = loops[i].call
      <4>1. loops[i] \in LoopRecord
        BY DEF IInv, LoopsInv
      <4>2. /\ [loops[i] EXCEPT !.exit = "answer"] \in LoopRecord
            /\ [loops[i] EXCEPT !.exit = "answer"].call = loops[i].call
        BY <4>1 DEF LoopRecord
      <4> QED
        BY <4>1, <4>2
    <3> HIDE DEF next
    <3>3. DOMAIN loops = 1..Len(loops) /\ Len(loops) \in Nat
      BY DEF IInv, LoopsInv
    <3>4. loops' \in [1..Len(loops) -> LoopRecord]
      BY <3>1, <3>2, <3>3
    <3>5. loops' \in Seq(LoopRecord) /\ Len(loops') = Len(loops)
      BY <3>3, <3>4
    <3> QED
      BY <1>1, <3>1, <3>2, <3>5, LoopsToldToExit
  <2>2. CASE LoopOf(c) = {}
    BY <1>1, <2>2 DEF BlockerCallback, IInv, LoopsInv
  <2> QED
    BY <2>1, <2>2
<1>3. GioInv' /\ StartInv' /\ CacheIsDevices' /\ HandlerFollows'
  BY <1>1 DEF IInv, GioInv, StartInv, CacheIsDevices, DevicesThereAre, HandlerFollows,
              gioVars, monitorVars
<1>4. DeviceInv'
  BY <1>1 DEF IInv, DeviceInv
<1> QED
  BY <1>2, <1>3, <1>4 DEF IInv

\* A blocking call's timer fires.
LEMMA TimerFires ==
    ASSUME IInv, NEW i \in DOMAIN loops, Timeout(i)
    PROVE  IInv'
<1>1. /\ loops[i] \in LoopRecord /\ loops' = [loops EXCEPT ![i].timer = FALSE, ![i].exit = "timeout"]
      /\ UNCHANGED <<device, calls, requests, gioVars, monitorVars, faithful, history>>
  BY DEF Timeout, IInv, LoopsInv
<1>2. LoopsInv'
  <2> DEFINE next == [loops[i] EXCEPT !.timer = FALSE, !.exit = "timeout"]
  <2>1. next \in LoopRecord /\ next.call = loops[i].call
    BY <1>1 DEF LoopRecord
  <2>2. loops' = [loops EXCEPT ![i] = next]
    BY <1>1
  <2> HIDE DEF next
  <2>3. /\ loops' \in Seq(LoopRecord) /\ Len(loops') = Len(loops)
        /\ \A j \in DOMAIN loops : loops'[j].call = loops[j].call
    BY <2>1, <2>2 DEF IInv, LoopsInv
  <2> QED
    BY <1>1, <2>3, LoopsToldToExit
<1>3. GioInv' /\ StartInv' /\ CacheIsDevices' /\ HandlerFollows'
  BY <1>1, MonitorKept DEF IInv, GioInv, history
<1>4. DeviceInv'
  BY <1>1 DEF IInv, DeviceInv
<1> QED
  BY <1>2, <1>3, <1>4 DEF IInv

\* The innermost loop ends, and the call that ran it returns.
LEMMA CallReturns ==
    ASSUME IInv, LoopReturns
    PROVE  IInv'
<1> DEFINE c == Head(loops).call
<1>1. /\ loops \in Seq(LoopRecord) /\ loops # <<>> /\ Head(loops) = loops[1]
      /\ 1 \in DOMAIN loops /\ c \in DOMAIN calls /\ calls[c] \in CallRecord
      /\ loops' = Tail(loops)
      /\ UNCHANGED <<device, requests, gioVars, monitorVars, faithful, history>>
  BY DEF LoopReturns, IInv, LoopsInv, DeviceInv
<1>2. calls' = [calls EXCEPT ![c].phase = "answered",
                             ![c].result = @ /\ Head(loops).exit = "answer"]
  BY DEF LoopReturns
<1> HIDE DEF c
<1>3. /\ calls' \in Seq(CallRecord) /\ Len(calls') = Len(calls) /\ DOMAIN calls' = DOMAIN calls
      /\ calls'[c].phase = "answered"
      /\ \A d \in DOMAIN calls : d # c => calls'[d] = calls[d]
  <2> DEFINE next == [calls[c] EXCEPT !.phase = "answered",
                                      !.result = @ /\ Head(loops).exit = "answer"]
  <2>1. next \in CallRecord /\ next.phase = "answered"
    <3>1. ASSUME NEW result \in BOOLEAN
          PROVE  /\ [calls[c] EXCEPT !.phase = "answered", !.result = result] \in CallRecord
                 /\ [calls[c] EXCEPT !.phase = "answered", !.result = result].phase = "answered"
      BY <1>1 DEF CallRecord
    <3>2. (calls[c].result /\ Head(loops).exit = "answer") \in BOOLEAN
      OBVIOUS
    <3> QED
      BY <3>1, <3>2
  <2>2. calls' = [calls EXCEPT ![c] = next]
    BY <1>1, <1>2
  <2> HIDE DEF next
  <2> QED
    BY <1>1, <2>1, <2>2 DEF IInv, DeviceInv
<1>4. /\ loops' \in Seq(LoopRecord)
      /\ \A i \in DOMAIN loops' : i + 1 \in DOMAIN loops /\ loops'[i] = loops[i + 1] /\ i + 1 # 1
      /\ \A i \in DOMAIN loops : i # 1 => i - 1 \in DOMAIN loops' /\ loops'[i - 1] = loops[i]
  BY <1>1
<1>5. ASSUME NEW i \in DOMAIN loops PROVE (loops[i].call = c) = (i = 1)
  BY <1>1 DEF IInv, LoopsInv, c
<1>6. LoopsInv'
  <2>1. ASSUME NEW i \in DOMAIN loops'
        PROVE  /\ loops'[i].call \in DOMAIN calls' /\ calls'[loops'[i].call].sync
               /\ calls'[loops'[i].call].phase # "answered"
    <3>1. i + 1 \in DOMAIN loops /\ loops'[i] = loops[i + 1] /\ loops[i + 1].call # c
      BY <1>4, <1>5
    <3>2. /\ loops[i + 1].call \in DOMAIN calls /\ calls[loops[i + 1].call].sync
          /\ calls[loops[i + 1].call].phase # "answered"
      BY <3>1 DEF IInv, LoopsInv
    <3> QED
      BY <1>3, <3>1, <3>2
  <2>2. \A i, j \in DOMAIN loops' : loops'[i].call = loops'[j].call => i = j
    <3> SUFFICES ASSUME NEW i \in DOMAIN loops', NEW j \in DOMAIN loops',
                        loops'[i].call = loops'[j].call
                 PROVE  i = j
      OBVIOUS
    <3>1. i + 1 = j + 1
      BY <1>4 DEF IInv, LoopsInv
    <3>2. i \in Int /\ j \in Int
      BY <1>4
    <3> QED
      BY <3>1, <3>2
  <2>3. ASSUME NEW d \in DOMAIN calls', calls'[d].sync, calls'[d].phase # "answered"
        PROVE  \E i \in DOMAIN loops' : loops'[i].call = d
    <3>1. d # c /\ calls'[d] = calls[d] /\ d \in DOMAIN calls
      BY <1>3, <2>3
    <3>2. PICK i \in DOMAIN loops : loops[i].call = d
      BY <2>3, <3>1 DEF IInv, LoopsInv
    <3>3. i # 1
      BY <1>1, <1>5, <3>1, <3>2
    <3> QED
      BY <1>4, <3>2, <3>3
  <2> QED
    BY <1>4, <2>1, <2>2, <2>3 DEF LoopsInv
<1>7. GioInv' /\ StartInv' /\ CacheIsDevices' /\ HandlerFollows'
  BY <1>1, MonitorKept DEF IInv, GioInv, history
<1>8. DeviceInv'
  BY <1>1, <1>3 DEF IInv, DeviceInv
<1> QED
  BY <1>6, <1>7, <1>8 DEF IInv

-----------------------------------------------------------------------------
(* The invariant                                                           *)

LEMMA InitHolds == Init => IInv
<1> SUFFICES ASSUME Init PROVE IInv
  OBVIOUS
<1>1. GioInv /\ CacheIsDevices
  <2>1. /\ volumes \subseteq Phones /\ mounts \subseteq Roots
        /\ cachedDevices = DevicesThereAre /\ cachedDevices \subseteq Roots
    BY RootsAssumption DEF Init, DevicesThereAre, Shares
  <2>2. faithful \in BOOLEAN /\ lost \in BOOLEAN /\ undefined \in BOOLEAN
    BY DEF Init
  <2>3. events \in 0..MaxEvents
    BY BoundsAssumption DEF Init
  <2> QED
    BY <2>1, <2>2, <2>3 DEF GioInv, CacheIsDevices
<1>2. StartInv
  <2>1. connections \in BOOLEAN /\ ~connections
    BY DEF Init
  <2>2. starts \in 0..MaxStarts /\ handlers \in Nat /\ handlers <= starts
    BY BoundsAssumption DEF Init
  <2> QED
    BY <2>1, <2>2 DEF StartInv
<1>3. device = NoDevice /\ calls = <<>> /\ loops = <<>> /\ requests = {}
  BY DEF Init
<1>4. device \in DeviceRecord /\ HandlerFollows
  BY <1>3 DEF NoDevice, DeviceRecord, HandlerFollows
<1>5. calls \in Seq(CallRecord) /\ Len(calls) = 0 /\ DOMAIN calls = {}
  BY <1>3
<1>6. loops \in Seq(LoopRecord) /\ DOMAIN loops = {}
  BY <1>3
<1>7. DeviceInv /\ LoopsInv
  BY <1>3, <1>4, <1>5, <1>6, BoundsAssumption DEF DeviceInv, LoopsInv
<1> QED
  BY <1>1, <1>2, <1>4, <1>7 DEF IInv

LEMMA NextKeeps == IInv /\ [Next]_vars => IInv'
<1> SUFFICES ASSUME IInv, [Next]_vars PROVE IInv'
  OBVIOUS
<1>1. CASE GioEvent
  <2>1. /\ events < MaxEvents /\ events' = events + 1
        /\ UNCHANGED <<handlers, connections, starts, calls, loops, requests, undefined>>
    BY <1>1 DEF GioEvent
  <2>2. /\ volumes' \subseteq Phones /\ mounts' \subseteq Roots /\ cachedDevices' \subseteq Roots
        /\ faithful' \in BOOLEAN /\ lost' \in BOOLEAN /\ device' \in DeviceRecord
        /\ CacheIsDevices' /\ HandlerFollows'
    <3>1. PICK root \in Roots : \/ AddMount(root) \/ RemoveMount(root)
                                \/ VolumeAdded(root) \/ VolumeRemoved(root)
      BY <1>1 DEF GioEvent
    <3>2. CASE AddMount(root) \/ RemoveMount(root)
      BY <2>1, <3>2, MountEvents
    <3>3. CASE VolumeAdded(root) \/ VolumeRemoved(root)
      <4>1. /\ volumes' \subseteq Phones /\ mounts' \subseteq Roots
            /\ cachedDevices' \subseteq Roots
            /\ faithful' \in BOOLEAN /\ UNCHANGED <<device, lost>>
            /\ CacheIsDevices' /\ HandlerFollows'
        BY <3>3, VolumeEvents
      <4> QED
        BY <4>1 DEF IInv, GioInv, DeviceInv
    <3> QED
      BY <3>1, <3>2, <3>3
  <2>3. GioInv'
    BY <2>1, <2>2, BoundsAssumption DEF IInv, GioInv
  <2>4. StartInv' /\ DeviceInv' /\ LoopsInv'
    BY <2>1, <2>2 DEF IInv, StartInv, DeviceInv, LoopsInv
  <2> QED
    BY <2>2, <2>3, <2>4 DEF IInv
<1>2. CASE StartMonitor \/ StopMonitor
  <2>1. UNCHANGED <<cachedDevices, gioVars, deviceVars, faithful, history>>
    BY <1>2 DEF StartMonitor, StopMonitor
  <2>2. StartInv'
    <3>1. connections' \in BOOLEAN
      BY <1>2 DEF StartMonitor, StopMonitor
    <3>2. CASE StartMonitor
      <4>1. starts' \in 0..MaxStarts /\ handlers' \in Nat /\ handlers' <= starts' /\ handlers' > 0
        BY <3>2, BoundsAssumption DEF StartMonitor, IInv, StartInv
      <4> QED
        BY <3>1, <4>1 DEF StartInv
    <3>3. CASE StopMonitor
      <4>1. connections /\ ~connections'
        BY <3>3 DEF StopMonitor
      <4>2. starts' = starts /\ handlers' = handlers - 1 /\ handlers > 0
        BY <3>3, <4>1 DEF StopMonitor, IInv, StartInv
      <4>3. starts' \in 0..MaxStarts /\ handlers' \in Nat /\ handlers' <= starts'
        BY <4>2, BoundsAssumption DEF IInv, StartInv
      <4> QED
        BY <3>1, <4>1, <4>3 DEF StartInv
    <3> QED
      BY <1>2, <3>2, <3>3
  <2>3. GioInv' /\ DeviceInv' /\ LoopsInv'
    BY <2>1 DEF IInv, GioInv, DeviceInv, LoopsInv, gioVars, deviceVars, history
  <2>4. CacheIsDevices' /\ HandlerFollows'
    BY <2>1 DEF IInv, CacheIsDevices, DevicesThereAre, HandlerFollows, gioVars, deviceVars, history
  <2> QED
    BY <2>2, <2>3, <2>4 DEF IInv
<1>3. CASE CreateDevice
  <2>1. /\ device' = [exists |-> TRUE, mountHandler |-> Root \in mounts,
                      volumeHandler |-> Root \in volumes]
        /\ UNCHANGED <<calls, loops, requests, gioVars, monitorVars, faithful, history>>
    BY <1>3 DEF CreateDevice
  <2>2. device' \in DeviceRecord /\ (device'.mountHandler <=> Root \in mounts)
    <3>1. ASSUME NEW mounted \in BOOLEAN, NEW volume \in BOOLEAN
          PROVE  [exists |-> TRUE, mountHandler |-> mounted, volumeHandler |-> volume]
                     \in DeviceRecord
      BY DEF DeviceRecord
    <3>2. (Root \in mounts) \in BOOLEAN /\ (Root \in volumes) \in BOOLEAN
      OBVIOUS
    <3>3. device' \in DeviceRecord
      BY <2>1, <3>1, <3>2
    <3>4. device'.mountHandler = (Root \in mounts)
      BY <2>1
    <3> QED
      BY <3>3, <3>4
  <2>3. HandlerFollows'
    BY <2>1, <2>2 DEF HandlerFollows, gioVars
  <2>4. GioInv' /\ StartInv' /\ CacheIsDevices'
    BY <2>1, MonitorKept DEF IInv, GioInv, history
  <2>5. DeviceInv' /\ LoopsInv'
    BY <2>1, <2>2 DEF IInv, DeviceInv, LoopsInv
  <2> QED
    BY <2>3, <2>4, <2>5 DEF IInv
<1>4. CASE \E sync \in BOOLEAN : Mount(sync) \/ Unmount(sync)
  BY <1>4, CallsMade
<1>5. CASE \E c \in requests : CarryOut(c) \/ AsyncCallback(c) \/ BlockerCallback(c)
  BY <1>5, RequestCarriedOut, AnswerCalledBack, AnswerOfBlocker
<1>6. CASE \E i \in DOMAIN loops : Timeout(i)
  BY <1>6, TimerFires
<1>7. CASE LoopReturns
  BY <1>7, CallReturns
<1>8. CASE UNCHANGED vars
  <2>1. GioInv' /\ StartInv' /\ CacheIsDevices' /\ HandlerFollows'
    BY <1>8 DEF IInv, GioInv, StartInv, CacheIsDevices, DevicesThereAre, HandlerFollows,
                vars, gioVars, monitorVars, deviceVars, history
  <2>2. DeviceInv' /\ LoopsInv'
    BY <1>8 DEF IInv, DeviceInv, LoopsInv, vars, deviceVars
  <2> QED
    BY <2>1, <2>2 DEF IInv
<1> QED
  BY <1>1, <1>2, <1>3, <1>4, <1>5, <1>6, <1>7, <1>8 DEF Next, Device

LEMMA InvariantHolds == Spec => []IInv
<1>1. Init => IInv
  BY InitHolds
<1>2. IInv /\ [Next]_vars => IInv'
  BY NextKeeps
<1> QED
  BY <1>1, <1>2, PTL DEF Spec

-----------------------------------------------------------------------------
(* The theorems                                                            *)

\* Type correctness of monitor and device (dprotocolmonitor.cpp,
\* dprotocoldevice.cpp): a blocking call has a loop on the stack until it has
\* returned, and one only, however calls, callbacks and timers nest.
THEOREM TypeCorrect == Spec => []TypeOK
<1>1. IInv => TypeOK
  <2> SUFFICES ASSUME IInv PROVE TypeOK
    OBVIOUS
  <2>1. /\ volumes \subseteq Phones /\ mounts \subseteq Roots /\ cachedDevices \subseteq Roots
        /\ events \in 0..MaxEvents /\ handlers \in 0..MaxStarts /\ starts \in 0..MaxStarts
    BY BoundsAssumption DEF IInv, GioInv, StartInv
  <2>2. {connections, faithful, lost, undefined} \subseteq BOOLEAN
    <3>1. /\ connections \in BOOLEAN /\ faithful \in BOOLEAN
          /\ lost \in BOOLEAN /\ undefined \in BOOLEAN
      BY DEF IInv, GioInv, StartInv
    <3> QED
      BY <3>1
  <2>3. /\ device \in [exists : BOOLEAN, mountHandler : BOOLEAN, volumeHandler : BOOLEAN]
        /\ requests \subseteq DOMAIN calls
    BY DEF IInv, DeviceInv, DeviceRecord
  <2>4. ASSUME NEW c \in DOMAIN calls
        PROVE  /\ calls[c] \in CallRecord
               /\ calls[c].sync => (calls[c].phase = "answered" <=> LoopOf(c) = {})
    <3>1. calls[c] \in CallRecord
      BY DEF IInv, DeviceInv
    <3>2. ASSUME calls[c].sync, calls[c].phase # "answered" PROVE LoopOf(c) # {}
      BY <3>2 DEF IInv, LoopsInv, LoopOf
    <3>3. ASSUME NEW i \in LoopOf(c) PROVE calls[c].phase # "answered"
      BY DEF IInv, LoopsInv, LoopOf
    <3> QED
      BY <3>1, <3>2, <3>3
  <2>5. IsInjective([i \in DOMAIN loops |-> loops[i].call])
    BY DEF IInv, LoopsInv, IsInjective
  <2> QED
    BY <2>1, <2>2, <2>3, <2>4, <2>5 DEF TypeOK, CallRecord
<1> QED
  BY <1>1, InvariantHolds, PTL

\* Monitor and device keep up with GIO (dprotocolmonitor.cpp, lines 210-309):
\* while every change is heard the cache lists the devices there are, and the
\* device knows whether it is mounted unless its own unmount callback dropped
\* a mount that is there.
THEOREM ViewsKeepUp == Spec => []ViewsFollow
<1>1. IInv => ViewsFollow
  BY DEF IInv, ViewsFollow
<1> QED
  BY <1>1, InvariantHolds, PTL

-----------------------------------------------------------------------------
(* Who answers the calls                                                   *)

\* A call that is answered, refused or dropped at once waits for nothing.
LEMMA SettledAwaitsNothing ==
    ASSUME IInv, AwaitInv, NEW call \in CallRecord, call.phase \in {"answered", "dropped"},
           calls' = Append(calls, call), UNCHANGED <<loops, requests>>
    PROVE  AwaitInv'
<1>1. /\ DOMAIN calls' = DOMAIN calls \cup {Len(calls) + 1} /\ Len(calls) + 1 \notin requests
      /\ calls'[Len(calls) + 1] = call /\ \A d \in DOMAIN calls : calls'[d] = calls[d]
  BY DEF IInv, DeviceInv
<1> QED
  BY <1>1 DEF AwaitInv

\* A request is what its call waits for; the loop of a blocking call is the innermost.
LEMMA RequestIsAwaited ==
    ASSUME IInv, AwaitInv, CanCall, NEW op \in {"mount", "unmount"}, NEW sync \in BOOLEAN,
           Request(op, sync)
    PROVE  AwaitInv'
<1> DEFINE c == Len(calls) + 1
           call == [op |-> op, sync |-> sync, phase |-> "waiting", result |-> FALSE]
           loop == [call |-> c, exit |-> "running", timer |-> TRUE]
<1>1. /\ calls' = Append(calls, call) /\ requests' = requests \cup {c}
      /\ call \in CallRecord /\ call.sync = sync /\ call.phase = "waiting"
      /\ loop.call = c
  BY DEF Request, Call, CallRecord
<1>2. loops' = IF sync THEN <<loop>> \o loops ELSE loops
  BY DEF Request
<1> HIDE DEF loop, call
<1>3. /\ DOMAIN calls' = DOMAIN calls \cup {c} /\ c \notin DOMAIN calls
      /\ calls'[c] = call /\ \A d \in DOMAIN calls : calls'[d] = calls[d] /\ d < c
      /\ c \in Int /\ DOMAIN calls \subseteq Int
  BY <1>1 DEF IInv, DeviceInv
<1> HIDE DEF c
<1>4. ASSUME NEW d \in DOMAIN calls', ~calls'[d].sync
      PROVE  calls'[d].phase \in {"waiting", "done"} <=> d \in requests'
  <2>1. CASE d = c
    BY <1>1, <1>3, <2>1
  <2>2. CASE d # c
    BY <1>1, <1>3, <1>4, <2>2 DEF AwaitInv
  <2> QED
    BY <2>1, <2>2
<1>5. CASE sync
  <2>1. /\ loops' = <<loop>> \o loops /\ loops \in Seq(LoopRecord) /\ loop \in LoopRecord
    <3>1. c \in Ids
      BY BoundsAssumption DEF c, CanCall, IInv, DeviceInv, Ids
    <3> QED
      BY <1>2, <1>5, <3>1 DEF IInv, LoopsInv, LoopRecord, loop
  <2>2. /\ loops'[1] = loop /\ DOMAIN loops' \subseteq Int
        /\ \A i \in DOMAIN loops' : 1 <= i
        /\ \A i \in DOMAIN loops' : i # 1 => i - 1 \in DOMAIN loops /\ loops'[i] = loops[i - 1]
    BY <2>1
  <2>3. ASSUME NEW i \in DOMAIN loops' PROVE i = 1 \/ loops'[i].call \in DOMAIN calls
    BY <2>2 DEF IInv, LoopsInv
  <2>4. ASSUME NEW i \in DOMAIN loops', loops'[i].exit = "running"
        PROVE  loops'[i].call \in requests'
    BY <1>1, <2>2, <2>4 DEF AwaitInv
  <2>5. ASSUME NEW i \in DOMAIN loops', NEW j \in DOMAIN loops', i < j
        PROVE  loops'[j].call < loops'[i].call
    <3>1. j # 1 /\ loops'[j] = loops[j - 1] /\ j - 1 \in DOMAIN loops /\ i \in Int /\ j \in Int
      BY <2>2, <2>5
    <3>2. CASE i = 1
      BY <1>1, <1>3, <2>2, <2>3, <3>1, <3>2
    <3>3. CASE i # 1
      <4>1. i - 1 \in DOMAIN loops /\ loops'[i] = loops[i - 1] /\ i - 1 < j - 1
        BY <2>2, <2>5, <3>1, <3>3
      <4> QED
        BY <3>1, <4>1 DEF AwaitInv
    <3> QED
      BY <3>2, <3>3
  <2> QED
    BY <1>4, <2>4, <2>5 DEF AwaitInv
<1>6. CASE ~sync
  <2>1. loops' = loops
    BY <1>2, <1>6
  <2> QED
    BY <1>1, <1>4, <2>1 DEF AwaitInv
<1> QED
  BY <1>5, <1>6

\* GIO carries a request out or calls back.
LEMMA AnswersOnTheirWay ==
    ASSUME IInv, AwaitInv, NEW c \in requests,
           CarryOut(c) \/ AsyncCallback(c) \/ BlockerCallback(c)
    PROVE  AwaitInv'
<1>1. /\ c \in DOMAIN calls /\ calls \in Seq(CallRecord) /\ loops \in Seq(LoopRecord)
      /\ calls[c] \in CallRecord
  BY DEF IInv, DeviceInv, LoopsInv
<1>2. CASE CarryOut(c)
  <2> DEFINE next == [calls[c] EXCEPT !.phase = "done", !.result = TRUE]
  <2>1. /\ calls' = [calls EXCEPT ![c] = next] /\ calls[c].phase = "waiting"
        /\ next.phase = "done" /\ next.sync = calls[c].sync
        /\ UNCHANGED <<loops, requests>>
    BY <1>1, <1>2 DEF CarryOut, CallRecord
  <2> HIDE DEF next
  <2>2. /\ DOMAIN calls' = DOMAIN calls /\ calls'[c] = next
        /\ \A d \in DOMAIN calls : d # c => calls'[d] = calls[d]
    BY <1>1, <2>1
  <2> QED
    BY <1>1, <2>1, <2>2 DEF AwaitInv
<1>3. CASE AsyncCallback(c)
  <2> DEFINE next == [calls[c] EXCEPT !.phase = "answered"]
  <2>1. /\ calls' = [calls EXCEPT ![c] = next] /\ ~calls[c].sync
        /\ next.phase = "answered" /\ next.sync = calls[c].sync
        /\ requests' = requests \ {c} /\ UNCHANGED loops
    BY <1>1, <1>3 DEF AsyncCallback, CallRecord
  <2> HIDE DEF next
  <2>2. /\ DOMAIN calls' = DOMAIN calls /\ calls'[c] = next
        /\ \A d \in DOMAIN calls : d # c => calls'[d] = calls[d]
    BY <1>1, <2>1
  <2>3. \A i \in DOMAIN loops : loops[i].call # c
    BY <2>1 DEF IInv, LoopsInv
  <2> QED
    BY <1>1, <2>1, <2>2, <2>3 DEF AwaitInv
<1>4. CASE BlockerCallback(c)
  <2>1. calls[c].sync /\ requests' = requests \ {c} /\ UNCHANGED calls
    BY <1>4 DEF BlockerCallback
  <2>2. /\ DOMAIN loops' = DOMAIN loops
        /\ \A i \in DOMAIN loops :
              /\ loops'[i].call = loops[i].call
              /\ loops'[i].exit = "running" => loops[i].exit = "running" /\ loops[i].call # c
    <3>1. CASE LoopOf(c) # {}
      <4> DEFINE next(i) == IF i \in LoopOf(c) THEN [loops[i] EXCEPT !.exit = "answer"]
                                              ELSE loops[i]
      <4>1. loops' = [i \in DOMAIN loops |-> next(i)]
        BY <1>4, <3>1 DEF BlockerCallback
      <4>2. ASSUME NEW i \in DOMAIN loops
            PROVE  /\ next(i).call = loops[i].call
                   /\ next(i).exit = "running" => loops[i].exit = "running" /\ loops[i].call # c
        <5>1. loops[i] \in LoopRecord
          BY <1>1
        <5>2. /\ [loops[i] EXCEPT !.exit = "answer"].call = loops[i].call
              /\ [loops[i] EXCEPT !.exit = "answer"].exit = "answer"
          BY <5>1 DEF LoopRecord
        <5> QED
          BY <5>2 DEF LoopOf
      <4> HIDE DEF next
      <4> QED
        BY <4>1, <4>2
    <3>2. CASE LoopOf(c) = {}
      BY <1>4, <3>2 DEF BlockerCallback, LoopOf
    <3> QED
      BY <3>1, <3>2
  <2> QED
    BY <2>1, <2>2 DEF AwaitInv
<1> QED
  BY <1>2, <1>3, <1>4

\* A timer tells one loop to exit; the innermost loop ends.
LEMMA LoopsEnd ==
    ASSUME IInv, AwaitInv, LoopReturns \/ \E i \in DOMAIN loops : Timeout(i)
    PROVE  AwaitInv'
<1>1. loops \in Seq(LoopRecord) /\ calls \in Seq(CallRecord)
  BY DEF IInv, LoopsInv, DeviceInv
<1>2. CASE LoopReturns
  <2> DEFINE c == Head(loops).call
  <2>1. /\ loops # <<>> /\ loops' = Tail(loops) /\ UNCHANGED requests
        /\ Head(loops) = loops[1] /\ 1 \in DOMAIN loops
        /\ c \in DOMAIN calls /\ calls[c].sync /\ calls[c] \in CallRecord
    BY <1>1, <1>2 DEF LoopReturns, IInv, LoopsInv
  <2>2. calls' = [calls EXCEPT ![c].phase = "answered",
                               ![c].result = @ /\ Head(loops).exit = "answer"]
    BY <1>2 DEF LoopReturns
  <2>3. /\ DOMAIN calls' = DOMAIN calls /\ calls'[c].sync
        /\ \A d \in DOMAIN calls : d # c => calls'[d] = calls[d]
    <3> DEFINE next == [calls[c] EXCEPT !.phase = "answered",
                                        !.result = @ /\ Head(loops).exit = "answer"]
    <3>1. calls' = [calls EXCEPT ![c] = next] /\ next.sync = calls[c].sync
      BY <1>1, <2>1, <2>2 DEF CallRecord
    <3> HIDE DEF next, c
    <3> QED
      BY <1>1, <2>1, <3>1
  <2> HIDE DEF c
  <2>4. /\ DOMAIN loops' \subseteq Int
        /\ \A i \in DOMAIN loops' : i + 1 \in DOMAIN loops /\ loops'[i] = loops[i + 1]
    BY <1>1, <2>1
  <2>5. ASSUME NEW i \in DOMAIN loops', NEW j \in DOMAIN loops', i < j
        PROVE  loops'[j].call < loops'[i].call
    <3>1. i + 1 < j + 1 /\ i + 1 \in DOMAIN loops /\ j + 1 \in DOMAIN loops
      BY <2>4, <2>5
    <3> QED
      BY <2>4, <3>1 DEF AwaitInv
  <2> QED
    BY <2>1, <2>3, <2>4, <2>5 DEF AwaitInv
<1>3. ASSUME NEW i \in DOMAIN loops, Timeout(i) PROVE AwaitInv'
  <2> DEFINE next == [loops[i] EXCEPT !.timer = FALSE, !.exit = "timeout"]
  <2>1. loops' = [loops EXCEPT ![i] = next] /\ UNCHANGED <<calls, requests>>
    BY <1>3 DEF Timeout
  <2>2. loops[i] \in LoopRecord
    BY <1>1
  <2>3. next.call = loops[i].call /\ next.exit = "timeout"
    BY <2>2 DEF LoopRecord
  <2> HIDE DEF next
  <2>4. /\ DOMAIN loops' = DOMAIN loops
        /\ \A j \in DOMAIN loops :
              /\ loops'[j].call = loops[j].call
              /\ loops'[j].exit = "running" => loops[j].exit = "running"
    BY <1>1, <2>1, <2>3
  <2> QED
    BY <2>1, <2>4 DEF AwaitInv
<1> QED
  BY <1>2, <1>3

LEMMA NextAwaits == IInv /\ AwaitInv /\ [Next]_vars => AwaitInv'
<1> SUFFICES ASSUME IInv, AwaitInv, [Next]_vars PROVE AwaitInv'
  OBVIOUS
<1>1. CASE GioEvent \/ StartMonitor \/ StopMonitor \/ CreateDevice \/ UNCHANGED vars
  <2>1. UNCHANGED <<calls, loops, requests>>
    BY <1>1 DEF GioEvent, StartMonitor, StopMonitor, CreateDevice, deviceVars, vars
  <2> QED
    BY <2>1 DEF AwaitInv
<1>2. ASSUME NEW sync \in BOOLEAN, Mount(sync) \/ Unmount(sync) PROVE AwaitInv'
  <2>1. CanCall
    BY <1>2 DEF Mount, Unmount
  <2>2. ASSUME NEW op \in {"mount", "unmount"}, NEW result \in BOOLEAN, Settle(op, sync, result)
        PROVE  AwaitInv'
    <3> DEFINE call == [op |-> op, sync |-> sync, phase |-> "answered", result |-> result]
    <3>1. call \in CallRecord /\ call.phase = "answered"
      BY DEF CallRecord
    <3>2. calls' = Append(calls, call) /\ UNCHANGED <<loops, requests>>
      BY <2>2 DEF Settle, Call
    <3> HIDE DEF call
    <3> QED
      BY <3>1, <3>2, SettledAwaitsNothing
  <2>3. ASSUME NEW op \in {"mount", "unmount"}, Request(op, sync) PROVE AwaitInv'
    BY <2>1, <2>3, RequestIsAwaited
  <2>4. CASE /\ calls' = Append(calls, Call("mount", sync, IF sync THEN "answered" ELSE "dropped",
                                             FALSE))
             /\ UNCHANGED <<loops, requests>>
    <3> DEFINE phase == IF sync THEN "answered" ELSE "dropped"
               call == [op |-> "mount", sync |-> sync, phase |-> phase, result |-> FALSE]
    <3>1. call \in CallRecord /\ call.phase \in {"answered", "dropped"}
      BY DEF CallRecord
    <3>2. calls' = Append(calls, call) /\ UNCHANGED <<loops, requests>>
      BY <2>4 DEF Call
    <3> HIDE DEF call
    <3> QED
      BY <3>1, <3>2, SettledAwaitsNothing
  <2> QED
    BY <1>2, <2>2, <2>3, <2>4 DEF Mount, Unmount
<1>3. CASE \E c \in requests : CarryOut(c) \/ AsyncCallback(c) \/ BlockerCallback(c)
  BY <1>3, AnswersOnTheirWay
<1>4. CASE LoopReturns \/ \E i \in DOMAIN loops : Timeout(i)
  BY <1>4, LoopsEnd
<1> QED
  BY <1>1, <1>2, <1>3, <1>4 DEF Next, Device

LEMMA AwaitHolds == Spec => []AwaitInv
<1>1. Init => AwaitInv
  <2> SUFFICES ASSUME Init PROVE AwaitInv
    OBVIOUS
  <2>1. DOMAIN calls = {} /\ DOMAIN loops = {}
    BY DEF Init
  <2> QED
    BY <2>1 DEF AwaitInv
<1>2. IInv /\ AwaitInv /\ [Next]_vars => AwaitInv'
  BY NextAwaits
<1> QED
  BY <1>1, <1>2, InvariantHolds, PTL DEF Spec

\* No call is forgotten (mount(), unmount() and the callbacks, dprotocoldevice.cpp): while
\* it is not answered GIO has its request, or its event loop has been told to exit.
THEOREM NoCallIsForgotten ==
    Spec => [](\A c \in DOMAIN calls : calls[c].phase \in {"waiting", "done"} =>
                  \/ c \in requests
                  \/ \E i \in DOMAIN loops : loops[i].call = c /\ loops[i].exit # "running")
<1> DEFINE Awaited == \A c \in DOMAIN calls : calls[c].phase \in {"waiting", "done"} =>
                         \/ c \in requests
                         \/ \E i \in DOMAIN loops : loops[i].call = c /\ loops[i].exit # "running"
<1>1. IInv /\ AwaitInv => Awaited
  <2> SUFFICES ASSUME IInv, AwaitInv, NEW c \in DOMAIN calls,
                      calls[c].phase \in {"waiting", "done"}, c \notin requests
               PROVE  \E i \in DOMAIN loops : loops[i].call = c /\ loops[i].exit # "running"
    OBVIOUS
  <2>1. calls[c].sync
    BY DEF AwaitInv
  <2>2. PICK i \in DOMAIN loops : loops[i].call = c
    BY <2>1 DEF IInv, LoopsInv
  <2> QED
    BY <2>2 DEF AwaitInv
<1> HIDE DEF Awaited
<1>2. Spec => []Awaited
  BY <1>1, InvariantHolds, AwaitHolds, PTL
<1> QED
  BY <1>2 DEF Awaited

(* An answer is given once                                                   *)
AnswerStays ==
    \A c \in DOMAIN calls : calls[c].phase = "answered" => calls'[c] = calls[c]

(* A blocking call returns after those made inside its event loop            *)
CallsNest ==
    \A c, d \in DOMAIN calls :
        /\ c < d /\ calls[c].sync /\ calls[d].sync
        /\ calls[c].phase # "answered" /\ calls[d].phase # "answered"
        => calls'[c].phase # "answered"

\* An answer is given once: nothing that GIO, a timer or a loop does later changes what a
\* call has returned.  And blocking calls nest: none returns while a later one, made inside
\* its event loop, has not (QEventLoop of the blocker, dprotocoldevice.cpp).
THEOREM CallsReturnOnceAndNested == Spec => [][AnswerStays /\ CallsNest]_vars
<1>1. ASSUME IInv, AwaitInv, Next PROVE AnswerStays /\ CallsNest
  <2>1. calls \in Seq(CallRecord) /\ loops \in Seq(LoopRecord)
    BY <1>1 DEF IInv, DeviceInv, LoopsInv
  <2>2. CASE GioEvent \/ StartMonitor \/ StopMonitor \/ CreateDevice
    BY <2>2 DEF GioEvent, StartMonitor, StopMonitor, CreateDevice, deviceVars,
                AnswerStays, CallsNest
  <2>3. ASSUME NEW sync \in BOOLEAN, Mount(sync) \/ Unmount(sync) PROVE AnswerStays /\ CallsNest
    <3>1. \E call : calls' = Append(calls, call)
      BY <2>3 DEF Mount, Unmount, Settle, Request
    <3>2. \A c \in DOMAIN calls : calls'[c] = calls[c]
      BY <2>1, <3>1
    <3> QED
      BY <3>2 DEF AnswerStays, CallsNest
  <2>4. ASSUME NEW c \in requests, CarryOut(c) PROVE AnswerStays /\ CallsNest
    <3> DEFINE next == [calls[c] EXCEPT !.phase = "done", !.result = TRUE]
    <3>1. c \in DOMAIN calls /\ calls[c] \in CallRecord
      BY <1>1, <2>1 DEF IInv, DeviceInv
    <3>2. /\ calls' = [calls EXCEPT ![c] = next] /\ calls[c].phase = "waiting"
          /\ next.phase = "done"
      BY <2>4, <3>1 DEF CarryOut, CallRecord
    <3> HIDE DEF next
    <3>3. calls'[c] = next /\ \A d \in DOMAIN calls : d # c => calls'[d] = calls[d]
      BY <2>1, <3>1, <3>2
    <3> QED
      BY <3>1, <3>2, <3>3 DEF AnswerStays, CallsNest
  <2>5. ASSUME NEW c \in requests, AsyncCallback(c) PROVE AnswerStays /\ CallsNest
    <3> DEFINE next == [calls[c] EXCEPT !.phase = "answered"]
    <3>1. /\ calls' = [calls EXCEPT ![c] = next] /\ ~calls[c].sync
          /\ c \in DOMAIN calls /\ calls[c].phase # "answered"
      BY <1>1, <2>5 DEF AsyncCallback, IInv, DeviceInv, AwaitInv
    <3> HIDE DEF next
    <3>2. \A d \in DOMAIN calls : d # c => calls'[d] = calls[d]
      BY <2>1, <3>1
    <3> QED
      BY <3>1, <3>2 DEF AnswerStays, CallsNest
  <2>6. CASE \/ \E c \in requests : BlockerCallback(c)
             \/ \E i \in DOMAIN loops : Timeout(i)
    BY <2>6 DEF BlockerCallback, Timeout, AnswerStays, CallsNest
  <2>7. CASE LoopReturns
    <3> DEFINE c == Head(loops).call
               next == [calls[c] EXCEPT !.phase = "answered",
                                        !.result = @ /\ Head(loops).exit = "answer"]
    <3>1. /\ loops # <<>> /\ Head(loops) = loops[1] /\ 1 \in DOMAIN loops
          /\ calls' = [calls EXCEPT ![c].phase = "answered",
                                    ![c].result = @ /\ Head(loops).exit = "answer"]
      BY <2>1, <2>7 DEF LoopReturns
    <3>2. /\ calls' = [calls EXCEPT ![c] = next] /\ 1 \in DOMAIN loops
          /\ c \in DOMAIN calls /\ calls[c].phase # "answered" /\ c = loops[1].call
      BY <1>1, <3>1 DEF IInv, LoopsInv
    <3> HIDE DEF next, c
    <3>3. \A d \in DOMAIN calls : d # c => calls'[d] = calls[d]
      BY <2>1, <3>2
    <3>4. ASSUME NEW d \in DOMAIN calls, c < d, calls[d].sync, calls[d].phase # "answered"
          PROVE  FALSE
      <4>1. PICK i \in DOMAIN loops : loops[i].call = d
        BY <1>1, <3>4 DEF IInv, LoopsInv
      <4>2. i = 1 \/ 1 < i
        BY <2>1
      <4>3. c \in Int /\ d \in Int
        BY <2>1, <3>2
      <4> QED
        BY <1>1, <3>2, <3>4, <4>1, <4>2, <4>3 DEF AwaitInv
    <3> QED
      BY <3>2, <3>3, <3>4 DEF AnswerStays, CallsNest
  <2> QED
    BY <1>1, <2>2, <2>3, <2>4, <2>5, <2>6, <2>7 DEF Next, Device
<1>2. IInv /\ AwaitInv /\ [Next]_vars => [AnswerStays /\ CallsNest]_vars
  BY <1>1
<1> QED
  BY <1>2, InvariantHolds, AwaitHolds, PTL DEF Spec
=============================================================================
