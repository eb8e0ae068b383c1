---------------------------- MODULE ProtocolMounts ----------------------------
(***************************************************************************)
(* DProtocolMonitor, which keeps the shares and phones GIO knows, and a    *)
(* DProtocolDevice of one of them, whose mountHandler follows the          *)
(* monitor's signals and which mounts and unmounts, blocking or not.       *)
(*                                                                         *)
(* All of it runs on the main thread.  A blocking call runs an event loop  *)
(* of its own (ASyncToSyncHelper): GIO's signals, callbacks and further    *)
(* calls happen inside, and calls return in the reverse of their order.    *)
(***************************************************************************)
EXTENDS Integers, SequencesExt

CONSTANTS Roots,      \* URIs of mounts and volumes
          Phones,     \* those with a volume
          Hidden,     \* mounts of a /dev device or of another user
          Root,       \* the device's URI
          MaxEvents,  \* bound: volumes and mounts that come and go by themselves
          MaxCalls,   \* bound: calls on the device
          MaxStarts   \* bound: calls of startMonitor()

ASSUME RootsAssumption ==
    Phones \subseteq Roots /\ Hidden \subseteq Roots \ Phones /\ Root \in Roots \ Hidden
ASSUME BoundsAssumption == MaxEvents \in Nat /\ MaxCalls \in Nat /\ MaxStarts \in Nat

VARIABLES
    \* GVolumeMonitor
    volumes, mounts, events,
    requests,       \* mounts and unmounts GIO has not answered
    \* DProtocolMonitor
    cachedDevices,
    handlers,       \* handlers connected to each of its signals
    connections,    \* connections holds the last of them
    starts,
    \* DProtocolDevice
    device,         \* "none", or what it holds
    calls,          \* calls on it, first one first
    loops,          \* event loops of blocking calls, innermost first
    \* history
    faithful,       \* since the cache was built no change went unheard
    lost,           \* unmountWithCallback() dropped a mount that is still there
    undefined       \* a callback wrote to a blocker that had been freed

gioVars == <<volumes, mounts, events>>
monitorVars == <<cachedDevices, handlers, connections, starts>>
deviceVars == <<device, calls, loops, requests>>
history == <<lost, undefined>>
vars == <<gioVars, monitorVars, deviceVars, faithful, history>>

NoDevice == [exists |-> FALSE, mountHandler |-> FALSE, volumeHandler |-> FALSE]
Ids == 1..MaxCalls
Shares == Roots \ Phones                     \* smb, ftp, sftp: never of a volume

-----------------------------------------------------------------------------
(* DProtocolMonitor.  GIO updates its lists and emits the signal at once;   *)
(* the device is connected to the monitor's signals.                        *)

(* initDeviceList(): volumes without a drive, mounts without a volume       *)
DevicesThereAre == volumes \cup (mounts \ (Hidden \cup Phones))

IsOrphanMount(root, V) == root \in Shares \/ root \notin V

(* mounted(): the device takes the mount GIO has now                        *)
Mounted(root) ==
    IF root = Root /\ device.exists THEN [device EXCEPT !.mountHandler = root \in mounts']
    ELSE device

Unmounted(root) ==
    IF root = Root THEN [device EXCEPT !.mountHandler = FALSE] ELSE device

Heard == faithful' = (faithful /\ handlers > 0)

OnMountAdded(root) ==
    IF handlers > 0 /\ root \notin Hidden
    THEN /\ cachedDevices' = cachedDevices \cup {root}
         /\ device' = Mounted(root)
         /\ lost' = (lost /\ ~(root = Root /\ device.exists))
    ELSE UNCHANGED <<cachedDevices, device, lost>>

(* The removal of a hidden mount is announced as well                       *)
OnMountRemoved(root) ==
    IF handlers > 0
    THEN /\ cachedDevices' = IF IsOrphanMount(root, volumes) THEN cachedDevices \ {root}
                             ELSE cachedDevices
         /\ device' = Unmounted(root)
    ELSE UNCHANGED <<cachedDevices, device>>

AddMount(root) ==
    /\ root \notin mounts
    /\ root \in Phones => root \in volumes
    /\ mounts' = mounts \cup {root}
    /\ OnMountAdded(root) /\ Heard
    /\ UNCHANGED volumes

RemoveMount(root) ==
    /\ root \in mounts /\ mounts' = mounts \ {root}
    /\ OnMountRemoved(root) /\ Heard
    /\ lost' = (lost /\ root # Root)
    /\ UNCHANGED volumes

(* A phone is plugged in; is pulled out, its mount first or after            *)
VolumeAdded(root) ==
    /\ root \in Phones \ volumes
    /\ volumes' = volumes \cup {root}
    /\ cachedDevices' = IF handlers > 0 THEN cachedDevices \cup {root} ELSE cachedDevices
    /\ Heard
    /\ UNCHANGED <<mounts, device, lost>>

\* Mutant: a volume that goes before its mount is kept for the mount.
VolumeRemovedUnmounted(root) ==
    /\ root \in volumes
    /\ volumes' = volumes \ {root}
    /\ cachedDevices' = IF handlers > 0 /\ root \notin mounts THEN cachedDevices \ {root}
                        ELSE cachedDevices
    /\ Heard
    /\ UNCHANGED <<mounts, device, lost>>

VolumeRemoved(root) ==
    /\ root \in volumes
    /\ volumes' = volumes \ {root}
    /\ cachedDevices' = IF handlers > 0 THEN cachedDevices \ {root} ELSE cachedDevices
    /\ Heard
    /\ UNCHANGED <<mounts, device, lost>>

GioEvent ==
    /\ events < MaxEvents /\ events' = events + 1
    /\ \E root \in Roots : \/ AddMount(root) \/ RemoveMount(root)
                           \/ VolumeAdded(root) \/ VolumeRemoved(root)
    /\ UNCHANGED <<handlers, connections, starts, calls, loops, requests, undefined>>

(* DDeviceManager starts and stops the monitors together.  A second start   *)
(* connects every handler again; the first ones can no longer be            *)
(* disconnected.  Neither builds the cache.                                  *)
StartMonitor ==
    /\ starts < MaxStarts /\ starts' = starts + 1
    /\ handlers' = handlers + 1 /\ connections' = TRUE
    /\ UNCHANGED <<cachedDevices, gioVars, deviceVars, faithful, history>>

StopMonitor ==
    /\ connections /\ connections' = FALSE
    /\ handlers' = handlers - 1
    /\ UNCHANGED <<cachedDevices, starts, gioVars, deviceVars, faithful, history>>

(* createDevice(): a device of a known URI, with the volume and the mount    *)
(* GIO has now                                                              *)
CreateDevice ==
    /\ ~device.exists /\ Root \in cachedDevices
    /\ device' = [exists |-> TRUE, mountHandler |-> Root \in mounts,
                  volumeHandler |-> Root \in volumes]
    /\ UNCHANGED <<calls, loops, requests, gioVars, monitorVars, faithful, history>>

-----------------------------------------------------------------------------
(* DProtocolDevice                                                         *)

Call(op, sync, phase, result) ==
    [op |-> op, sync |-> sync, phase |-> phase, result |-> result]

CanCall == device.exists /\ Len(calls) < MaxCalls
Phase(c) == IF c \in DOMAIN calls THEN calls[c].phase ELSE "none"
Settle(op, sync, result) ==
    /\ calls' = Append(calls, Call(op, sync, "answered", result))
    /\ UNCHANGED <<loops, requests>>

Request(op, sync) ==
    LET c == Len(calls) + 1 IN
    /\ calls' = Append(calls, Call(op, sync, "waiting", FALSE))
    /\ requests' = requests \cup {c}
    /\ loops' = IF sync THEN <<[call |-> c, exit |-> "running", timer |-> TRUE]>> \o loops ELSE loops

(* mount(), mountAsync(): with a mount, answered at once; without a volume,  *)
(* or if it cannot be mounted, refused; but mountAsync() on a device with    *)
(* neither never calls back                                                 *)
Mount(sync) ==
    /\ CanCall
    /\ \/ device.mountHandler /\ Settle("mount", sync, TRUE)
       \/ /\ ~device.mountHandler /\ device.volumeHandler
          /\ Settle("mount", sync, FALSE) \/ Request("mount", sync)
       \/ /\ ~device.mountHandler /\ ~device.volumeHandler
          /\ calls' = Append(calls, Call("mount", sync, IF sync THEN "answered" ELSE "dropped",
                                         FALSE))
          /\ UNCHANGED <<loops, requests>>
    /\ UNCHANGED <<device, gioVars, monitorVars, faithful, history>>

(* unmount(), unmountAsync(): without a mount there is nothing to do         *)
Unmount(sync) ==
    /\ CanCall
    /\ IF device.mountHandler THEN Request("unmount", sync)
                              ELSE Settle("unmount", sync, TRUE)
    /\ UNCHANGED <<device, gioVars, monitorVars, faithful, history>>

(* GIO carries the request out: the lists change and their signal comes      *)
(* before the callback does                                                 *)
CarryOut(c) ==
    /\ c \in requests /\ calls[c].phase = "waiting"
    /\ calls' = [calls EXCEPT ![c].phase = "done", ![c].result = TRUE]
    /\ IF calls[c].op = "mount" THEN AddMount(Root) ELSE RemoveMount(Root)
    /\ UNCHANGED <<events, handlers, connections, starts, loops, requests, undefined>>

(* mountWithCallback(), unmountWithCallback(): the latter drops the mount    *)
(* handler whatever came out                                                 *)
AsyncCallback(c) ==
    /\ c \in requests /\ ~calls[c].sync
    /\ requests' = requests \ {c}
    /\ calls' = [calls EXCEPT ![c].phase = "answered"]
    /\ IF calls[c].op = "unmount"
       THEN /\ device' = [device EXCEPT !.mountHandler = FALSE]
            /\ lost' = (lost \/ Root \in mounts)
       ELSE UNCHANGED <<device, lost>>
    /\ UNCHANGED <<loops, gioVars, monitorVars, faithful, undefined>>

LoopOf(c) == {i \in DOMAIN loops : loops[i].call = c}

(* mountWithBlocker(), unmountWithBlocker(): the loop is told to exit, and   *)
(* what it is told last counts; once its call has returned it has been       *)
(* freed: nothing is said of what follows                                    *)
BlockerCallback(c) ==
    /\ c \in requests /\ calls[c].sync
    /\ requests' = requests \ {c}
    /\ IF LoopOf(c) # {}
       THEN /\ loops' = [i \in DOMAIN loops |->
                            IF i \in LoopOf(c) THEN [loops[i] EXCEPT !.exit = "answer"] ELSE loops[i]]
            /\ UNCHANGED undefined
       ELSE undefined' = TRUE /\ UNCHANGED loops
    /\ UNCHANGED <<device, calls, gioVars, monitorVars, faithful, lost>>

Timeout(i) ==
    /\ loops[i].timer
    /\ loops' = [loops EXCEPT ![i].timer = FALSE, ![i].exit = "timeout"]
    /\ UNCHANGED <<device, calls, requests, gioVars, monitorVars, faithful, history>>

\* Mutants: the loop waits for the answer after a timeout, too; the first loop
\* to be told ends first.
LoopReturnsFirst ==
    \E i \in DOMAIN loops :
        /\ loops[i].exit # "running"
        /\ calls' = [calls EXCEPT ![Head(loops).call].phase = "answered"]
        /\ loops' = RemoveAt(loops, i)
        /\ UNCHANGED <<device, requests, gioVars, monitorVars, faithful, history>>

LoopReturnsAnswered ==
    /\ loops # <<>> /\ Head(loops).exit = "answer"
    /\ loops' = Tail(loops)
    /\ calls' = [calls EXCEPT ![Head(loops).call].phase = "answered"]
    /\ UNCHANGED <<device, requests, gioVars, monitorVars, faithful, history>>

(* The innermost loop ends and its call returns what the loop was told last: *)
(* a timeout is an error and cancels the request, whose callback is still to *)
(* come unless it has been                                                   *)
LoopReturns ==
    /\ loops # <<>> /\ Head(loops).exit # "running"
    /\ LET c == Head(loops).call
       IN calls' = [calls EXCEPT ![c].phase = "answered",
                       ![c].result = @ /\ Head(loops).exit = "answer"]
    /\ loops' = Tail(loops)
    /\ UNCHANGED <<device, requests, gioVars, monitorVars, faithful, history>>

-----------------------------------------------------------------------------
Init ==
    /\ volumes \in SUBSET Phones /\ mounts \in SUBSET (volumes \cup Shares)
    /\ events = 0 /\ requests = {}
    /\ cachedDevices = DevicesThereAre
    /\ handlers = 0 /\ connections = FALSE /\ starts = 0
    /\ device = NoDevice /\ calls = <<>> /\ loops = <<>>
    /\ faithful = TRUE /\ lost = FALSE /\ undefined = FALSE

Device ==
    \/ CreateDevice
    \/ \E sync \in BOOLEAN : Mount(sync) \/ Unmount(sync)
    \/ \E c \in requests : CarryOut(c) \/ AsyncCallback(c) \/ BlockerCallback(c)
    \/ \E i \in DOMAIN loops : Timeout(i)
    \/ LoopReturns

Next == ~undefined /\ (GioEvent \/ StartMonitor \/ StopMonitor \/ Device)

(* Asynchronous requests are answered by GIO - by an error at the latest -   *)
(* and timers fire.                                                          *)
Fairness == /\ WF_vars(~undefined /\ \E c \in requests : AsyncCallback(c) \/ BlockerCallback(c))
            /\ WF_vars(~undefined /\ \E i \in DOMAIN loops : Timeout(i))
            /\ WF_vars(~undefined /\ LoopReturns)

Spec == Init /\ [][Next]_vars /\ Fairness

-----------------------------------------------------------------------------
(* Properties                                                              *)

(* Every variable has its type; the loops on the stack are those of         *)
(* blocking calls that have not returned, each once.                        *)
TypeOK ==
    /\ volumes \subseteq Phones /\ mounts \subseteq Roots /\ cachedDevices \subseteq Roots
    /\ events \in 0..MaxEvents /\ handlers \in 0..MaxStarts /\ starts \in 0..MaxStarts
    /\ {connections, faithful, lost, undefined} \subseteq BOOLEAN
    /\ device \in [exists : BOOLEAN, mountHandler : BOOLEAN, volumeHandler : BOOLEAN]
    /\ requests \subseteq DOMAIN calls
    /\ \A c \in DOMAIN calls :
          /\ calls[c] \in [op : {"mount", "unmount"}, sync : BOOLEAN, result : BOOLEAN,
                           phase : {"waiting", "done", "answered", "dropped"}]
          /\ calls[c].sync => (calls[c].phase = "answered" <=> LoopOf(c) = {})
    /\ IsInjective([i \in DOMAIN loops |-> loops[i].call])

(* A monitor that has heard every change lists the devices there are: the   *)
(* volumes and the visible shares, however plug, mount and unmount of phone *)
(* and share are ordered.                                                   *)
CacheIsDevices == faithful => cachedDevices = DevicesThereAre

(* The device knows whether it is mounted, as long as the monitor hears     *)
(* every change, unless the callback of an asynchronous unmount dropped a   *)
(* mount: it failed, or came after the next mount.                          *)
HandlerFollows == (faithful /\ device.exists /\ ~lost)
                      => (device.mountHandler <=> Root \in mounts)

(* Monitor and device keep up with GIO, whatever comes and goes, on its own *)
(* or by calls on the device, and in whatever order (dprotocolmonitor.cpp,  *)
(* lines 210-309).                                                          *)
ViewsFollow == CacheIsDevices /\ HandlerFollows

(* Every call on the device is answered: a blocking call returns, at last   *)
(* by its timer and after the calls made inside of it, and an asynchronous  *)
(* one calls back, unless it was dropped for want of a volume or a callback *)
(* found its blocker freed.                                                 *)
CallSettles ==
    \A c \in Ids : Phase(c) \in {"waiting", "done"} ~> Phase(c) = "answered" \/ undefined
=============================================================================
