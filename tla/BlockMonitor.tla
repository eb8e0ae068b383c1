----------------------------- MODULE BlockMonitor -----------------------------
(***************************************************************************)
(* DBlockMonitor of dfm-mount: it subscribes to the UDisks object manager  *)
(* (GDBus), follows restarts of the UDisks service through a               *)
(* QDBusServiceWatcher (QtDBus), keeps the index blksOfDrive and announces *)
(* devices and mounts.                                                     *)
(*                                                                         *)
(* Both D-Bus connections deliver to the main thread, each in order, but   *)
(* nothing orders one against the other: bus and ownerBus are two queues.  *)
(***************************************************************************)
EXTENDS Integers, FiniteSets, SequencesExt

CONSTANTS Drives, Blocks,
          DriveOf,       \* udisks_block_get_drive()
          MaxEvents,     \* bound: changes of hardware and mounts
          MaxRestarts,   \* bound: exits of the UDisks service
          MaxHandlers    \* bound: subscriptions that exist at once

ASSUME DriveOfAssumption == DriveOf \in [Blocks -> Drives] /\ Drives \cap Blocks = {}
ASSUME DrivesAssumption == Drives # {} /\ IsFiniteSet(Drives \cup Blocks)
ASSUME BoundsAssumption == MaxEvents \in Nat /\ MaxRestarts \in Nat /\ MaxHandlers \in Nat

VARIABLES
    \* UDisks and the two buses
    running,        \* the service is running
    plugged,        \* the drives and blocks it exports while it runs
    mounted,        \* the blocks with a mount point
    bus,            \* signals posted to the object manager client
    ownerBus,       \* serviceOwnerChanged posted to the watcher: is there a new owner?
    known,          \* the objects in the client's cache
    events, restarts,
    \* DBlockMonitor
    monitorStatus,
    handlers,       \* handlers connected to each signal of the object manager
    connections,    \* connections holds the last of them
    ownerLambdas,   \* lambdas connected to the watcher
    blksOfDrive,
    mountTimers,    \* pending single shots of 100 ms, first one first
    \* a client that starts from getDevices() and applies the signals
    view,           \* the devices it knows
    lastSaid,       \* what it was last told of a block's mount
    \* history
    missed,         \* since the monitor was started an object signal found no handler
    faithful,       \* since blksOfDrive was rebuilt no change went unheard, no restart
    inStep,         \* startMonitor() was only called when stopped
    startedDown,    \* startMonitor() was called when the watcher had heard of an exit of
                    \* UDisks, and not yet of its return
    overtaken       \* blocks removed while an announcement of their mount was pending

udisksVars == <<running, plugged, mounted, events, restarts>>
monitorVars == <<monitorStatus, handlers, connections, ownerLambdas>>
clientVars == <<view, lastSaid, missed, overtaken>>
turns == <<inStep, startedDown>>
vars == <<udisksVars, bus, ownerBus, known, monitorVars, blksOfDrive, mountTimers,
          clientVars, faithful, turns>>

Objects == Drives \cup Blocks
Exported == IF running THEN plugged ELSE {}
PendingMounts == {mountTimers[i].block : i \in DOMAIN mountTimers}
OwnerSeen == IF ownerBus = <<>> THEN running ELSE ~Head(ownerBus)   \* by the watcher
BlocksOf(d, S) == {b \in S \cap Blocks : DriveOf[b] = d}

-----------------------------------------------------------------------------
(* UDisks: a drive appears before its blocks and goes after them; after a  *)
(* start the client's cache lists the objects in any order                 *)

HardwareChange(signal) ==
    /\ events < MaxEvents /\ events' = events + 1
    /\ bus' = IF running THEN Append(bus, signal) ELSE bus
    /\ UNCHANGED <<running, restarts, ownerBus, known, monitorVars, blksOfDrive, mountTimers,
                   clientVars, faithful, turns>>

Plug(o) ==
    /\ o \notin plugged
    /\ o \in Blocks => DriveOf[o] \in plugged
    /\ plugged' = plugged \cup {o}
    /\ HardwareChange([type |-> "added", object |-> o])
    /\ UNCHANGED mounted

Unplug(o) ==
    /\ o \in plugged
    /\ o \in Drives => BlocksOf(o, plugged) = {}
    /\ plugged' = plugged \ {o} /\ mounted' = mounted \ {o}
    /\ HardwareChange([type |-> "removed", object |-> o])

Mount(b) ==
    /\ b \in plugged \ mounted
    /\ mounted' = mounted \cup {b}
    /\ HardwareChange([type |-> "mounted", object |-> b])
    /\ UNCHANGED plugged

Unmount(b) ==
    /\ b \in mounted
    /\ mounted' = mounted \ {b}
    /\ HardwareChange([type |-> "unmounted", object |-> b])
    /\ UNCHANGED plugged

ServiceExits ==
    /\ running /\ restarts < MaxRestarts
    /\ running' = FALSE /\ restarts' = restarts + 1
    /\ bus' = Append(bus, [type |-> "lost", object |-> CHOOSE o \in Objects : TRUE])
    /\ ownerBus' = Append(ownerBus, FALSE)
    /\ UNCHANGED <<plugged, mounted, events, known, monitorVars, blksOfDrive, mountTimers,
                   clientVars, faithful, turns>>

ServiceStarts ==
    /\ ~running
    /\ running' = TRUE
    /\ \E order \in SetToSeqs(plugged) :
         bus' = bus \o [i \in DOMAIN order |-> [type |-> "listed", object |-> order[i]]]
    /\ ownerBus' = Append(ownerBus, TRUE)
    /\ UNCHANGED <<plugged, mounted, events, restarts, known, monitorVars, blksOfDrive,
                   mountTimers, clientVars, faithful, turns>>

-----------------------------------------------------------------------------
(* The client's calls *)

\* initDevices(): the blocks the service lists and the client's cache knows.
InitDevices == [d \in Drives |-> BlocksOf(d, Exported \cap known)]

Init ==
    /\ running = TRUE
    /\ plugged \in {{}, Objects} /\ mounted = {}
    /\ bus = <<>> /\ ownerBus = <<>> /\ known = plugged
    /\ events = 0 /\ restarts = 0
    /\ monitorStatus = "idle" /\ handlers = 0 /\ connections = FALSE /\ ownerLambdas = 0
    /\ blksOfDrive = InitDevices
    /\ mountTimers = <<>>
    /\ view = {} /\ lastSaid = [b \in Blocks |-> "nothing"]
    /\ missed = FALSE /\ faithful = TRUE /\ inStep = TRUE /\ startedDown = FALSE /\ overtaken = {}

\* startDeviceMonitor(): the new handlers replace the old ones in connections
\* only, and stopDeviceMonitor() disconnects the handlers that connections holds.
StartDeviceMonitor == handlers' = handlers + 1 /\ connections' = TRUE

StopDeviceMonitor == /\ handlers' = IF connections THEN handlers - 1 ELSE handlers
                     /\ connections' = FALSE

\* The client then asks for the devices there are.
StartMonitor ==
    /\ handlers < MaxHandlers /\ ownerLambdas < MaxHandlers
    /\ inStep' = (inStep /\ monitorStatus = "idle")
    /\ startedDown' = (startedDown \/ ~OwnerSeen)
    /\ monitorStatus' = "monitoring"
    /\ StartDeviceMonitor
    /\ ownerLambdas' = ownerLambdas + 1
    /\ view' = Exported \cap Blocks
    /\ lastSaid' = [b \in Blocks |-> "nothing"]
    /\ missed' = FALSE /\ overtaken' = PendingMounts
    /\ UNCHANGED <<udisksVars, bus, ownerBus, known, blksOfDrive, mountTimers, faithful>>

\* Mutant: the watcher stays connected.
StopMonitorWatching ==
    /\ monitorStatus' = "idle"
    /\ StopDeviceMonitor
    /\ UNCHANGED <<udisksVars, bus, ownerBus, known, ownerLambdas, blksOfDrive, mountTimers,
                   clientVars, faithful, turns>>

StopMonitor ==
    /\ monitorStatus' = "idle"
    /\ ownerLambdas' = 0
    /\ StopDeviceMonitor
    /\ UNCHANGED <<udisksVars, bus, ownerBus, known, blksOfDrive, mountTimers, clientVars,
                   faithful, turns>>

\* resolveDeviceFromDrive() rebuilds the index unless the monitor is on.
ResolveDeviceOfDrive ==
    /\ monitorStatus # "monitoring"
    /\ blksOfDrive' = InitDevices
    /\ faithful' = (running /\ \A i \in DOMAIN bus : bus[i].type \notin {"lost", "listed"})
    /\ UNCHANGED <<udisksVars, bus, ownerBus, known, monitorVars, mountTimers, clientVars, turns>>

-----------------------------------------------------------------------------
(* Delivery, on the main thread *)

Receive(type) == bus # <<>> /\ Head(bus).type = type /\ bus' = Tail(bus)

Delivered == UNCHANGED <<udisksVars, ownerBus, monitorVars, turns>>

\* An object signal that no handler sees.
Unheard ==
    /\ handlers = 0
    /\ missed' = TRUE /\ faithful' = FALSE
    /\ UNCHANGED <<blksOfDrive, mountTimers, view, lastSaid, overtaken>>

AddedToIndex(o) ==
    IF o \in Drives THEN [blksOfDrive EXCEPT ![o] = {}]
    ELSE [blksOfDrive EXCEPT ![DriveOf[o]] = @ \cup {o}]

\* Mutant: a block's removal leaves the index alone.
RemovedDriveFromIndex(S) ==
    [d \in Drives |-> IF d \in S THEN {} ELSE blksOfDrive[d]]

RemovedFromIndex(S) ==
    [d \in Drives |-> IF d \in S THEN {} ELSE blksOfDrive[d] \ S]

OnObjectAdded(type) ==
    /\ Receive(type)
    /\ LET o == Head(bus).object IN
       /\ known' = known \cup {o}
       /\ \/ Unheard
          \/ /\ handlers > 0
             /\ blksOfDrive' = AddedToIndex(o)
             /\ view' = view \cup ({o} \cap Blocks)
             /\ UNCHANGED <<mountTimers, lastSaid, missed, faithful, overtaken>>
    /\ Delivered

\* object-removed of every object in S, in any order.
OnObjectsRemoved(S) ==
    /\ known' = known \ S
    /\ \/ Unheard
       \/ /\ handlers > 0
          /\ blksOfDrive' = RemovedFromIndex(S)
          /\ view' = view \ S
          /\ lastSaid' = [b \in Blocks |-> IF b \in S THEN "nothing" ELSE lastSaid[b]]
          /\ overtaken' = overtaken \cup (S \cap PendingMounts)
          /\ UNCHANGED <<mountTimers, missed>>
    /\ Delivered

OnObjectRemoved ==
    /\ Receive("removed")
    /\ OnObjectsRemoved({Head(bus).object})
    /\ handlers > 0 => UNCHANGED faithful

\* The object manager client drops its cache when the service has no owner.
OnServiceLost ==
    /\ Receive("lost")
    /\ OnObjectsRemoved(known)
    /\ faithful' = FALSE

\* Mutant: the announcement overtakes those that wait.
MountTimersPushed(change) == <<change>> \o mountTimers

\* One single shot per handler.
MountTimersWith(change) == mountTimers \o [i \in 1..handlers |-> change]

\* onPropertyChanged of MountPoints, as far as mounts are concerned.
OnMountPointsChanged(type) ==
    /\ Receive(type)
    /\ mountTimers' = MountTimersWith([block |-> Head(bus).object, said |-> type])
    /\ missed' = (missed \/ handlers = 0)
    /\ UNCHANGED <<known, blksOfDrive, view, lastSaid, overtaken, faithful>>
    /\ Delivered

\* mountAdded or mountRemoved, 100 ms later.
MountTimeout ==
    /\ mountTimers # <<>>
    /\ lastSaid' = [lastSaid EXCEPT ![Head(mountTimers).block] = Head(mountTimers).said]
    /\ mountTimers' = Tail(mountTimers)
    /\ UNCHANGED <<udisksVars, bus, ownerBus, known, monitorVars, blksOfDrive, view, missed,
                   overtaken, faithful, turns>>

\* Mutant: the monitor stops with the service and does not start again.
OnServiceOwnerChangedStops ==
    /\ ownerBus # <<>>
    /\ ownerBus' = Tail(ownerBus)
    /\ IF ownerLambdas = 0 \/ Head(ownerBus) THEN UNCHANGED <<handlers, connections>>
       ELSE StopDeviceMonitor
    /\ UNCHANGED <<udisksVars, bus, known, monitorStatus, ownerLambdas, blksOfDrive, mountTimers,
                   clientVars, faithful, turns>>

\* serviceOwnerChanged runs every lambda: with no owner the first one stops,
\* with an owner each of them starts.
OnServiceOwnerChanged ==
    /\ ownerBus # <<>>
    /\ ownerBus' = Tail(ownerBus)
    /\ IF ownerLambdas = 0 THEN UNCHANGED <<handlers, connections>>
       ELSE IF Head(ownerBus)
       THEN handlers' = handlers + ownerLambdas /\ connections' = TRUE
       ELSE StopDeviceMonitor
    /\ handlers' <= MaxHandlers
    /\ UNCHANGED <<udisksVars, bus, known, monitorStatus, ownerLambdas, blksOfDrive, mountTimers,
                   clientVars, faithful, turns>>

-----------------------------------------------------------------------------
UDisks == \/ \E o \in Objects : Plug(o) \/ Unplug(o)
          \/ \E b \in Blocks : Mount(b) \/ Unmount(b)
          \/ ServiceExits \/ ServiceStarts
Client == StartMonitor \/ StopMonitor \/ ResolveDeviceOfDrive
Deliver == \/ \E type \in {"added", "listed"} : OnObjectAdded(type)
           \/ OnObjectRemoved \/ OnServiceLost
           \/ \E type \in {"mounted", "unmounted"} : OnMountPointsChanged(type)

Next == UDisks \/ Client \/ Deliver \/ MountTimeout \/ OnServiceOwnerChanged

\* The main thread's event loop runs.
Fairness == WF_vars(Deliver) /\ WF_vars(MountTimeout) /\ WF_vars(OnServiceOwnerChanged)

Spec == Init /\ [][Next]_vars /\ Fairness

-----------------------------------------------------------------------------
(* Properties *)

Drained == running /\ bus = <<>> /\ ownerBus = <<>> /\ mountTimers = <<>>

\* Every variable stays in its domain.
TypeOK ==
    /\ running \in BOOLEAN /\ plugged \subseteq Objects /\ mounted \subseteq Blocks
    /\ bus \in Seq([type : {"added", "listed", "removed", "mounted", "unmounted", "lost"},
                    object : Objects])
    /\ ownerBus \in Seq(BOOLEAN) /\ known \subseteq Objects
    /\ events \in 0..MaxEvents /\ restarts \in 0..MaxRestarts
    /\ monitorStatus \in {"idle", "monitoring"}
    /\ handlers \in 0..MaxHandlers /\ ownerLambdas \in 0..MaxHandlers
    /\ connections \in BOOLEAN
    /\ blksOfDrive \in [Drives -> SUBSET Blocks]
    /\ mountTimers \in Seq([block : Blocks, said : {"mounted", "unmounted"}])
    /\ view \subseteq Blocks /\ lastSaid \in [Blocks -> {"nothing", "mounted", "unmounted"}]
    /\ overtaken \subseteq Blocks
    /\ missed \in BOOLEAN /\ faithful \in BOOLEAN /\ inStep \in BOOLEAN /\ startedDown \in BOOLEAN

\* The index that resolveDeviceFromDrive() answers from holds exactly the blocks
\* of each drive once the signals are delivered, however calls, rebuilds and
\* signals were interleaved, as long as no signal went unheard and the service
\* was not restarted.
IndexMatches ==
    faithful /\ Drained => \A d \in Drives : blksOfDrive[d] = BlocksOf(d, plugged)

\* A client that calls start and stop in turn has at most one subscription while
\* the monitor is on and none when it is off, through restarts of the service
\* (startMonitor, stopMonitor, serviceOwnerChanged).  That is so unless it ever
\* started between an exit of UDisks and its return, as the watcher heard of
\* them: the return then subscribes once more, and what was subscribed first
\* stays.  One subscription at most is left behind for each restart.
SubscribedOnce ==
    inStep => /\ monitorStatus = "idle" => ownerLambdas = 0
              /\ handlers <= (IF monitorStatus = "monitoring" THEN 1 ELSE 0)
                              + (IF startedDown THEN restarts ELSE 0)

\* A client that starts from getDevices() and applies deviceAdded and
\* deviceRemoved has the devices there are once the signals are delivered, also
\* after a restart of the service, unless a signal went unheard.
DevicesAgree == view = plugged \cap Blocks

\* What the delayed signals last said of a block's mount is true, unless the
\* block was removed while one was pending.
MountsAgree ==
    \A b \in (plugged \cap Blocks) \ overtaken :
        lastSaid[b] # "nothing" => (lastSaid[b] = "mounted") = (b \in mounted)

\* Once all signals are delivered the client's picture of the devices and of
\* their mounts is true (lines 233-385).
ViewConverges ==
    monitorStatus = "monitoring" /\ ~missed /\ Drained => DevicesAgree /\ MountsAgree

\* While the service runs a monitor that is on comes to be subscribed.
Resubscribes ==
    running /\ monitorStatus = "monitoring" ~>
        handlers > 0 \/ ~running \/ monitorStatus = "idle"
=============================================================================
