-------------------------- MODULE BlockMonitorProofs --------------------------
(***************************************************************************)
(* Proofs about BlockMonitor, for every set of drives and blocks, every    *)
(* number of changes and of restarts of the UDisks service.                *)
(***************************************************************************)
EXTENDS BlockMonitor, FiniteSetTheorems, SequenceTheorems, TLAPS

Signal == [type : {"added", "listed", "removed", "mounted", "unmounted", "lost"}, object : Objects]
Timer == [block : Blocks, said : {"mounted", "unmounted"}]

-----------------------------------------------------------------------------
(* The types                                                               *)

UDisksTypes ==
    /\ running \in BOOLEAN /\ plugged \subseteq Objects /\ mounted \subseteq Blocks
    /\ bus \in Seq(Signal) /\ ownerBus \in Seq(BOOLEAN) /\ known \subseteq Objects
    /\ events \in 0..MaxEvents /\ restarts \in 0..MaxRestarts

MonitorTypes ==
    /\ monitorStatus \in {"idle", "monitoring"}
    /\ handlers \in 0..MaxHandlers /\ ownerLambdas \in 0..MaxHandlers
    /\ connections \in BOOLEAN

IndexTypes ==
    /\ blksOfDrive \in [Drives -> SUBSET Blocks] /\ mountTimers \in Seq(Timer)

ClientTypes ==
    /\ view \subseteq Blocks /\ lastSaid \in [Blocks -> {"nothing", "mounted", "unmounted"}]
    /\ overtaken \subseteq Blocks
    /\ missed \in BOOLEAN /\ faithful \in BOOLEAN
    /\ inStep \in BOOLEAN /\ startedDown \in BOOLEAN

Types == UDisksTypes /\ MonitorTypes /\ IndexTypes /\ ClientTypes

(* Signals about mounts are about blocks                                    *)
MountSignals ==
    \A i \in DOMAIN bus : bus[i].type \in {"mounted", "unmounted"} => bus[i].object \in Blocks

(* connections holds a handler                                              *)
HeldHandler == connections => handlers > 0

TInv == Types /\ MountSignals /\ HeldHandler

LEMMA TypesAreTypeOK == Types => TypeOK
BY DEF Types, UDisksTypes, MonitorTypes, IndexTypes, ClientTypes, turns, TypeOK, Signal, Timer

-----------------------------------------------------------------------------
(* The bus                                                                 *)

LEMMA ObjectsAre == /\ Drives \subseteq Objects /\ Blocks \subseteq Objects /\ IsFiniteSet(Objects)
                    /\ (CHOOSE o \in Objects : TRUE) \in Objects
                    /\ \A o \in Objects : o \notin Drives => o \in Blocks
                    /\ \A b \in Blocks : DriveOf[b] \in Drives
BY DriveOfAssumption, DrivesAssumption DEF Objects

LEMMA Posted ==
    ASSUME bus \in Seq(Signal), MountSignals, NEW s \in Signal,
           s.type \in {"mounted", "unmounted"} => s.object \in Blocks,
           bus' = Append(bus, s)
    PROVE  bus' \in Seq(Signal) /\ MountSignals'
<1>1. bus' \in Seq(Signal) /\ Len(bus') = Len(bus) + 1
  OBVIOUS
<1>2. \A i \in DOMAIN bus' : bus'[i] = IF i = Len(bus) + 1 THEN s ELSE bus[i]
  OBVIOUS
<1>3. \A i \in DOMAIN bus' : i # Len(bus) + 1 => i \in DOMAIN bus
  BY <1>1
<1> QED BY <1>1, <1>2, <1>3 DEF MountSignals

LEMMA Taken ==
    ASSUME bus \in Seq(Signal), MountSignals, bus # <<>>, bus' = Tail(bus)
    PROVE  /\ bus' \in Seq(Signal) /\ MountSignals'
           /\ Head(bus) \in Signal /\ Head(bus).object \in Objects
           /\ Head(bus).type \in {"mounted", "unmounted"} => Head(bus).object \in Blocks
<1>1. bus' \in Seq(Signal) /\ Head(bus) = bus[1] /\ 1 \in DOMAIN bus /\ Head(bus) \in Signal
  OBVIOUS
<1>2. \A i \in DOMAIN bus' : bus'[i] = bus[i + 1] /\ i + 1 \in DOMAIN bus
  OBVIOUS
<1> QED BY <1>1, <1>2 DEF MountSignals, Signal

(* The service lists what is plugged, in any order                          *)
LEMMA Listed ==
    ASSUME bus \in Seq(Signal), MountSignals, plugged \subseteq Objects,
           NEW order \in SetToSeqs(plugged),
           bus' = bus \o [i \in DOMAIN order |-> [type |-> "listed", object |-> order[i]]]
    PROVE  bus' \in Seq(Signal) /\ MountSignals'
<1> DEFINE n == Cardinality(plugged)
           list == [i \in DOMAIN order |-> [type |-> "listed", object |-> order[i]]]
<1>1. n \in Nat
  BY ObjectsAre, FS_Subset, FS_CardinalityType
<1>2. order \in [1..n -> plugged]
  BY DEF SetToSeqs
<1> HIDE DEF n
<1>3. DOMAIN order = 1..n /\ \A i \in 1..n : order[i] \in Objects
  BY <1>2
<1>4. \A i \in 1..n : [type |-> "listed", object |-> order[i]] \in Signal
  BY <1>3 DEF Signal
<1>5. list \in [1..n -> Signal]
  BY <1>3, <1>4
<1>6. list \in Seq(Signal) /\ Len(list) = n /\ \A i \in 1..n : list[i].type = "listed"
  BY <1>1, <1>3, <1>5
<1> HIDE DEF list
<1>7. bus' = bus \o list
  BY DEF list
<1>8. bus' \in Seq(Signal) /\ Len(bus') = Len(bus) + n
  BY <1>6, <1>7, ConcatProperties
<1>9. \A i \in DOMAIN bus' : bus'[i] = IF i <= Len(bus) THEN bus[i] ELSE list[i - Len(bus)]
  <2>1. \A i \in 1..(Len(bus) + Len(list)) :
           (bus \o list)[i] = IF i <= Len(bus) THEN bus[i] ELSE list[i - Len(bus)]
    BY <1>6, ConcatProperties, Zenon
  <2>2. DOMAIN bus' = 1..(Len(bus) + Len(list))
    BY <1>6, <1>8
  <2> QED BY <2>1, <2>2, <1>7, Zenon
<1>10. ASSUME NEW i \in DOMAIN bus', bus'[i].type \in {"mounted", "unmounted"}
       PROVE  bus'[i].object \in Blocks
  <2>1. CASE i <= Len(bus)
    BY <2>1, <1>8, <1>9, <1>10 DEF MountSignals
  <2>2. CASE i > Len(bus)
    BY <2>2, <1>1, <1>6, <1>8, <1>9, <1>10
  <2> QED BY <2>1, <2>2, <1>8
<1> QED BY <1>8, <1>10 DEF MountSignals

(* A change of a mount starts one timer per handler                         *)
LEMMA TimersStarted ==
    ASSUME mountTimers \in Seq(Timer), handlers \in Nat, NEW change \in Timer
    PROVE  MountTimersWith(change) \in Seq(Timer)
<1> DEFINE new == [i \in 1..handlers |-> change]
<1>1. new \in Seq(Timer)
  OBVIOUS
<1> HIDE DEF new
<1>2. mountTimers \o new \in Seq(Timer)
  BY <1>1, ConcatProperties
<1> QED BY <1>2 DEF MountTimersWith, new

-----------------------------------------------------------------------------
(* Every step keeps the types                                              *)

LEMMA InitTypes == Init => TInv
<1> SUFFICES ASSUME Init PROVE TInv
  OBVIOUS
<1>1. plugged \subseteq Objects
  BY DEF Init
<1>2. UDisksTypes
  BY <1>1, BoundsAssumption DEF Init, UDisksTypes
<1>3. MonitorTypes
  <2>1. handlers = 0 /\ ownerLambdas = 0 /\ connections \in BOOLEAN /\ monitorStatus = "idle"
    BY DEF Init
  <2> QED BY <2>1, BoundsAssumption DEF MonitorTypes
<1>4. IndexTypes
  BY DEF Init, IndexTypes, InitDevices, BlocksOf
<1>5. ClientTypes
  BY DEF Init, ClientTypes, turns
<1> QED BY <1>2, <1>3, <1>4, <1>5 DEF Init, TInv, Types, MountSignals, HeldHandler

LEMMA HardwareTypes ==
    ASSUME TInv, NEW signal \in Signal, HardwareChange(signal),
           signal.type \in {"mounted", "unmounted"} => signal.object \in Blocks,
           plugged' \subseteq Objects, mounted' \subseteq Blocks
    PROVE  TInv'
<1>1. events' \in 0..MaxEvents
  BY BoundsAssumption DEF TInv, Types, UDisksTypes, HardwareChange
<1>2. bus' \in Seq(Signal) /\ MountSignals'
  <2>1. CASE running
    <3>1. bus' = Append(bus, signal)
      BY <2>1 DEF HardwareChange
    <3> QED BY <3>1, Posted DEF TInv, Types, UDisksTypes
  <2>2. CASE ~running
    BY <2>2 DEF HardwareChange, TInv, Types, UDisksTypes, MountSignals
  <2> QED BY <2>1, <2>2
<1>3. UDisksTypes'
  BY <1>1, <1>2 DEF HardwareChange, TInv, Types, UDisksTypes
<1>4. MonitorTypes' /\ IndexTypes' /\ ClientTypes' /\ HeldHandler'
  BY DEF HardwareChange, TInv, Types, MonitorTypes, IndexTypes, ClientTypes, turns, HeldHandler,
         monitorVars, clientVars
<1> QED BY <1>2, <1>3, <1>4 DEF TInv, Types

LEMMA UDisksKeepsTypes == TInv /\ UDisks => TInv'
<1> SUFFICES ASSUME TInv, UDisks PROVE TInv'
  OBVIOUS
<1> USE ObjectsAre
<1>1. ASSUME NEW o \in Objects, Plug(o) PROVE TInv'
  <2>1. [type |-> "added", object |-> o] \in Signal
    BY DEF Signal
  <2> QED BY <1>1, <2>1, HardwareTypes DEF Plug, TInv, Types, UDisksTypes
<1>2. ASSUME NEW o \in Objects, Unplug(o) PROVE TInv'
  <2>1. [type |-> "removed", object |-> o] \in Signal
    BY DEF Signal
  <2> QED BY <1>2, <2>1, HardwareTypes DEF Unplug, TInv, Types, UDisksTypes
<1>3. ASSUME NEW b \in Blocks, Mount(b) PROVE TInv'
  <2>1. [type |-> "mounted", object |-> b] \in Signal
    BY DEF Signal
  <2> QED BY <1>3, <2>1, HardwareTypes DEF Mount, TInv, Types, UDisksTypes
<1>4. ASSUME NEW b \in Blocks, Unmount(b) PROVE TInv'
  <2>1. [type |-> "unmounted", object |-> b] \in Signal
    BY DEF Signal
  <2> QED BY <1>4, <2>1, HardwareTypes DEF Unmount, TInv, Types, UDisksTypes
<1>5. CASE ServiceExits
  <2> DEFINE lost == [type |-> "lost", object |-> CHOOSE o \in Objects : TRUE]
  <2>1. lost \in Signal /\ lost.type = "lost"
    BY DEF Signal
  <2> HIDE DEF lost
  <2>2. bus' = Append(bus, lost)
    BY <1>5 DEF ServiceExits, lost
  <2>3. bus' \in Seq(Signal) /\ MountSignals'
    BY <2>1, <2>2, Posted DEF TInv, Types, UDisksTypes
  <2>4. restarts' \in 0..MaxRestarts /\ ownerBus' \in Seq(BOOLEAN)
    BY <1>5, BoundsAssumption DEF ServiceExits, TInv, Types, UDisksTypes
  <2>5. UDisksTypes'
    BY <1>5, <2>3, <2>4 DEF ServiceExits, TInv, Types, UDisksTypes
  <2>6. MonitorTypes' /\ IndexTypes' /\ ClientTypes' /\ HeldHandler'
    BY <1>5 DEF ServiceExits, TInv, Types, MonitorTypes, IndexTypes, ClientTypes, turns, HeldHandler,
                monitorVars, clientVars
  <2> QED BY <2>3, <2>5, <2>6 DEF TInv, Types
<1>6. CASE ServiceStarts
  <2>1. PICK order \in SetToSeqs(plugged) :
           bus' = bus \o [i \in DOMAIN order |-> [type |-> "listed", object |-> order[i]]]
    BY <1>6 DEF ServiceStarts
  <2>2. bus' \in Seq(Signal) /\ MountSignals'
    BY <2>1, Listed DEF TInv, Types, UDisksTypes
  <2>3. UDisksTypes'
    BY <1>6, <2>2 DEF ServiceStarts, TInv, Types, UDisksTypes
  <2>4. MonitorTypes' /\ IndexTypes' /\ ClientTypes' /\ HeldHandler'
    BY <1>6 DEF ServiceStarts, TInv, Types, MonitorTypes, IndexTypes, ClientTypes, turns, HeldHandler,
                monitorVars, clientVars
  <2> QED BY <2>2, <2>3, <2>4 DEF TInv, Types
<1> QED BY <1>1, <1>2, <1>3, <1>4, <1>5, <1>6 DEF UDisks

(* What is disconnected was connected                                       *)
LEMMA StopTypes ==
    ASSUME TInv, StopDeviceMonitor
    PROVE  handlers' \in 0..MaxHandlers /\ connections' \in BOOLEAN /\ HeldHandler'
<1>1. handlers \in 0..MaxHandlers /\ connections' \in BOOLEAN /\ HeldHandler'
  BY DEF TInv, Types, MonitorTypes, StopDeviceMonitor, HeldHandler
<1>2. CASE connections
  <2>1. handlers > 0 /\ handlers' = handlers - 1
    BY <1>2 DEF TInv, StopDeviceMonitor, HeldHandler
  <2> QED BY <1>1, <2>1, BoundsAssumption
<1>3. CASE ~connections
  BY <1>1, <1>3 DEF StopDeviceMonitor
<1> QED BY <1>1, <1>2, <1>3

LEMMA ClientKeepsTypes == TInv /\ Client => TInv'
<1> SUFFICES ASSUME TInv, Client PROVE TInv'
  OBVIOUS
<1>1. CASE StartMonitor
  <2>1. UDisksTypes' /\ MountSignals' /\ IndexTypes'
    BY <1>1 DEF StartMonitor, TInv, Types, UDisksTypes, IndexTypes, MountSignals, udisksVars
  <2>2. MonitorTypes' /\ HeldHandler'
    BY <1>1, BoundsAssumption
       DEF StartMonitor, StartDeviceMonitor, TInv, Types, MonitorTypes, HeldHandler
  <2>3. PendingMounts \subseteq Blocks
    <3>1. mountTimers \in Seq(Timer)
      BY DEF TInv, Types, IndexTypes
    <3>2. \A i \in DOMAIN mountTimers : mountTimers[i] \in Timer
      BY <3>1
    <3> QED BY <3>2 DEF PendingMounts, Timer
  <2>4. /\ inStep' \in BOOLEAN /\ startedDown' \in BOOLEAN
        /\ missed' \in BOOLEAN /\ faithful' \in BOOLEAN
    BY <1>1 DEF StartMonitor, TInv, Types, ClientTypes, turns
  <2>5. ClientTypes'
    BY <1>1, <2>3, <2>4 DEF StartMonitor, ClientTypes, turns
  <2> QED BY <2>1, <2>2, <2>5 DEF TInv, Types
<1>2. CASE StopMonitor
  <2>1. UDisksTypes' /\ MountSignals' /\ IndexTypes' /\ ClientTypes'
    BY <1>2 DEF StopMonitor, TInv, Types, UDisksTypes, IndexTypes, ClientTypes, turns, MountSignals,
                udisksVars, clientVars
  <2>2. MonitorTypes' /\ HeldHandler'
    BY <1>2, StopTypes, BoundsAssumption DEF StopMonitor, MonitorTypes
  <2> QED BY <2>1, <2>2 DEF TInv, Types
<1>3. CASE ResolveDeviceOfDrive
  <2>1. UDisksTypes' /\ MountSignals' /\ MonitorTypes' /\ HeldHandler'
    BY <1>3 DEF ResolveDeviceOfDrive, TInv, Types, UDisksTypes, MonitorTypes, MountSignals,
                HeldHandler, udisksVars, monitorVars
  <2>2. IndexTypes'
    BY <1>3 DEF ResolveDeviceOfDrive, InitDevices, BlocksOf, TInv, Types, IndexTypes
  <2>3. faithful' \in BOOLEAN
    BY <1>3 DEF ResolveDeviceOfDrive
  <2>4. ClientTypes'
    BY <1>3, <2>3 DEF ResolveDeviceOfDrive, TInv, Types, ClientTypes, turns, clientVars
  <2> QED BY <2>1, <2>2, <2>4 DEF TInv, Types
<1> QED BY <1>1, <1>2, <1>3 DEF Client

LEMMA UnheardTypes ==
    ASSUME TInv, Unheard, UNCHANGED turns
    PROVE  IndexTypes' /\ ClientTypes'
BY DEF Unheard, TInv, Types, IndexTypes, ClientTypes, turns

(* The variables that a delivery leaves alone                               *)
LEMMA DeliveredTypes ==
    ASSUME TInv, NEW type, Receive(type), Delivered, known' \subseteq Objects
    PROVE  /\ UDisksTypes' /\ MountSignals' /\ MonitorTypes' /\ HeldHandler' /\ UNCHANGED turns
           /\ Head(bus) \in Signal /\ Head(bus).object \in Objects /\ Head(bus).type = type
           /\ type \in {"mounted", "unmounted"} => Head(bus).object \in Blocks
<1>1. /\ bus' \in Seq(Signal) /\ MountSignals'
      /\ Head(bus) \in Signal /\ Head(bus).object \in Objects /\ Head(bus).type = type
      /\ type \in {"mounted", "unmounted"} => Head(bus).object \in Blocks
  BY Taken DEF Receive, TInv, Types, UDisksTypes
<1>2. UDisksTypes'
  BY <1>1 DEF TInv, Types, UDisksTypes, Delivered, udisksVars
<1>3. MonitorTypes' /\ HeldHandler' /\ UNCHANGED turns
  BY DEF TInv, Types, MonitorTypes, HeldHandler, Delivered, monitorVars
<1> QED BY <1>1, <1>2, <1>3

LEMMA RemovedTypes ==
    ASSUME TInv, NEW type, Receive(type), NEW S \in SUBSET Objects, OnObjectsRemoved(S),
           faithful' \in BOOLEAN
    PROVE  TInv'
<1>1. known' \subseteq Objects /\ Delivered
  BY DEF OnObjectsRemoved, TInv, Types, UDisksTypes
<1>2. /\ UDisksTypes' /\ MountSignals' /\ MonitorTypes' /\ HeldHandler' /\ UNCHANGED turns
  BY <1>1, DeliveredTypes
<1>3. CASE Unheard
  BY <1>2, <1>3, UnheardTypes DEF TInv, Types
<1>4. CASE ~Unheard
  <2>1. blksOfDrive' = RemovedFromIndex(S) /\ UNCHANGED <<mountTimers, missed>>
    BY <1>4 DEF OnObjectsRemoved
  <2>2. IndexTypes'
    BY <2>1 DEF RemovedFromIndex, TInv, Types, IndexTypes
  <2>3. PendingMounts \subseteq Blocks
    <3>1. mountTimers \in Seq(Timer)
      BY DEF TInv, Types, IndexTypes
    <3>2. \A i \in DOMAIN mountTimers : mountTimers[i] \in Timer
      BY <3>1
    <3> QED BY <3>2 DEF PendingMounts, Timer
  <2>4. /\ view' = view \ S /\ overtaken' = overtaken \cup (S \cap PendingMounts)
        /\ lastSaid' = [b \in Blocks |-> IF b \in S THEN "nothing" ELSE lastSaid[b]]
    BY <1>4 DEF OnObjectsRemoved
  <2>5. view' \subseteq Blocks /\ overtaken' \subseteq Blocks
    BY <2>3, <2>4 DEF TInv, Types, ClientTypes, turns
  <2>6. lastSaid' \in [Blocks -> {"nothing", "mounted", "unmounted"}]
    BY <2>4 DEF TInv, Types, ClientTypes, turns
  <2>7. missed' \in BOOLEAN /\ inStep' \in BOOLEAN /\ startedDown' \in BOOLEAN
    BY <1>2, <2>1 DEF TInv, Types, ClientTypes, turns
  <2>8. ClientTypes'
    BY <2>5, <2>6, <2>7 DEF ClientTypes, turns
  <2> QED BY <1>2, <2>2, <2>8 DEF TInv, Types
<1> QED BY <1>3, <1>4

LEMMA DeliverKeepsTypes == TInv /\ Deliver => TInv'
<1> SUFFICES ASSUME TInv, Deliver PROVE TInv'
  OBVIOUS
<1>1. ASSUME NEW type \in {"added", "listed"}, OnObjectAdded(type) PROVE TInv'
  <2>0. Receive(type) /\ Delivered
    BY <1>1 DEF OnObjectAdded
  <2>1. Head(bus).object \in Objects
    BY <2>0, Taken DEF Receive, TInv, Types, UDisksTypes
  <2>2. known' \subseteq Objects
    BY <1>1, <2>1 DEF OnObjectAdded, TInv, Types, UDisksTypes
  <2>3. /\ UDisksTypes' /\ MountSignals' /\ MonitorTypes' /\ HeldHandler' /\ UNCHANGED turns
    BY <2>0, <2>2, DeliveredTypes
  <2>4. CASE Unheard
    BY <2>3, <2>4, UnheardTypes DEF TInv, Types
  <2>5. CASE ~Unheard
    <3> DEFINE o == Head(bus).object
    <3>1. /\ blksOfDrive' = AddedToIndex(o) /\ view' = view \cup ({o} \cap Blocks)
          /\ UNCHANGED <<mountTimers, lastSaid, missed, faithful, overtaken>>
      BY <1>1, <2>5 DEF OnObjectAdded
    <3>2. o \in Objects
      BY <2>1
    <3> HIDE DEF o
    <3>3. IndexTypes'
      BY <3>1, <3>2, ObjectsAre DEF AddedToIndex, TInv, Types, IndexTypes
    <3>4. ClientTypes'
      BY <2>3, <3>1 DEF TInv, Types, ClientTypes, turns
    <3> QED BY <2>3, <3>3, <3>4 DEF TInv, Types
  <2> QED BY <2>4, <2>5
<1>2. CASE OnObjectRemoved
  <2>1. Receive("removed") /\ OnObjectsRemoved({Head(bus).object})
    BY <1>2 DEF OnObjectRemoved
  <2>2. {Head(bus).object} \in SUBSET Objects
    BY <2>1, Taken DEF Receive, TInv, Types, UDisksTypes
  <2>3. faithful' \in BOOLEAN
    <3>1. CASE handlers > 0
      BY <1>2, <3>1 DEF OnObjectRemoved, TInv, Types, ClientTypes, turns
    <3>2. CASE ~(handlers > 0)
      BY <2>1, <3>2 DEF OnObjectsRemoved, Unheard
    <3> QED BY <3>1, <3>2
  <2> QED BY <2>1, <2>2, <2>3, RemovedTypes
<1>3. CASE OnServiceLost
  <2>1. Receive("lost") /\ OnObjectsRemoved(known) /\ faithful' \in BOOLEAN
    BY <1>3 DEF OnServiceLost
  <2> QED BY <2>1, RemovedTypes DEF TInv, Types, UDisksTypes
<1>4. ASSUME NEW type \in {"mounted", "unmounted"}, OnMountPointsChanged(type) PROVE TInv'
  <2>1. Receive(type) /\ Delivered /\ known' \subseteq Objects
    BY <1>4 DEF OnMountPointsChanged, TInv, Types, UDisksTypes
  <2>2. /\ UDisksTypes' /\ MountSignals' /\ MonitorTypes' /\ HeldHandler' /\ UNCHANGED turns
        /\ Head(bus).object \in Blocks
    BY <2>1, DeliveredTypes
  <2>3. [block |-> Head(bus).object, said |-> type] \in Timer
    BY <2>2 DEF Timer
  <2>4. mountTimers' \in Seq(Timer) /\ blksOfDrive' = blksOfDrive
    BY <1>4, <2>3, TimersStarted, BoundsAssumption
       DEF OnMountPointsChanged, TInv, Types, IndexTypes, MonitorTypes
  <2>5. IndexTypes'
    BY <2>4 DEF TInv, Types, IndexTypes
  <2>6. missed' \in BOOLEAN /\ UNCHANGED <<view, lastSaid, overtaken, faithful>>
    BY <1>4 DEF OnMountPointsChanged
  <2>7. ClientTypes'
    BY <2>2, <2>6 DEF TInv, Types, ClientTypes, turns
  <2> QED BY <2>2, <2>5, <2>7 DEF TInv, Types
<1> QED BY <1>1, <1>2, <1>3, <1>4 DEF Deliver

LEMMA MainThreadKeepsTypes == TInv /\ (MountTimeout \/ OnServiceOwnerChanged) => TInv'
<1> SUFFICES ASSUME TInv, MountTimeout \/ OnServiceOwnerChanged PROVE TInv'
  OBVIOUS
<1>1. CASE MountTimeout
  <2>1. UDisksTypes' /\ MountSignals' /\ MonitorTypes' /\ HeldHandler'
    BY <1>1 DEF MountTimeout, TInv, Types, UDisksTypes, MonitorTypes, MountSignals, HeldHandler,
                udisksVars, monitorVars
  <2>2. mountTimers \in Seq(Timer) /\ mountTimers # <<>> /\ mountTimers' = Tail(mountTimers)
    BY <1>1 DEF MountTimeout, TInv, Types, IndexTypes
  <2>3. mountTimers' \in Seq(Timer) /\ Head(mountTimers) \in Timer
    BY <2>2
  <2>4. IndexTypes'
    BY <1>1, <2>3 DEF MountTimeout, TInv, Types, IndexTypes
  <2>5. lastSaid' \in [Blocks -> {"nothing", "mounted", "unmounted"}]
    BY <1>1, <2>3 DEF MountTimeout, TInv, Types, ClientTypes, turns, Timer
  <2>6. ClientTypes'
    BY <1>1, <2>5 DEF MountTimeout, TInv, Types, ClientTypes, turns
  <2> QED BY <2>1, <2>4, <2>6 DEF TInv, Types
<1>2. CASE OnServiceOwnerChanged
  <2>1. ownerBus' \in Seq(BOOLEAN)
    <3>1. ownerBus \in Seq(BOOLEAN) /\ ownerBus # <<>> /\ ownerBus' = Tail(ownerBus)
      BY <1>2 DEF OnServiceOwnerChanged, TInv, Types, UDisksTypes
    <3> QED BY <3>1
  <2>2. UDisksTypes' /\ MountSignals' /\ IndexTypes' /\ ClientTypes'
    BY <1>2, <2>1 DEF OnServiceOwnerChanged, TInv, Types, UDisksTypes, IndexTypes, ClientTypes, turns,
                      MountSignals, udisksVars, clientVars
  <2>3. /\ handlers \in 0..MaxHandlers /\ ownerLambdas \in 0..MaxHandlers /\ handlers' <= MaxHandlers
        /\ UNCHANGED <<monitorStatus, ownerLambdas>>
    BY <1>2 DEF OnServiceOwnerChanged, TInv, Types, MonitorTypes
  <2>4. handlers' \in 0..MaxHandlers /\ connections' \in BOOLEAN /\ HeldHandler'
    <3>1. CASE ownerLambdas = 0
      BY <1>2, <3>1 DEF OnServiceOwnerChanged, TInv, Types, MonitorTypes, HeldHandler
    <3>2. CASE ownerLambdas # 0 /\ Head(ownerBus)
      <4>1. handlers' = handlers + ownerLambdas /\ connections' \in BOOLEAN
        BY <1>2, <3>2 DEF OnServiceOwnerChanged
      <4>2. ownerLambdas # 0
        BY <3>2
      <4>3. handlers' \in 0..MaxHandlers /\ handlers' > 0
        BY <2>3, <4>1, <4>2, BoundsAssumption
      <4> QED BY <4>1, <4>3 DEF HeldHandler
    <3>3. CASE ownerLambdas # 0 /\ ~Head(ownerBus)
      BY <1>2, <3>3, StopTypes DEF OnServiceOwnerChanged
    <3> QED BY <3>1, <3>2, <3>3
  <2>5. MonitorTypes'
    BY <2>3, <2>4 DEF TInv, Types, MonitorTypes
  <2> QED BY <2>2, <2>4, <2>5 DEF TInv, Types
<1> QED BY <1>1, <1>2

LEMMA NextTypes == TInv /\ [Next]_vars => TInv'
<1> SUFFICES ASSUME TInv, [Next]_vars PROVE TInv'
  OBVIOUS
<1>1. CASE Next
  BY <1>1, UDisksKeepsTypes, ClientKeepsTypes, DeliverKeepsTypes, MainThreadKeepsTypes DEF Next
<1>2. CASE UNCHANGED vars
  BY <1>2 DEF vars, udisksVars, monitorVars, clientVars, turns, TInv, Types, UDisksTypes,
              MonitorTypes, IndexTypes, ClientTypes, MountSignals, HeldHandler
<1> QED BY <1>1, <1>2

(* Every variable stays in its domain: no handler is disconnected that is    *)
(* not there, only blocks are announced as devices, and an announcement of a *)
(* mount is about a block, however often the service and the monitor are     *)
(* started and stopped.                                                      *)
THEOREM TypeCorrect == Spec => []TypeOK
<1>1. TInv => TypeOK
  BY TypesAreTypeOK DEF TInv
<1>2. Spec => []TInv
  BY InitTypes, NextTypes, PTL DEF Spec
<1> QED BY <1>1, <1>2, PTL

-----------------------------------------------------------------------------
(* One subscription                                                        *)

(* The changes of owner that are on their way alternate, and the last one    *)
(* is true                                                                  *)
OwnersAlternate ==
    \A i \in DOMAIN ownerBus :
        ownerBus[i] <=> IF i = Len(ownerBus) THEN running ELSE ~ownerBus[i + 1]

(* A monitor that is on has one lambda, and one handler while it believes    *)
(* that there is a service; one that is off has none                         *)
OnInv == /\ ownerLambdas = 1
         /\ IF OwnerSeen THEN handlers = 1 /\ connections ELSE handlers = 0 /\ ~connections
OffInv == ownerLambdas = 0 /\ handlers = 0 /\ ~connections

StepInv == inStep /\ ~startedDown => /\ monitorStatus = "monitoring" => OnInv
                                     /\ monitorStatus = "idle" => OffInv

(* Also if it was started while the watcher knew of no service              *)
TurnInv == inStep => /\ monitorStatus = "monitoring" => ownerLambdas = 1
                     /\ monitorStatus = "idle" => ownerLambdas = 0 /\ ~connections

(* What the watcher has heard is each exit and each return in turn; of the   *)
(* handlers that are not held one is left at most for each return            *)
Heard == 2 * restarts - (IF running THEN 0 ELSE 1) - Len(ownerBus)
Left(returns) ==
    /\ Heard = (IF OwnerSeen THEN 2 * returns ELSE 2 * returns + 1)
    /\ inStep => handlers <= returns + (IF connections THEN 1 ELSE 0)
LeftInv == \E returns \in Nat : Left(returns)

SInv == TInv /\ OwnersAlternate /\ StepInv /\ TurnInv /\ LeftInv

LEMMA InitSubscription == Init => SInv
<1> SUFFICES ASSUME Init PROVE SInv
  OBVIOUS
<1>1. TInv
  BY InitTypes
<1>2. OwnersAlternate
  BY DEF Init, OwnersAlternate
<1>3. StepInv /\ TurnInv
  BY DEF Init, StepInv, OffInv, TurnInv
<1>4. Left(0)
  <2>1. running = TRUE /\ ownerBus = <<>> /\ Len(ownerBus) = 0 /\ restarts = 0 /\ handlers = 0
        /\ connections = FALSE
    BY DEF Init
  <2>2. OwnerSeen
    BY <2>1 DEF OwnerSeen
  <2>3. Heard = 0
    <3>1. running /\ restarts = 0 /\ Len(ownerBus) = 0
      BY <2>1
    <3> DEFINE n == 2 * restarts
               down == IF running THEN 0 ELSE 1
               len == Len(ownerBus)
    <3>2. Heard = n - down - len
      BY DEF Heard
    <3>3. n = 0 /\ down = 0 /\ len = 0
      BY <3>1
    <3> HIDE DEF n, down, len
    <3> QED BY <3>2, <3>3
  <2> QED BY <2>1, <2>2, <2>3 DEF Left
<1> QED BY <1>1, <1>2, <1>3, <1>4 DEF SInv, LeftInv

(* The service posts a change of its owner                                  *)
LEMMA OwnerPosted ==
    ASSUME SInv, running' \in BOOLEAN, running' # running, ownerBus' = Append(ownerBus, running')
    PROVE  OwnersAlternate' /\ (OwnerSeen' <=> OwnerSeen)
<1>1. ownerBus \in Seq(BOOLEAN) /\ running \in BOOLEAN
  BY DEF SInv, TInv, Types, UDisksTypes
<1>2. ownerBus' \in Seq(BOOLEAN) /\ Len(ownerBus') = Len(ownerBus) + 1
  BY <1>1
<1>3. \A i \in DOMAIN ownerBus' : ownerBus'[i] = IF i = Len(ownerBus) + 1 THEN running' ELSE ownerBus[i]
  BY <1>1
<1>4. ASSUME NEW i \in DOMAIN ownerBus'
      PROVE  ownerBus'[i] <=> IF i = Len(ownerBus') THEN running' ELSE ~ownerBus'[i + 1]
  <2>1. CASE i = Len(ownerBus) + 1
    BY <2>1, <1>2, <1>3
  <2>2. CASE i = Len(ownerBus)
    <3>1. i \in DOMAIN ownerBus /\ (ownerBus[i] <=> running)
      BY <2>2, <1>1, <1>2 DEF SInv, OwnersAlternate
    <3>2. ownerBus'[i] = ownerBus[i] /\ ownerBus'[i + 1] = running' /\ i # Len(ownerBus')
      BY <2>2, <1>2, <1>3
    <3>3. running' <=> ~running
      BY <1>1
    <3> QED BY <3>1, <3>2, <3>3, Zenon
  <2>3. CASE i < Len(ownerBus)
    <3>1. i \in DOMAIN ownerBus /\ (ownerBus[i] <=> ~ownerBus[i + 1]) /\ i # Len(ownerBus')
      BY <2>3, <1>1, <1>2 DEF SInv, OwnersAlternate
    <3>2. ownerBus'[i] = ownerBus[i] /\ ownerBus'[i + 1] = ownerBus[i + 1]
      BY <2>3, <1>2, <1>3
    <3> QED BY <3>1, <3>2, Zenon
  <2> QED BY <2>1, <2>2, <2>3, <1>2
<1>5. OwnersAlternate'
  BY <1>4 DEF OwnersAlternate
<1>6. ownerBus' # <<>>
  BY <1>2
<1>7. CASE ownerBus = <<>>
  <2>1. Head(ownerBus') = running'
    BY <1>7
  <2>2. running' <=> ~running
    BY <1>1
  <2> QED BY <1>5, <1>6, <1>7, <2>1, <2>2 DEF OwnerSeen
<1>8. CASE ownerBus # <<>>
  <2>1. Head(ownerBus') = Head(ownerBus)
    BY <1>1, <1>8
  <2> QED BY <1>5, <1>6, <1>8, <2>1 DEF OwnerSeen
<1> QED BY <1>7, <1>8

(* The watcher takes one                                                    *)
LEMMA OwnerTaken ==
    ASSUME SInv, ownerBus # <<>>, ownerBus' = Tail(ownerBus), UNCHANGED running
    PROVE  /\ OwnersAlternate'
           /\ (OwnerSeen <=> ~Head(ownerBus)) /\ (OwnerSeen' <=> Head(ownerBus))
           /\ Head(ownerBus) \in BOOLEAN
<1>1. ownerBus \in Seq(BOOLEAN) /\ running \in BOOLEAN
  BY DEF SInv, TInv, Types, UDisksTypes
<1>2. /\ ownerBus' \in Seq(BOOLEAN) /\ Len(ownerBus') = Len(ownerBus) - 1
      /\ 1 \in DOMAIN ownerBus /\ Head(ownerBus) = ownerBus[1] /\ Head(ownerBus) \in BOOLEAN
  BY <1>1
<1>3. \A i \in DOMAIN ownerBus' : ownerBus'[i] = ownerBus[i + 1] /\ i + 1 \in DOMAIN ownerBus
  BY <1>1
<1>4. ASSUME NEW i \in DOMAIN ownerBus'
      PROVE  ownerBus'[i] <=> IF i = Len(ownerBus') THEN running' ELSE ~ownerBus'[i + 1]
  <2>1. ownerBus[i + 1] <=> IF i + 1 = Len(ownerBus) THEN running ELSE ~ownerBus[i + 2]
    BY <1>3 DEF SInv, OwnersAlternate
  <2>2. i = Len(ownerBus') <=> i + 1 = Len(ownerBus)
    BY <1>2
  <2>3. CASE i = Len(ownerBus')
    BY <1>3, <2>1, <2>2, <2>3, Zenon
  <2>4. CASE i # Len(ownerBus')
    <3>1. i + 1 \in DOMAIN ownerBus'
      BY <1>2, <2>4
    <3>2. ownerBus'[i + 1] = ownerBus[i + 2]
      BY <1>2, <1>3, <3>1
    <3> QED BY <1>3, <2>1, <2>2, <2>4, <3>2, Zenon
  <2> QED BY <2>3, <2>4
<1>5. OwnersAlternate'
  BY <1>4 DEF OwnersAlternate
<1>6. OwnerSeen' <=> Head(ownerBus)
  <2>1. ownerBus[1] <=> IF 1 = Len(ownerBus) THEN running ELSE ~ownerBus[2]
    BY <1>2 DEF SInv, OwnersAlternate
  <2>2. CASE Len(ownerBus) = 1
    <3>1. ownerBus' = <<>>
      BY <1>2, <2>2
    <3> QED BY <1>2, <2>1, <2>2, <3>1 DEF OwnerSeen
  <2>3. CASE Len(ownerBus) # 1
    <3>1. ownerBus' # <<>> /\ Head(ownerBus') = ownerBus[2]
      BY <1>1, <1>2, <2>3
    <3> QED BY <1>2, <2>1, <2>3, <3>1 DEF OwnerSeen
  <2> QED BY <2>2, <2>3
<1>7. OwnerSeen <=> ~Head(ownerBus)
  BY DEF OwnerSeen
<1> QED BY <1>2, <1>5, <1>6, <1>7

(* A step that leaves the subscription and the owner alone                  *)
LEMMA SubscriptionUntouched ==
    ASSUME SInv, UNCHANGED <<running, restarts, ownerBus, monitorVars, turns>>
    PROVE  OwnersAlternate' /\ StepInv' /\ TurnInv' /\ LeftInv'
<1>1. UNCHANGED <<monitorStatus, handlers, connections, ownerLambdas, inStep, startedDown>>
  BY DEF monitorVars, turns
<1>2. OwnersAlternate' /\ StepInv' /\ TurnInv'
  BY <1>1 DEF SInv, OwnersAlternate, StepInv, TurnInv, OnInv, OffInv, OwnerSeen
<1>3. PICK returns \in Nat : Left(returns)
  BY DEF SInv, LeftInv
<1>4. Left(returns)'
  BY <1>1, <1>3 DEF Left, Heard, OwnerSeen
<1> QED BY <1>2, <1>4 DEF LeftInv

(* The service exits or comes back: the watcher has not heard of it yet     *)
LEMMA NothingHeard ==
    ASSUME SInv, ServiceExits \/ ServiceStarts
    PROVE  LeftInv'
<1>1. PICK returns \in Nat : Left(returns)
  BY DEF SInv, LeftInv
<1>2. /\ running' \in BOOLEAN /\ running' # running /\ ownerBus' = Append(ownerBus, running')
      /\ UNCHANGED <<handlers, connections, inStep>>
  BY DEF ServiceExits, ServiceStarts, monitorVars, turns
<1>3. OwnerSeen' <=> OwnerSeen
  BY <1>2, OwnerPosted
<1>4. Len(ownerBus') = Len(ownerBus) + 1 /\ Len(ownerBus) \in Nat /\ restarts \in Nat
  BY <1>2, BoundsAssumption DEF SInv, TInv, Types, UDisksTypes
<1>5. Heard' = Heard
  <2>1. CASE ServiceExits
    <3>1. running /\ ~running' /\ restarts' = restarts + 1
      BY <2>1 DEF ServiceExits
    <3> QED BY <1>4, <3>1 DEF Heard
  <2>2. CASE ServiceStarts
    <3>1. ~running /\ running' /\ restarts' = restarts
      BY <2>2 DEF ServiceStarts
    <3> QED BY <1>4, <3>1 DEF Heard
  <2> QED BY <2>1, <2>2
<1>6. Left(returns)'
  BY <1>1, <1>2, <1>3, <1>5 DEF Left
<1> QED BY <1>6 DEF LeftInv

LEMMA NextSubscription == SInv /\ [Next]_vars => SInv'
<1> SUFFICES ASSUME SInv, [Next]_vars PROVE SInv'
  OBVIOUS
<1>0. TInv'
  BY NextTypes DEF SInv
<1> SUFFICES OwnersAlternate' /\ StepInv' /\ TurnInv' /\ LeftInv'
  BY <1>0 DEF SInv
<1>1. CASE ServiceExits \/ ServiceStarts
  <2>1. /\ running' \in BOOLEAN /\ running' # running /\ ownerBus' = Append(ownerBus, running')
        /\ UNCHANGED <<monitorVars, turns>>
    BY <1>1 DEF ServiceExits, ServiceStarts
  <2>2. OwnersAlternate' /\ (OwnerSeen' <=> OwnerSeen)
    BY <2>1, OwnerPosted
  <2>3. StepInv' /\ TurnInv'
    BY <2>1, <2>2 DEF SInv, StepInv, TurnInv, OnInv, OffInv, monitorVars, turns
  <2> QED BY <1>1, <2>2, <2>3, NothingHeard
<1>2. CASE StartMonitor
  <2>1. /\ UNCHANGED <<running, restarts, ownerBus>> /\ monitorStatus' = "monitoring"
        /\ ownerLambdas' = ownerLambdas + 1 /\ handlers' = handlers + 1 /\ connections'
        /\ inStep' => inStep /\ monitorStatus = "idle"
        /\ ~startedDown' => ~startedDown /\ OwnerSeen
    BY <1>2 DEF StartMonitor, StartDeviceMonitor, udisksVars
  <2>2. OwnersAlternate' /\ (OwnerSeen' <=> OwnerSeen)
    BY <2>1 DEF SInv, OwnersAlternate, OwnerSeen
  <2>3. StepInv'
    <3> SUFFICES ASSUME inStep', ~startedDown' PROVE OnInv'
      BY <2>1 DEF StepInv
    <3>1. ownerLambdas = 0 /\ handlers = 0 /\ OwnerSeen
      BY <2>1 DEF SInv, StepInv, OffInv
    <3> QED BY <2>1, <2>2, <3>1 DEF OnInv
  <2>4. TurnInv'
    BY <2>1 DEF SInv, TurnInv
  <2>5. PICK returns \in Nat : Left(returns)
    BY DEF SInv, LeftInv
  <2>6. Left(returns)'
    <3>1. handlers \in Nat
      BY BoundsAssumption DEF SInv, TInv, Types, MonitorTypes
    <3>2. inStep' => handlers <= returns
      BY <2>1, <2>5, <3>1 DEF SInv, TurnInv, Left
    <3>3. inStep' => handlers' <= returns + 1
      BY <2>1, <3>1, <3>2
    <3> QED BY <2>1, <2>2, <2>5, <3>3 DEF Left, Heard
  <2> QED BY <2>2, <2>3, <2>4, <2>6 DEF LeftInv
<1>3. CASE StopMonitor
  <2>1. /\ UNCHANGED <<running, restarts, ownerBus, inStep, startedDown>>
        /\ monitorStatus' = "idle" /\ ownerLambdas' = 0
        /\ handlers' = (IF connections THEN handlers - 1 ELSE handlers) /\ ~connections'
    BY <1>3 DEF StopMonitor, StopDeviceMonitor, udisksVars, turns
  <2>2. OwnersAlternate' /\ (OwnerSeen' <=> OwnerSeen)
    BY <2>1 DEF SInv, OwnersAlternate, OwnerSeen
  <2>3. StepInv'
    <3> SUFFICES ASSUME inStep', ~startedDown' PROVE OffInv'
      BY <2>1 DEF StepInv
    <3>1. handlers = (IF connections THEN 1 ELSE 0)
      BY <2>1 DEF SInv, StepInv, OnInv, OffInv, TInv, Types, MonitorTypes
    <3> QED BY <2>1, <3>1 DEF OffInv
  <2>4. TurnInv'
    BY <2>1 DEF TurnInv
  <2>5. PICK returns \in Nat : Left(returns)
    BY DEF SInv, LeftInv
  <2>6. Left(returns)'
    <3>1. handlers \in Nat
      BY BoundsAssumption DEF SInv, TInv, Types, MonitorTypes
    <3> QED BY <2>1, <2>2, <2>5, <3>1 DEF Left, Heard
  <2> QED BY <2>2, <2>3, <2>4, <2>6 DEF LeftInv
<1>4. CASE OnServiceOwnerChanged
  <2>1. /\ ownerBus # <<>> /\ ownerBus' = Tail(ownerBus)
        /\ UNCHANGED <<running, restarts, monitorStatus, ownerLambdas, inStep, startedDown>>
    BY <1>4 DEF OnServiceOwnerChanged, udisksVars, turns
  <2>2. /\ OwnersAlternate' /\ Head(ownerBus) \in BOOLEAN
        /\ (OwnerSeen <=> ~Head(ownerBus)) /\ (OwnerSeen' <=> Head(ownerBus))
    BY <2>1, OwnerTaken
  <2>a. ASSUME ownerLambdas # 0, Head(ownerBus)
        PROVE  handlers' = handlers + ownerLambdas /\ connections' = TRUE
    BY <1>4, <2>a, Zenon DEF OnServiceOwnerChanged
  <2>b. ASSUME ownerLambdas # 0, ~Head(ownerBus) PROVE StopDeviceMonitor
    BY <1>4, <2>b, Zenon DEF OnServiceOwnerChanged
  <2>c. ASSUME ownerLambdas = 0 PROVE UNCHANGED <<handlers, connections>>
    BY <1>4, <2>c DEF OnServiceOwnerChanged
  <2>3. ASSUME inStep', ~startedDown', monitorStatus' = "monitoring" PROVE OnInv'
    <3>1. OnInv
      BY <2>1, <2>3 DEF SInv, StepInv
    <3>2. CASE Head(ownerBus)
      <4>1. handlers = 0 /\ ownerLambdas = 1 /\ OwnerSeen'
        BY <2>2, <3>1, <3>2 DEF OnInv
      <4>2. ownerLambdas # 0
        BY <4>1
      <4>3. handlers' = handlers + ownerLambdas /\ connections' = TRUE
        BY <2>a, <3>2, <4>2
      <4> QED BY <2>1, <4>1, <4>3 DEF OnInv
    <3>3. CASE ~Head(ownerBus)
      <4>1. handlers = 1 /\ connections /\ ownerLambdas = 1 /\ ~OwnerSeen'
        BY <2>2, <3>1, <3>3 DEF OnInv
      <4>2. ownerLambdas # 0
        BY <4>1
      <4>3. StopDeviceMonitor
        BY <2>b, <3>3, <4>2
      <4>4. handlers' = 0 /\ ~connections'
        BY <4>1, <4>3 DEF StopDeviceMonitor
      <4> QED BY <2>1, <4>1, <4>4 DEF OnInv
    <3> QED BY <3>2, <3>3
  <2>4. ASSUME inStep', ~startedDown', monitorStatus' = "idle" PROVE OffInv'
    <3>1. OffInv
      BY <2>1, <2>4 DEF SInv, StepInv
    <3> QED BY <2>1, <2>c, <3>1 DEF OffInv
  <2>d. StepInv'
    <3> SUFFICES ASSUME inStep', ~startedDown'
                 PROVE  /\ monitorStatus' = "monitoring" => OnInv'
                        /\ monitorStatus' = "idle" => OffInv'
      BY DEF StepInv
    <3> QED BY <2>3, <2>4
  <2>5. TurnInv'
    BY <2>1, <2>c DEF SInv, TurnInv
  <2>6. PICK returns \in Nat : Left(returns)
    BY DEF SInv, LeftInv
  <2>7. /\ Len(ownerBus') = Len(ownerBus) - 1 /\ Len(ownerBus) \in Nat
        /\ restarts \in Nat /\ handlers \in Nat
    BY <2>1, BoundsAssumption DEF SInv, TInv, Types, UDisksTypes, MonitorTypes
  <2>8. Heard' = Heard + 1
    BY <2>1, <2>7 DEF Heard
  <2>9. inStep => ownerLambdas = 1 \/ (ownerLambdas = 0 /\ ~connections)
    BY DEF SInv, TurnInv, TInv, Types, MonitorTypes
  <2>10. CASE Head(ownerBus)
    <3>1. ~OwnerSeen /\ OwnerSeen' /\ Heard = 2 * returns + 1
      BY <2>2, <2>6, <2>10 DEF Left
    <3>2. Heard' = 2 * (returns + 1)
      BY <2>8, <3>1
    <3>3. ASSUME inStep' PROVE handlers' <= returns + 1 + (IF connections' THEN 1 ELSE 0)
      <4>1. inStep /\ handlers <= returns + (IF connections THEN 1 ELSE 0)
        BY <2>1, <2>6, <3>3 DEF Left
      <4>2. CASE ownerLambdas = 1
        <5>1. ownerLambdas # 0
          BY <4>2
        <5>2. handlers' = handlers + ownerLambdas /\ connections' = TRUE
          BY <2>a, <2>10, <5>1
        <5> QED BY <2>7, <4>1, <4>2, <5>2
      <4>3. CASE ownerLambdas = 0 /\ ~connections
        BY <2>7, <2>c, <4>1, <4>3
      <4> QED BY <2>9, <4>1, <4>2, <4>3
    <3>4. Left(returns + 1)'
      BY <3>1, <3>2, <3>3 DEF Left
    <3>5. returns + 1 \in Nat
      OBVIOUS
    <3>6. LeftInv'
      BY <3>4, <3>5 DEF LeftInv
    <3> QED BY <2>2, <2>d, <2>5, <3>6
  <2>11. CASE ~Head(ownerBus)
    <3>1. OwnerSeen /\ ~OwnerSeen' /\ Heard = 2 * returns
      BY <2>2, <2>6, <2>11 DEF Left
    <3>2. Heard' = 2 * returns + 1
      BY <2>8, <3>1
    <3>3. ASSUME inStep' PROVE handlers' <= returns + (IF connections' THEN 1 ELSE 0)
      <4>1. inStep /\ handlers <= returns + (IF connections THEN 1 ELSE 0)
        BY <2>1, <2>6, <3>3 DEF Left
      <4>2. CASE ownerLambdas = 1
        <5>1. ownerLambdas # 0
          BY <4>2
        <5>2. StopDeviceMonitor
          BY <2>b, <2>11, <5>1
        <5>3. handlers' = (IF connections THEN handlers - 1 ELSE handlers) /\ ~connections'
          BY <5>2 DEF StopDeviceMonitor
        <5> QED BY <2>7, <4>1, <5>3
      <4>3. CASE ownerLambdas = 0 /\ ~connections
        BY <2>7, <2>c, <4>1, <4>3
      <4> QED BY <2>9, <4>1, <4>2, <4>3
    <3>4. Left(returns)'
      BY <3>1, <3>2, <3>3 DEF Left
    <3> QED BY <2>2, <2>d, <2>5, <3>4 DEF LeftInv
  <2> QED BY <2>2, <2>10, <2>11
<1>5. CASE \/ \E o \in Objects : Plug(o) \/ Unplug(o)
           \/ \E b \in Blocks : Mount(b) \/ Unmount(b)
  <2>1. UNCHANGED <<running, restarts, ownerBus, monitorVars, turns>>
    BY <1>5 DEF Plug, Unplug, Mount, Unmount, HardwareChange
  <2> QED BY <2>1, SubscriptionUntouched
<1>6. CASE ResolveDeviceOfDrive \/ MountTimeout
  <2>1. UNCHANGED <<running, restarts, ownerBus, monitorVars, turns>>
    BY <1>6 DEF ResolveDeviceOfDrive, MountTimeout, udisksVars
  <2> QED BY <2>1, SubscriptionUntouched
<1>7. CASE Deliver
  <2>1. Delivered
    BY <1>7 DEF Deliver, OnObjectAdded, OnObjectRemoved, OnServiceLost, OnObjectsRemoved,
                OnMountPointsChanged
  <2> QED BY <2>1, SubscriptionUntouched DEF Delivered, udisksVars
<1>8. CASE UNCHANGED vars
  <2>1. UNCHANGED <<running, restarts, ownerBus, monitorVars, turns>>
    BY <1>8 DEF vars, udisksVars
  <2> QED BY <2>1, SubscriptionUntouched
<1> QED BY <1>1, <1>2, <1>3, <1>4, <1>5, <1>6, <1>7, <1>8 DEF Next, UDisks, Client

(* A client that calls startMonitor() and stopMonitor() in turn has one       *)
(* handler on a signal at most, and none while the monitor is off, however   *)
(* often the service exits and comes back and however late the watcher hears *)
(* of it; and if it ever starts when the watcher has heard of an exit and not *)
(* yet of the return, no more are left over than there were restarts.        *)
THEOREM OneSubscription == Spec => []SubscribedOnce
<1>1. SInv => SubscribedOnce
  <2> SUFFICES ASSUME SInv, inStep
               PROVE  /\ monitorStatus = "idle" => ownerLambdas = 0
                      /\ handlers <= (IF monitorStatus = "monitoring" THEN 1 ELSE 0)
                                      + (IF startedDown THEN restarts ELSE 0)
    BY DEF SubscribedOnce
  <2>1. /\ monitorStatus \in {"idle", "monitoring"} /\ handlers \in Nat /\ restarts \in Nat
        /\ Len(ownerBus) \in Nat
    BY BoundsAssumption DEF SInv, TInv, Types, MonitorTypes, UDisksTypes
  <2>2. CASE ~startedDown
    <3>1. CASE monitorStatus = "monitoring"
      BY <2>2, <3>1 DEF SInv, StepInv, OnInv
    <3>2. CASE monitorStatus = "idle"
      BY <2>2, <3>2 DEF SInv, StepInv, OffInv
    <3> QED BY <2>1, <3>1, <3>2
  <2>3. CASE startedDown
    <3>1. PICK returns \in Nat : Left(returns)
      BY DEF SInv, LeftInv
    <3>2. returns <= restarts
      <4>1. Heard \in Int /\ 2 * returns <= Heard
        <5>1. Heard \in Int
          BY <2>1 DEF Heard
        <5>2. Heard = 2 * returns \/ Heard = 2 * returns + 1
          BY <3>1 DEF Left
        <5> QED BY <5>1, <5>2
      <4>2. CASE running
        BY <2>1, <4>1, <4>2 DEF Heard
      <4>3. CASE ~running
        BY <2>1, <4>1, <4>3 DEF Heard
      <4> QED BY <4>2, <4>3
    <3>3. handlers <= returns + (IF connections THEN 1 ELSE 0)
      BY <3>1 DEF Left
    <3>4. monitorStatus = "idle" => ownerLambdas = 0 /\ ~connections
      BY DEF SInv, TurnInv
    <3> QED BY <2>1, <2>3, <3>2, <3>3, <3>4
  <2> QED BY <2>2, <2>3
<1>2. Spec => []SInv
  BY InitSubscription, NextSubscription, PTL DEF Spec
<1> QED BY <1>1, <1>2, PTL

-----------------------------------------------------------------------------
(* What a queue of messages makes of a set                                 *)

\* x is in the set that S becomes by the first n messages of q, where a message
\* in A adds x and one in D takes it away.
InAfter(x, S, q, n, A, D) ==
    \/ \E i \in 1..n : q[i] \in A /\ \A j \in (i + 1)..n : q[j] \notin D
    \/ x \in S /\ \A j \in 1..n : q[j] \notin D

\* A message that is appended acts last.
LEMMA AfterAppend ==
    ASSUME NEW M, NEW q \in Seq(M), NEW m \in M, NEW x, NEW S, NEW A, NEW D
    PROVE  /\ \A n \in 0..Len(q) :
                  InAfter(x, S, Append(q, m), n, A, D) <=> InAfter(x, S, q, n, A, D)
           /\ InAfter(x, S, Append(q, m), Len(q) + 1, A, D)
                <=> m \in A \/ (m \notin D /\ InAfter(x, S, q, Len(q), A, D))
<1> DEFINE p == Append(q, m)
<1>1. Len(q) \in Nat /\ p[Len(q) + 1] = m /\ \A i \in 1..Len(q) : p[i] = q[i]
  OBVIOUS
<1> HIDE DEF p
<1>2. ASSUME NEW n \in 0..Len(q) PROVE InAfter(x, S, p, n, A, D) <=> InAfter(x, S, q, n, A, D)
  <2>1. \A i \in 1..n : p[i] = q[i]
    BY <1>1, <1>2
  <2>2. \A i \in 1..n : \A j \in (i + 1)..n : p[j] = q[j]
    BY <1>1, <1>2
  <2> QED BY <2>1, <2>2 DEF InAfter
<1>3. CASE m \in A
  <2>1. \A j \in ((Len(q) + 1) + 1)..(Len(q) + 1) : p[j] \notin D
    BY <1>1
  <2>2. Len(q) + 1 \in 1..(Len(q) + 1)
    BY <1>1
  <2> QED BY <1>1, <1>2, <1>3, <2>1, <2>2 DEF InAfter, p
<1>4. CASE m \notin A /\ m \in D
  <2>1. \A i \in 1..Len(q) : Len(q) + 1 \in (i + 1)..(Len(q) + 1)
    BY <1>1
  <2>2. \A i \in 1..(Len(q) + 1) : i \in 1..Len(q) \/ i = Len(q) + 1
    BY <1>1
  <2>3. Len(q) + 1 \in 1..(Len(q) + 1)
    BY <1>1
  <2>4. ~InAfter(x, S, p, Len(q) + 1, A, D)
    BY <1>1, <1>4, <2>1, <2>2, <2>3 DEF InAfter
  <2> QED BY <1>2, <1>4, <2>4 DEF p
<1>5. CASE m \notin A /\ m \notin D
  <2>1. \A i \in 1..(Len(q) + 1) : i \in 1..Len(q) \/ i = Len(q) + 1
    BY <1>1
  <2>2. \A i \in 1..Len(q) : i \in 1..(Len(q) + 1)
    BY <1>1
  <2>3. \A i \in 1..Len(q) : \A j \in (i + 1)..(Len(q) + 1) : j \in (i + 1)..Len(q) \/ j = Len(q) + 1
    BY <1>1
  <2>4. \A i \in 1..Len(q) : \A j \in (i + 1)..Len(q) : j \in (i + 1)..(Len(q) + 1) /\ j \in 1..Len(q)
    BY <1>1
  <2>5. InAfter(x, S, p, Len(q) + 1, A, D) <=> InAfter(x, S, q, Len(q), A, D)
    BY <1>1, <1>5, <2>1, <2>2, <2>3, <2>4 DEF InAfter
  <2> QED BY <1>2, <1>5, <2>5 DEF p
<1> QED BY <1>3, <1>4, <1>5

\* The first message acts when it is taken.
LEMMA AfterTail ==
    ASSUME NEW M, NEW q \in Seq(M), q # <<>>, NEW x, NEW S, NEW R, NEW A, NEW D,
           x \in R <=> Head(q) \in A \/ (x \in S /\ Head(q) \notin D)
    PROVE  \A n \in 0..(Len(q) - 1) :
               InAfter(x, R, Tail(q), n, A, D) <=> InAfter(x, S, q, n + 1, A, D)
<1> DEFINE p == Tail(q)
<1>1. /\ Len(q) \in Nat /\ Len(q) >= 1 /\ Head(q) = q[1]
      /\ \A i \in 1..(Len(q) - 1) : p[i] = q[i + 1]
  OBVIOUS
<1> HIDE DEF p
<1> SUFFICES ASSUME NEW n \in 0..(Len(q) - 1)
             PROVE  InAfter(x, R, p, n, A, D) <=> InAfter(x, S, q, n + 1, A, D)
  BY DEF p
<1>2. \A i \in 1..n : p[i] = q[i + 1] /\ i + 1 \in 2..(n + 1)
  BY <1>1
<1>3. \A i \in 2..(n + 1) : i - 1 \in 1..n /\ (i - 1) + 1 = i
  BY <1>1
<1>4. ASSUME NEW i \in 1..n
      PROVE  (\A j \in (i + 1)..n : p[j] \notin D) <=> (\A j \in ((i + 1) + 1)..(n + 1) : q[j] \notin D)
  <2>1. \A j \in (i + 1)..n : p[j] = q[j + 1] /\ j + 1 \in ((i + 1) + 1)..(n + 1)
    BY <1>1
  <2>2. \A j \in ((i + 1) + 1)..(n + 1) : j - 1 \in (i + 1)..n /\ (j - 1) + 1 = j
    BY <1>1
  <2> QED BY <2>1, <2>2
<1>5. (\A j \in 1..n : p[j] \notin D) <=> (\A j \in (1 + 1)..(n + 1) : q[j] \notin D)
  <2>1. (\A j \in 1..n : p[j] \notin D) <=> (\A j \in 2..(n + 1) : q[j] \notin D)
    BY <1>2, <1>3
  <2>2. (1 + 1)..(n + 1) = 2..(n + 1)
    OBVIOUS
  <2> QED BY <2>1, <2>2
<1>6. (\E i \in 1..n : p[i] \in A /\ \A j \in (i + 1)..n : p[j] \notin D)
        <=> (\E i \in 2..(n + 1) : q[i] \in A /\ \A j \in (i + 1)..(n + 1) : q[j] \notin D)
  <2>1. ASSUME NEW i \in 1..n, p[i] \in A /\ \A j \in (i + 1)..n : p[j] \notin D
        PROVE  /\ i + 1 \in 2..(n + 1) /\ q[i + 1] \in A
               /\ \A j \in ((i + 1) + 1)..(n + 1) : q[j] \notin D
    BY <1>2, <1>4, <2>1
  <2>2. ASSUME NEW i \in 2..(n + 1), q[i] \in A /\ \A j \in (i + 1)..(n + 1) : q[j] \notin D
        PROVE  \E k \in 1..n : p[k] \in A /\ \A j \in (k + 1)..n : p[j] \notin D
    <3> DEFINE k == i - 1
    <3>1. k \in 1..n /\ k + 1 = i
      BY <1>3
    <3> HIDE DEF k
    <3>2. p[k] \in A /\ \A j \in (k + 1)..n : p[j] \notin D
      BY <1>2, <1>4, <2>2, <3>1
    <3> QED BY <3>1, <3>2
  <2> QED BY <2>1, <2>2
<1>7. (\E i \in 1..(n + 1) : q[i] \in A /\ \A j \in (i + 1)..(n + 1) : q[j] \notin D)
        <=> \/ \E i \in 2..(n + 1) : q[i] \in A /\ \A j \in (i + 1)..(n + 1) : q[j] \notin D
            \/ q[1] \in A /\ \A j \in (1 + 1)..(n + 1) : q[j] \notin D
  <2>1. \A i : i \in 1..(n + 1) <=> i \in 2..(n + 1) \/ i = 1
    BY <1>1
  <2> QED BY <2>1
<1>8. (\A j \in 1..(n + 1) : q[j] \notin D)
        <=> q[1] \notin D /\ \A j \in (1 + 1)..(n + 1) : q[j] \notin D
  <2>1. \A i : i \in 1..(n + 1) <=> i \in (1 + 1)..(n + 1) \/ i = 1
    BY <1>1
  <2> QED BY <2>1
<1> QED BY <1>1, <1>5, <1>6, <1>7, <1>8 DEF InAfter

\* Messages that do not take x away leave it in, or bring it.
LEMMA AfterConcat ==
    ASSUME NEW M, NEW q \in Seq(M), NEW r \in Seq(M), NEW x, NEW S, NEW A, NEW D,
           \A j \in 1..Len(r) : r[j] \notin D
    PROVE  /\ \A n \in 0..Len(q) : InAfter(x, S, q \o r, n, A, D) <=> InAfter(x, S, q, n, A, D)
           /\ InAfter(x, S, q \o r, Len(q) + Len(r), A, D)
                <=> (\E j \in 1..Len(r) : r[j] \in A) \/ InAfter(x, S, q, Len(q), A, D)
<1> DEFINE p == q \o r
           k == Len(q)
           l == Len(r)
<1>1. k \in Nat /\ l \in Nat /\ \A i \in 1..k : p[i] = q[i]
  BY ConcatProperties
<1>2. \A i \in 1..l : p[k + i] = r[i]
  <2>1. \A i \in 1..(Len(q) + Len(r)) : p[i] = IF i <= Len(q) THEN q[i] ELSE r[i - Len(q)]
    BY ConcatProperties, Zenon
  <2> HIDE DEF p
  <2> QED BY <1>1, <2>1
<1> HIDE DEF p, k, l
<1>3. ASSUME NEW n \in 0..k PROVE InAfter(x, S, p, n, A, D) <=> InAfter(x, S, q, n, A, D)
  <2>1. \A i \in 1..n : p[i] = q[i]
    BY <1>1
  <2>2. \A i \in 1..n : \A j \in (i + 1)..n : p[j] = q[j]
    BY <1>1
  <2> QED BY <2>1, <2>2 DEF InAfter
<1>4. \A j \in 1..l : r[j] \notin D
  BY DEF l
<1>5. \A j \in 1..(k + l) : j \in 1..k \/ (j - k \in 1..l /\ p[j] = r[j - k])
  <2>1. ASSUME NEW j \in 1..(k + l), j > k PROVE j - k \in 1..l /\ k + (j - k) = j
    BY <1>1, <2>1
  <2> QED BY <1>1, <1>2, <2>1
<1>6. \A j \in 1..(k + l) : j \in 1..k \/ p[j] \notin D
  BY <1>4, <1>5
<1>7. CASE \E j \in 1..l : r[j] \in A
  <2>1. PICK j \in 1..l : r[j] \in A
    BY <1>7
  <2>2. k + j \in 1..(k + l) /\ p[k + j] \in A
    BY <1>1, <1>2, <2>1
  <2>3. \A i \in ((k + j) + 1)..(k + l) : i \in 1..(k + l) /\ i \notin 1..k
    BY <1>1
  <2>4. InAfter(x, S, p, k + l, A, D)
    BY <1>6, <2>2, <2>3 DEF InAfter
  <2> QED BY <1>3, <1>7, <2>4 DEF p, k, l
<1>8. CASE ~ \E j \in 1..l : r[j] \in A
  <2>1. \A i \in 1..(k + l) : p[i] \in A => i \in 1..k
    BY <1>5, <1>8
  <2>2. \A i \in 1..k : i \in 1..(k + l) /\ p[i] = q[i]
    BY <1>1
  <2>3. ASSUME NEW i \in 1..k
        PROVE  (\A j \in (i + 1)..(k + l) : p[j] \notin D) <=> (\A j \in (i + 1)..k : q[j] \notin D)
    <3>1. \A j \in (i + 1)..k : j \in (i + 1)..(k + l) /\ j \in 1..k
      BY <1>1
    <3>2. \A j \in (i + 1)..(k + l) : j \in 1..(k + l) /\ (j \in 1..k => j \in (i + 1)..k)
      BY <1>1
    <3> QED BY <1>6, <2>2, <3>1, <3>2
  <2>4. (\A j \in 1..(k + l) : p[j] \notin D) <=> (\A j \in 1..k : q[j] \notin D)
    BY <1>6, <2>2
  <2>5. InAfter(x, S, p, k + l, A, D) <=> InAfter(x, S, q, k, A, D)
    BY <2>1, <2>2, <2>3, <2>4 DEF InAfter
  <2> QED BY <1>3, <1>8, <2>5 DEF p, k, l
<1> QED BY <1>7, <1>8

\* k copies of a message act like one.
LEMMA AfterCopies ==
    ASSUME NEW M, NEW q \in Seq(M), NEW m \in M, NEW k \in Nat \ {0}, NEW x, NEW S, NEW A, NEW D
    PROVE  InAfter(x, S, q \o [i \in 1..k |-> m], Len(q) + k, A, D)
             <=> m \in A \/ (m \notin D /\ InAfter(x, S, q, Len(q), A, D))
<1> DEFINE r == [i \in 1..k |-> m]
           p == q \o r
           l == Len(q)
<1>1. r \in Seq(M) /\ Len(r) = k /\ \A i \in 1..k : r[i] = m
  OBVIOUS
<1> HIDE DEF r
<1>2. CASE m \notin D
  <2>1. (\E j \in 1..k : r[j] \in A) <=> m \in A
    BY <1>1
  <2>2. \A j \in 1..Len(r) : r[j] \notin D
    BY <1>1, <1>2
  <2>3. InAfter(x, S, q \o r, Len(q) + Len(r), A, D)
          <=> (\E j \in 1..Len(r) : r[j] \in A) \/ InAfter(x, S, q, Len(q), A, D)
    BY <1>1, <2>2, AfterConcat
  <2> QED BY <1>1, <1>2, <2>1, <2>3 DEF r
<1>3. CASE m \in D
  <2>1. l \in Nat /\ \A i \in 1..k : p[l + i] = m
    <3>1. \A i \in 1..(Len(q) + Len(r)) : (q \o r)[i] = IF i <= Len(q) THEN q[i] ELSE r[i - Len(q)]
      BY <1>1, ConcatProperties, Zenon
    <3> HIDE DEF p
    <3>2. \A i \in 1..(l + k) : p[i] = IF i <= l THEN q[i] ELSE r[i - l]
      BY <1>1, <3>1 DEF p
    <3>3. l \in Nat
      OBVIOUS
    <3> HIDE DEF l
    <3> QED BY <1>1, <3>2, <3>3
  <2> HIDE DEF p, l
  <2>2. p[l + k] = m /\ l + k \in 1..(l + k) /\ \A j \in ((l + k) + 1)..(l + k) : p[j] \notin D
    BY <2>1
  <2>3. \A i \in 1..(l + k) : i # l + k => l + k \in (i + 1)..(l + k)
    BY <2>1
  <2>4. InAfter(x, S, p, l + k, A, D) <=> m \in A
    BY <1>3, <2>2, <2>3 DEF InAfter
  <2> QED BY <1>3, <2>4 DEF p, l, r
<1> QED BY <1>2, <1>3

\* What the messages make of a larger set is larger; a message that adds x, or the effect of
\* the same messages before, leaves nothing for the set to decide.
LEMMA AfterOf ==
    ASSUME NEW q, NEW n \in Nat, NEW x, NEW S, NEW R, NEW A, NEW D
    PROVE  /\ (x \in S => x \in R) /\ InAfter(x, S, q, n, A, D) => InAfter(x, R, q, n, A, D)
           /\ (\E i \in 1..n : q[i] \in A) =>
                  (InAfter(x, S, q, n, A, D) <=> InAfter(x, R, q, n, A, D))
           /\ (x \in R <=> InAfter(x, S, q, n, A, D)) => InAfter(x, R, q, n, A, D) <=> x \in R
           /\ n = 0 => (InAfter(x, S, q, n, A, D) <=> x \in S)
<1>1. (\E i \in 1..n : q[i] \in A) =>
          (InAfter(x, S, q, n, A, D) <=> InAfter(x, R, q, n, A, D))
  <2>1. \A i \in 1..n : \A j \in (i + 1)..n : j \in 1..n
    OBVIOUS
  <2> QED BY <2>1 DEF InAfter
<1> QED BY <1>1 DEF InAfter

-----------------------------------------------------------------------------
(* What the bus still has to tell                                          *)

\* The signals that tell of the object o, and those that tell that it is gone.
Comes(o) == {m \in Signal : m.type \in {"added", "listed"} /\ m.object = o}
Goes(o) == {m \in Signal : m.type = "lost" \/ (m.type = "removed" /\ m.object = o)}

\* UDisks exports a block with its drive only, and only plugged blocks are mounted.
PlugInv == /\ mounted \subseteq plugged
           /\ \A b \in plugged \cap Blocks : DriveOf[b] \in plugged

\* The cache of the object manager client will know what is exported.
KnownInv == \A o \in Objects :
    InAfter(o, known, bus, Len(bus), Comes(o), Goes(o)) <=> o \in Exported

\* A change of hardware is posted if the service runs.
LEMMA HardwarePosted ==
    ASSUME TInv, NEW m \in Signal, HardwareChange(m), NEW x, NEW S, NEW A, NEW D
    PROVE  /\ \A n \in 0..Len(bus) : InAfter(x, S, bus', n, A, D) <=> InAfter(x, S, bus, n, A, D)
           /\ InAfter(x, S, bus', Len(bus'), A, D) <=>
                IF running THEN m \in A \/ (m \notin D /\ InAfter(x, S, bus, Len(bus), A, D))
                ELSE InAfter(x, S, bus, Len(bus), A, D)
           /\ running => Len(bus') = Len(bus) + 1 /\ bus'[Len(bus) + 1] = m
           /\ ~running => bus' = bus
           /\ \A i \in 1..Len(bus) : bus'[i] = bus[i]
           /\ Len(bus) \in Nat /\ running' = running
<1>1. bus \in Seq(Signal) /\ running \in BOOLEAN
  BY DEF TInv, Types, UDisksTypes
<1>2. CASE running
  <2>1. bus' = Append(bus, m) /\ running' = running
    BY <1>2 DEF HardwareChange
  <2>2. Len(bus') = Len(bus) + 1 /\ bus'[Len(bus) + 1] = m /\ Len(bus) \in Nat
        /\ \A i \in 1..Len(bus) : bus'[i] = bus[i]
    BY <1>1, <2>1
  <2>3. /\ \A n \in 0..Len(bus) :
              InAfter(x, S, Append(bus, m), n, A, D) <=> InAfter(x, S, bus, n, A, D)
        /\ InAfter(x, S, Append(bus, m), Len(bus) + 1, A, D)
             <=> m \in A \/ (m \notin D /\ InAfter(x, S, bus, Len(bus), A, D))
    BY <1>1, AfterAppend
  <2> QED BY <1>2, <2>1, <2>2, <2>3
<1>3. CASE ~running
  BY <1>1, <1>3 DEF HardwareChange
<1> QED BY <1>1, <1>2, <1>3

\* A sequence of all the elements of a finite set has each of them.
LEMMA SeqListsAll ==
    ASSUME NEW S, IsFiniteSet(S), NEW order \in SetToSeqs(S)
    PROVE  /\ Len(order) \in Nat /\ order \in [1..Len(order) -> S]
           /\ \A o \in S : \E i \in 1..Len(order) : order[i] = o
<1> DEFINE n == Cardinality(S)
<1>1. n \in Nat
  BY FS_CardinalityType
<1>2. order \in [1..n -> S] /\ \A i, j \in 1..n : i # j => order[i] # order[j]
  BY DEF SetToSeqs
<1>3. Cardinality(1..n) = n
  <2>1. Cardinality(1..n) = IF 1 > n THEN 0 ELSE n - 1 + 1
    <3> HIDE DEF n
    <3> QED BY <1>1, FS_Interval
  <2> QED BY <1>1, <2>1
<1>4. order \in Injection(1..n, S)
  BY <1>2 DEF Injection, IsInjective
<1>5. order \in Surjection(1..n, S)
  BY <1>3, <1>4, FS_Injection
<1>6. Len(order) = n
  BY <1>1, <1>2
<1> QED BY <1>1, <1>2, <1>5, <1>6 DEF Surjection

\* When the service starts, it lists what is plugged.
LEMMA StartPosted ==
    ASSUME TInv, ServiceStarts
    PROVE  /\ \A x, S, A, D :
                (\A o \in plugged : [type |-> "listed", object |-> o] \notin D) =>
                  /\ \A n \in 0..Len(bus) :
                        InAfter(x, S, bus', n, A, D) <=> InAfter(x, S, bus, n, A, D)
                  /\ InAfter(x, S, bus', Len(bus'), A, D) <=>
                        \/ \E o \in plugged : [type |-> "listed", object |-> o] \in A
                        \/ InAfter(x, S, bus, Len(bus), A, D)
           /\ Len(bus) \in Nat /\ \A i \in 1..Len(bus) : i \in DOMAIN bus' /\ bus'[i] = bus[i]
           /\ \A i \in DOMAIN bus' : i \in 1..Len(bus) \/ bus'[i].type = "listed"
           /\ plugged' = plugged /\ running' = TRUE /\ running = FALSE
<1>1. PICK order \in SetToSeqs(plugged) :
         bus' = bus \o [i \in DOMAIN order |-> [type |-> "listed", object |-> order[i]]]
  BY DEF ServiceStarts
<1> DEFINE n == Len(order)
           r == [i \in DOMAIN order |-> [type |-> "listed", object |-> order[i]]]
<1>2. plugged \subseteq Objects /\ bus \in Seq(Signal) /\ running \in BOOLEAN /\ Len(bus) \in Nat
  BY DEF TInv, Types, UDisksTypes
<1>3. /\ n \in Nat /\ order \in [1..n -> plugged]
      /\ \A o \in plugged : \E i \in 1..n : order[i] = o
  BY <1>2, ObjectsAre, FS_Subset, SeqListsAll
<1> HIDE DEF n
<1>4. /\ r \in Seq(Signal) /\ Len(r) = n
      /\ \A i \in 1..n : r[i] = [type |-> "listed", object |-> order[i]]
  <2>1. DOMAIN order = 1..n /\ \A i \in 1..n : order[i] \in Objects
    BY <1>2, <1>3
  <2>2. \A i \in 1..n : [type |-> "listed", object |-> order[i]] \in Signal
    BY <2>1 DEF Signal
  <2>3. r \in [1..n -> Signal]
    BY <2>1, <2>2
  <2> QED BY <1>3, <2>1, <2>3
<1> HIDE DEF r
<1>5. bus' = bus \o r
  BY <1>1 DEF r
<1>6. /\ Len(bus') = Len(bus) + n
      /\ \A i \in 1..(Len(bus) + n) : bus'[i] = IF i <= Len(bus) THEN bus[i] ELSE r[i - Len(bus)]
      /\ bus' \in Seq(Signal)
  <2>1. \A i \in 1..(Len(bus) + Len(r)) : (bus \o r)[i] = IF i <= Len(bus) THEN bus[i] ELSE r[i - Len(bus)]
    BY <1>2, <1>4, ConcatProperties, Zenon
  <2>2. bus \o r \in Seq(Signal) /\ Len(bus \o r) = Len(bus) + Len(r)
    BY <1>2, <1>4, ConcatProperties, Zenon
  <2> QED BY <1>4, <1>5, <2>1, <2>2, Zenon
<1>7. \A i \in 1..Len(bus) : i \in DOMAIN bus' /\ bus'[i] = bus[i]
  BY <1>2, <1>3, <1>6
<1>8. \A i \in DOMAIN bus' : i \in 1..Len(bus) \/ bus'[i].type = "listed"
  <2>1. ASSUME NEW i \in 1..(Len(bus) + n), i > Len(bus) PROVE i - Len(bus) \in 1..n
    BY <1>2, <1>3, <2>1
  <2>2. \A i \in 1..n : r[i].type = "listed"
    BY <1>4
  <2>3. DOMAIN bus' = 1..(Len(bus) + n)
    BY <1>6
  <2> QED BY <1>2, <1>3, <1>6, <2>1, <2>2, <2>3
<1>9. ASSUME NEW x, NEW S, NEW A, NEW D,
             \A o \in plugged : [type |-> "listed", object |-> o] \notin D
      PROVE  /\ \A k \in 0..Len(bus) : InAfter(x, S, bus', k, A, D) <=> InAfter(x, S, bus, k, A, D)
             /\ InAfter(x, S, bus', Len(bus'), A, D) <=>
                  \/ \E o \in plugged : [type |-> "listed", object |-> o] \in A
                  \/ InAfter(x, S, bus, Len(bus), A, D)
  <2>1. \A j \in 1..Len(r) : r[j] \notin D
    BY <1>3, <1>4, <1>9
  <2>2. (\E j \in 1..Len(r) : r[j] \in A) <=> \E o \in plugged : [type |-> "listed", object |-> o] \in A
    <3>1. ASSUME NEW j \in 1..n, r[j] \in A
          PROVE  \E o \in plugged : [type |-> "listed", object |-> o] \in A
      <4>1. order[j] \in plugged /\ [type |-> "listed", object |-> order[j]] \in A
        BY <1>3, <1>4, <3>1
      <4> QED BY <4>1
    <3>2. ASSUME NEW o \in plugged, [type |-> "listed", object |-> o] \in A
          PROVE  \E j \in 1..n : r[j] \in A
      <4>1. PICK j \in 1..n : order[j] = o
        BY <1>3
      <4>2. r[j] \in A
        BY <1>4, <3>2, <4>1
      <4> QED BY <4>2
    <3> QED BY <1>4, <3>1, <3>2
  <2>3. /\ \A k \in 0..Len(bus) :
              InAfter(x, S, bus \o r, k, A, D) <=> InAfter(x, S, bus, k, A, D)
        /\ InAfter(x, S, bus \o r, Len(bus) + Len(r), A, D)
             <=> (\E j \in 1..Len(r) : r[j] \in A) \/ InAfter(x, S, bus, Len(bus), A, D)
    BY <1>2, <1>4, <2>1, AfterConcat
  <2> QED BY <1>4, <1>5, <1>6, <2>2, <2>3
<1> QED BY <1>2, <1>7, <1>8, <1>9 DEF ServiceStarts

\* A signal that is taken acts on the set before those that remain.
LEMMA BusTaken ==
    ASSUME TInv, NEW type, Receive(type), NEW x, NEW S, NEW R, NEW A, NEW D,
           x \in R <=> Head(bus) \in A \/ (x \in S /\ Head(bus) \notin D)
    PROVE  /\ \A n \in 0..(Len(bus) - 1) :
                  InAfter(x, R, bus', n, A, D) <=> InAfter(x, S, bus, n + 1, A, D)
           /\ InAfter(x, R, bus', Len(bus'), A, D) <=> InAfter(x, S, bus, Len(bus), A, D)
<1>1. bus \in Seq(Signal) /\ bus # <<>> /\ bus' = Tail(bus)
  BY DEF TInv, Types, UDisksTypes, Receive
<1>2. \A n \in 0..(Len(bus) - 1) :
          InAfter(x, R, Tail(bus), n, A, D) <=> InAfter(x, S, bus, n + 1, A, D)
  BY <1>1, AfterTail
<1>3. /\ Len(bus) \in Nat /\ Len(bus) - 1 \in 0..(Len(bus) - 1)
      /\ Len(bus') = Len(bus) - 1 /\ (Len(bus) - 1) + 1 = Len(bus)
  BY <1>1
<1> QED BY <1>1, <1>2, <1>3

\* The first signal and those behind it.
LEMMA BusHead ==
    ASSUME TInv, NEW type, Receive(type)
    PROVE  /\ Head(bus) \in Signal /\ Head(bus) = bus[1] /\ Head(bus).type = type
           /\ Head(bus).object \in Objects
           /\ Len(bus) \in Nat /\ 1 \in DOMAIN bus /\ Len(bus') = Len(bus) - 1
           /\ \A i \in DOMAIN bus' : i \in Nat /\ i + 1 \in DOMAIN bus /\ bus'[i] = bus[i + 1]
           /\ \A i \in DOMAIN bus : i = 1 \/ (i - 1 \in DOMAIN bus' /\ bus'[i - 1] = bus[i])
<1>1. bus \in Seq(Signal) /\ bus # <<>> /\ bus' = Tail(bus) /\ Head(bus).type = type
  BY DEF TInv, Types, UDisksTypes, Receive
<1>2. /\ Len(bus) \in Nat /\ DOMAIN bus = 1..Len(bus) /\ DOMAIN bus' = 1..(Len(bus) - 1)
      /\ Len(bus') = Len(bus) - 1 /\ Len(bus) >= 1
      /\ \A i \in 1..(Len(bus) - 1) : bus'[i] = bus[i + 1]
      /\ Head(bus) = bus[1] /\ Head(bus) \in Signal
  BY <1>1
<1>3. \A i \in 1..(Len(bus) - 1) : i \in Nat /\ i + 1 \in 1..Len(bus)
  BY <1>2
<1>4. \A i \in 1..Len(bus) : i = 1 \/ (i - 1 \in 1..(Len(bus) - 1) /\ (i - 1) + 1 = i)
  BY <1>2
<1>5. 1 \in 1..Len(bus)
  BY <1>2
<1>6. \A i \in 1..Len(bus) : i = 1 \/ (i - 1 \in 1..(Len(bus) - 1) /\ bus'[i - 1] = bus[i])
  BY <1>2, <1>4
<1>7. Head(bus).object \in Objects
  BY <1>2 DEF Signal
<1> QED BY <1>1, <1>2, <1>3, <1>5, <1>6, <1>7

\* PlugInv survives every step.
LEMMA PlugPreserved == ASSUME TInv, PlugInv, [Next]_vars PROVE PlugInv'
<1>1. CASE UNCHANGED <<plugged, mounted>>
  BY <1>1 DEF PlugInv
<1>2. ASSUME NEW o \in Objects, Plug(o) PROVE PlugInv'
  BY <1>2 DEF Plug, PlugInv
<1>3. ASSUME NEW o \in Objects, Unplug(o) PROVE PlugInv'
  <2>1. ASSUME NEW b \in plugged' \cap Blocks PROVE DriveOf[b] \in plugged'
    BY <1>3, <2>1, ObjectsAre DEF Unplug, PlugInv, BlocksOf
  <2>2. mounted' \subseteq plugged'
    BY <1>3 DEF Unplug, PlugInv
  <2> QED BY <2>1, <2>2 DEF PlugInv
<1>4. ASSUME NEW b \in Blocks, Mount(b) \/ Unmount(b) PROVE PlugInv'
  BY <1>4 DEF Mount, Unmount, PlugInv
<1>5. CASE ServiceExits \/ ServiceStarts
  BY <1>1, <1>5 DEF ServiceExits, ServiceStarts
<1>6. CASE Client \/ MountTimeout \/ OnServiceOwnerChanged
  BY <1>1, <1>6 DEF Client, StartMonitor, StopMonitor, ResolveDeviceOfDrive, MountTimeout,
                    OnServiceOwnerChanged, udisksVars
<1>7. CASE Deliver
  BY <1>1, <1>7 DEF Deliver, OnObjectAdded, OnObjectRemoved, OnServiceLost, OnObjectsRemoved,
                    OnMountPointsChanged, Delivered, udisksVars
<1>8. CASE UNCHANGED vars
  BY <1>1, <1>8 DEF vars, udisksVars
<1> QED BY <1>2, <1>3, <1>4, <1>5, <1>6, <1>7, <1>8 DEF Next, UDisks

\* What each kind of signal means for an object.
LEMMA ComesGoes ==
    ASSUME NEW m \in Signal, NEW p
    PROVE  /\ m \in Comes(p) <=> m.type \in {"added", "listed"} /\ m.object = p
           /\ m \in Goes(p) <=> m.type = "lost" \/ (m.type = "removed" /\ m.object = p)
BY DEF Comes, Goes

\* The signals that UDisks posts are signals.
LEMMA Posts ==
    /\ \A o \in Objects, t \in {"added", "listed", "removed"} : [type |-> t, object |-> o] \in Signal
    /\ \A b \in Blocks, t \in {"mounted", "unmounted"} : [type |-> t, object |-> b] \in Signal
    /\ [type |-> "lost", object |-> CHOOSE o \in Objects : TRUE] \in Signal
BY ObjectsAre DEF Signal

\* When the service exits, that is the last signal.
LEMMA ExitPosted ==
    ASSUME TInv, ServiceExits, NEW x, NEW S, NEW A, NEW D
    PROVE  /\ \A n \in 0..Len(bus) : InAfter(x, S, bus', n, A, D) <=> InAfter(x, S, bus, n, A, D)
           /\ (\A m \in Signal : m.type = "lost" => m \in D /\ m \notin A) =>
                  ~InAfter(x, S, bus', Len(bus'), A, D)
           /\ Len(bus) \in Nat /\ Len(bus') = Len(bus) + 1 /\ bus'[Len(bus) + 1].type = "lost"
           /\ \A i \in 1..Len(bus) : bus'[i] = bus[i]
           /\ DOMAIN bus' = 1..(Len(bus) + 1)
<1> DEFINE m == [type |-> "lost", object |-> CHOOSE o \in Objects : TRUE]
<1>1. m \in Signal /\ m.type = "lost"
  BY Posts
<1>2. bus' = Append(bus, m) /\ bus \in Seq(Signal)
  BY DEF ServiceExits, TInv, Types, UDisksTypes
<1> HIDE DEF m
<1>3. /\ Len(bus) \in Nat /\ Len(bus') = Len(bus) + 1 /\ bus'[Len(bus) + 1] = m
      /\ \A i \in 1..Len(bus) : bus'[i] = bus[i]
      /\ DOMAIN bus' = 1..(Len(bus) + 1)
  BY <1>1, <1>2
<1>4. /\ \A n \in 0..Len(bus) :
            InAfter(x, S, Append(bus, m), n, A, D) <=> InAfter(x, S, bus, n, A, D)
      /\ InAfter(x, S, Append(bus, m), Len(bus) + 1, A, D)
           <=> m \in A \/ (m \notin D /\ InAfter(x, S, bus, Len(bus), A, D))
  BY <1>1, <1>2, AfterAppend
<1>5. InAfter(x, S, bus', Len(bus'), A, D) => m \in A \/ m \notin D
  BY <1>2, <1>3, <1>4
<1> QED BY <1>1, <1>2, <1>3, <1>4, <1>5

\* UDisks posts what a set that its signals bring up to date needs.
LEMMA UDisksTells ==
    ASSUME TInv, UDisks, NEW p \in Objects, NEW S,
           InAfter(p, S, bus, Len(bus), Comes(p), Goes(p)) <=> p \in Exported
    PROVE  InAfter(p, S, bus', Len(bus'), Comes(p), Goes(p)) <=> p \in Exported'
<1> DEFINE Knows == InAfter(p, S, bus, Len(bus), Comes(p), Goes(p))
           KnowsNext == InAfter(p, S, bus', Len(bus'), Comes(p), Goes(p))
<1>0. Knows <=> p \in Exported
  OBVIOUS
<1> SUFFICES KnowsNext <=> p \in Exported'
  OBVIOUS
<1>1. running \in BOOLEAN
  BY DEF TInv, Types, UDisksTypes
<1>3. ASSUME NEW m \in Signal, HardwareChange(m)
      PROVE  KnowsNext <=> IF running THEN m \in Comes(p) \/ (m \notin Goes(p) /\ Knows)
                              ELSE Knows
  BY <1>3, HardwarePosted
<1>4. ASSUME NEW o \in Objects, Plug(o) PROVE KnowsNext <=> p \in Exported'
  <2> DEFINE m == [type |-> "added", object |-> o]
  <2>1. m \in Signal /\ m.type = "added" /\ m.object = o
    BY Posts
  <2>2. HardwareChange(m) /\ plugged' = plugged \cup {o} /\ running' = running
    BY <1>4 DEF Plug, HardwareChange
  <2> HIDE DEF m, Knows, KnowsNext
  <2>3. (m \in Comes(p) <=> p = o) /\ m \notin Goes(p)
    BY <2>1, ComesGoes
  <2> QED BY <1>0, <1>1, <1>3, <2>1, <2>2, <2>3 DEF Exported
<1>5. ASSUME NEW o \in Objects, Unplug(o) PROVE KnowsNext <=> p \in Exported'
  <2> DEFINE m == [type |-> "removed", object |-> o]
  <2>1. m \in Signal /\ m.type = "removed" /\ m.object = o
    BY Posts
  <2>2. HardwareChange(m) /\ plugged' = plugged \ {o} /\ running' = running
    BY <1>5 DEF Unplug, HardwareChange
  <2> HIDE DEF m, Knows, KnowsNext
  <2>3. (m \in Goes(p) <=> p = o) /\ m \notin Comes(p)
    BY <2>1, ComesGoes
  <2> QED BY <1>0, <1>1, <1>3, <2>1, <2>2, <2>3 DEF Exported
<1>6. ASSUME NEW b \in Blocks, Mount(b) \/ Unmount(b) PROVE KnowsNext <=> p \in Exported'
  <2> DEFINE m(t) == [type |-> t, object |-> b]
  <2>1. PICK t \in {"mounted", "unmounted"} : HardwareChange(m(t))
    BY <1>6 DEF Mount, Unmount
  <2>2. m(t) \in Signal /\ m(t).type = t
    BY Posts
  <2>3. plugged' = plugged /\ running' = running
    BY <1>6 DEF Mount, Unmount, HardwareChange
  <2> HIDE DEF m, Knows, KnowsNext
  <2>4. m(t) \notin Comes(p) /\ m(t) \notin Goes(p)
    BY <2>2, ComesGoes
  <2> QED BY <1>0, <1>1, <1>3, <2>1, <2>2, <2>3, <2>4 DEF Exported
<1>7. CASE ServiceExits
  <2>1. running' = FALSE
    BY <1>7 DEF ServiceExits
  <2>2. \A m \in Signal : m.type = "lost" => m \in Goes(p) /\ m \notin Comes(p)
    BY ComesGoes
  <2> QED BY <1>7, <2>1, <2>2, ExitPosted DEF Exported
<1>8. CASE ServiceStarts
  <2>1. \A o \in plugged : [type |-> "listed", object |-> o] \in Signal
    BY Posts DEF TInv, Types, UDisksTypes
  <2>2. \A o \in plugged : [type |-> "listed", object |-> o] \notin Goes(p)
    BY <2>1, ComesGoes
  <2>3. \A o \in plugged : [type |-> "listed", object |-> o] \in Comes(p) <=> p = o
    BY <2>1, ComesGoes
  <2>4. /\ KnowsNext <=> (\E o \in plugged : [type |-> "listed", object |-> o] \in Comes(p)) \/ Knows
        /\ plugged' = plugged /\ running' = TRUE /\ running = FALSE
    BY <1>8, <2>2, StartPosted
  <2>5. ~Knows
    BY <1>0, <2>4 DEF Exported
  <2> HIDE DEF Knows, KnowsNext
  <2> QED BY <2>3, <2>4, <2>5 DEF Exported
<1> HIDE DEF KnowsNext
<1> QED BY <1>4, <1>5, <1>6, <1>7, <1>8 DEF UDisks

\* A delivery brings the cache up to date with its signal.
LEMMA KnownDelivered ==
    ASSUME TInv, Deliver, NEW p \in Objects
    PROVE  \E type : /\ Receive(type) /\ Delivered
                     /\ p \in known' <=> Head(bus) \in Comes(p) \/ (p \in known /\ Head(bus) \notin Goes(p))
<1>1. ASSUME NEW type \in {"added", "listed"}, OnObjectAdded(type)
      PROVE  /\ Receive(type) /\ Delivered
             /\ p \in known' <=> Head(bus) \in Comes(p) \/ (p \in known /\ Head(bus) \notin Goes(p))
  <2>1. Receive(type) /\ Delivered /\ known' = known \cup {Head(bus).object}
    BY <1>1 DEF OnObjectAdded
  <2>2. Head(bus) \in Signal /\ Head(bus).type = type
    BY <2>1, BusHead
  <2> QED BY <2>1, <2>2, ComesGoes
<1>2. CASE OnObjectRemoved
  <2>1. Receive("removed") /\ Delivered /\ known' = known \ {Head(bus).object}
    BY <1>2 DEF OnObjectRemoved, OnObjectsRemoved
  <2>2. Head(bus) \in Signal /\ Head(bus).type = "removed"
    BY <2>1, BusHead
  <2>3. p \in known' <=> Head(bus) \in Comes(p) \/ (p \in known /\ Head(bus) \notin Goes(p))
    BY <2>1, <2>2, ComesGoes
  <2> QED BY <2>1, <2>3
<1>3. CASE OnServiceLost
  <2>1. Receive("lost") /\ Delivered /\ known' = {}
    BY <1>3 DEF OnServiceLost, OnObjectsRemoved
  <2>2. Head(bus) \in Signal /\ Head(bus).type = "lost"
    BY <2>1, BusHead
  <2>3. p \in known' <=> Head(bus) \in Comes(p) \/ (p \in known /\ Head(bus) \notin Goes(p))
    BY <2>1, <2>2, ComesGoes
  <2> QED BY <2>1, <2>3
<1>4. ASSUME NEW type \in {"mounted", "unmounted"}, OnMountPointsChanged(type)
      PROVE  /\ Receive(type) /\ Delivered
             /\ p \in known' <=> Head(bus) \in Comes(p) \/ (p \in known /\ Head(bus) \notin Goes(p))
  <2>1. Receive(type) /\ Delivered /\ known' = known
    BY <1>4 DEF OnMountPointsChanged
  <2>2. Head(bus) \in Signal /\ Head(bus).type = type
    BY <2>1, BusHead
  <2> QED BY <2>1, <2>2, ComesGoes
<1> QED BY <1>1, <1>2, <1>3, <1>4 DEF Deliver

\* KnownInv survives every step: the cache is brought up to date by the signals alone.
LEMMA KnownPreserved == ASSUME TInv, KnownInv, [Next]_vars PROVE KnownInv'
<1> DEFINE Knows(p) == InAfter(p, known, bus, Len(bus), Comes(p), Goes(p))
           KnowsNext(p) == InAfter(p, known', bus', Len(bus'), Comes(p), Goes(p))
<1>0. \A p \in Objects : Knows(p) <=> p \in Exported
  BY DEF KnownInv
<1> SUFFICES ASSUME NEW p \in Objects PROVE KnowsNext(p) <=> p \in Exported'
  BY DEF KnownInv
<1>1. CASE UDisks
  <2>1. known' = known
    BY <1>1 DEF UDisks, Plug, Unplug, Mount, Unmount, HardwareChange, ServiceExits, ServiceStarts
  <2> QED BY <1>0, <1>1, <2>1, UDisksTells
<1>2. CASE UNCHANGED <<bus, known, running, plugged>>
  BY <1>0, <1>2 DEF Exported
<1>3. CASE Deliver
  <2>1. PICK type :
           /\ Receive(type) /\ Delivered
           /\ p \in known' <=> Head(bus) \in Comes(p) \/ (p \in known /\ Head(bus) \notin Goes(p))
    BY <1>3, KnownDelivered
  <2>2. KnowsNext(p) <=> Knows(p)
    BY <2>1, BusTaken
  <2>3. plugged' = plugged /\ running' = running
    BY <2>1 DEF Delivered, udisksVars
  <2> HIDE DEF Knows, KnowsNext
  <2> QED BY <1>0, <2>2, <2>3 DEF Exported
<1>4. CASE Client \/ MountTimeout \/ OnServiceOwnerChanged \/ UNCHANGED vars
  BY <1>2, <1>4 DEF Client, StartMonitor, StopMonitor, ResolveDeviceOfDrive, MountTimeout,
                    OnServiceOwnerChanged, vars, udisksVars
<1> HIDE DEF KnowsNext
<1> QED BY <1>1, <1>3, <1>4 DEF Next

\* What UDisks leaves alone: the signals that wait, and everything of the client.
LEMMA UDisksOnlyPosts ==
    ASSUME TInv, UDisks
    PROVE  /\ Len(bus) \in Nat /\ \A i \in 1..Len(bus) : i \in 1..Len(bus') /\ bus'[i] = bus[i]
           /\ UNCHANGED <<known, monitorVars, blksOfDrive, mountTimers, clientVars, faithful, turns>>
<1>1. bus \in Seq(Signal) /\ Len(bus) \in Nat
  BY DEF TInv, Types, UDisksTypes
<1>2. ASSUME NEW m \in Signal, HardwareChange(m)
      PROVE  \A i \in 1..Len(bus) : i \in 1..Len(bus') /\ bus'[i] = bus[i]
  <2>1. Len(bus') \in Nat /\ Len(bus') >= Len(bus) /\ \A i \in 1..Len(bus) : bus'[i] = bus[i]
    <3>1. CASE running
      BY <1>1, <1>2, <3>1 DEF HardwareChange
    <3>2. CASE ~running
      BY <1>1, <1>2, <3>2 DEF HardwareChange
    <3> QED BY <3>1, <3>2
  <2> QED BY <1>1, <2>1
<1>3. CASE \/ \E o \in Objects : Plug(o) \/ Unplug(o)
           \/ \E b \in Blocks : Mount(b) \/ Unmount(b)
  <2>1. PICK m \in Signal : HardwareChange(m)
    BY <1>3, Posts DEF Plug, Unplug, Mount, Unmount
  <2> QED BY <1>1, <1>2, <2>1 DEF HardwareChange
<1>4. CASE ServiceExits
  <2>1. Len(bus') = Len(bus) + 1 /\ \A i \in 1..Len(bus) : bus'[i] = bus[i]
    BY <1>4, ExitPosted
  <2> QED BY <1>1, <1>4, <2>1 DEF ServiceExits
<1>5. CASE ServiceStarts
  <2>1. \A i \in 1..Len(bus) : i \in DOMAIN bus' /\ bus'[i] = bus[i]
    BY <1>5, StartPosted
  <2>2. bus' \in Seq(Signal)
    BY UDisksKeepsTypes DEF TInv, Types, UDisksTypes
  <2> QED BY <1>1, <1>5, <2>1, <2>2 DEF ServiceStarts
<1> QED BY <1>3, <1>4, <1>5 DEF UDisks

-----------------------------------------------------------------------------
(* The order of the signals                                                *)

\* The signals that a block's drive comes or goes, and those about its mount.
OfDrive(b) == {m \in Signal : m.type \in {"added", "removed"} /\ m.object = DriveOf[b]}
OfMount(b) == {m \in Signal : m.type \in {"mounted", "unmounted"} /\ m.object = b}

\* A drive comes and goes without its blocks, and a block is mounted while it is there:
\* what the cache knows of it when such a signal's turn comes.
SignalOrder == \A b \in Blocks, i \in 1..Len(bus) :
    /\ bus[i] \in OfDrive(b) => ~InAfter(b, known, bus, i - 1, Comes(b), Goes(b))
    /\ bus[i] \in OfMount(b) => InAfter(b, known, bus, i - 1, Comes(b), Goes(b))

\* SignalOrder survives every step: a signal is posted when UDisks' own state says so.
LEMMA OrderPreserved ==
    ASSUME TInv, PlugInv, KnownInv, SignalOrder, [Next]_vars
    PROVE  SignalOrder'
<1> DEFINE Knew(b, n) == InAfter(b, known, bus, n, Comes(b), Goes(b))
           KnewNext(b, n) == InAfter(b, known', bus', n, Comes(b), Goes(b))
           Ordered(b, i) == /\ bus'[i] \in OfDrive(b) => ~KnewNext(b, i - 1)
                            /\ bus'[i] \in OfMount(b) => KnewNext(b, i - 1)
<1>0. /\ Len(bus) \in Nat /\ Len(bus') \in Nat /\ running \in BOOLEAN
      /\ DOMAIN bus = 1..Len(bus) /\ DOMAIN bus' = 1..Len(bus')
  <2>1. bus \in Seq(Signal) /\ bus' \in Seq(Signal) /\ running \in BOOLEAN
    BY NextTypes DEF TInv, Types, UDisksTypes
  <2> QED BY <2>1
<1>1. ASSUME NEW b \in Blocks, NEW i \in 1..Len(bus)
      PROVE  /\ bus[i] \in OfDrive(b) => ~Knew(b, i - 1)
             /\ bus[i] \in OfMount(b) => Knew(b, i - 1)
  BY DEF SignalOrder
<1> SUFFICES ASSUME NEW b \in Blocks, NEW i \in 1..Len(bus') PROVE Ordered(b, i)
  BY DEF SignalOrder
<1> HIDE DEF Knew, KnewNext
<1>2. ASSUME i \in 1..Len(bus), bus'[i] = bus[i], \A n \in 0..Len(bus) : KnewNext(b, n) <=> Knew(b, n)
      PROVE  Ordered(b, i)
  <2>1. i - 1 \in 0..Len(bus)
    BY <1>0, <1>2
  <2> QED BY <1>1, <1>2, <2>1
<1>3. ASSUME NEW m \in Signal, HardwareChange(m),
             running /\ m \in OfDrive(b) => b \notin Exported,
             running /\ m \in OfMount(b) => b \in Exported
      PROVE  Ordered(b, i)
  <2>1. known' = known
    BY <1>3 DEF HardwareChange
  <2>2. /\ \A n \in 0..Len(bus) : InAfter(b, known, bus', n, Comes(b), Goes(b))
                                    <=> InAfter(b, known, bus, n, Comes(b), Goes(b))
        /\ running => Len(bus') = Len(bus) + 1 /\ bus'[Len(bus) + 1] = m
        /\ ~running => bus' = bus
        /\ \A j \in 1..Len(bus) : bus'[j] = bus[j]
    BY <1>3, HardwarePosted
  <2>3. \A n \in 0..Len(bus) : KnewNext(b, n) <=> Knew(b, n)
    BY <2>1, <2>2 DEF Knew, KnewNext
  <2>4. CASE i \in 1..Len(bus)
    BY <1>2, <2>2, <2>3, <2>4
  <2>5. CASE i \notin 1..Len(bus)
    <3>1. running
      BY <1>0, <2>2, <2>5
    <3>2. Len(bus') = Len(bus) + 1
      BY <2>2, <3>1
    <3>3. i = Len(bus) + 1 /\ i - 1 = Len(bus) /\ Len(bus) \in 0..Len(bus)
      BY <1>0, <2>5, <3>2
    <3>4. b \in Objects
      BY ObjectsAre
    <3>5. Knew(b, Len(bus)) <=> b \in Exported
      BY <3>4 DEF KnownInv, Knew
    <3>6. bus'[i] = m
      BY <2>2, <3>1, <3>3
    <3>7. KnewNext(b, i - 1) <=> b \in Exported
      BY <2>3, <3>3, <3>5
    <3> QED BY <1>3, <3>1, <3>6, <3>7
  <2> QED BY <2>4, <2>5
<1>4. ASSUME NEW o \in Objects, Plug(o) PROVE Ordered(b, i)
  <2> DEFINE m == [type |-> "added", object |-> o]
  <2>1. m \in Signal /\ m.type = "added" /\ m.object = o
    BY Posts
  <2>2. o \notin plugged /\ HardwareChange(m)
    BY <1>4 DEF Plug
  <2> HIDE DEF m, Ordered
  <2>3. m \notin OfMount(b) /\ (m \in OfDrive(b) => o = DriveOf[b])
    BY <2>1 DEF OfMount, OfDrive
  <2>4. o = DriveOf[b] => b \notin plugged
    BY <2>2 DEF PlugInv
  <2> QED BY <1>3, <2>1, <2>2, <2>3, <2>4 DEF Exported
<1>5. ASSUME NEW o \in Objects, Unplug(o) PROVE Ordered(b, i)
  <2> DEFINE m == [type |-> "removed", object |-> o]
  <2>1. m \in Signal /\ m.type = "removed" /\ m.object = o
    BY Posts
  <2>2. HardwareChange(m) /\ (o \in Drives => BlocksOf(o, plugged) = {})
    BY <1>5 DEF Unplug
  <2> HIDE DEF m, Ordered
  <2>3. m \notin OfMount(b) /\ (m \in OfDrive(b) => o = DriveOf[b])
    BY <2>1 DEF OfMount, OfDrive
  <2>4. o = DriveOf[b] => b \notin plugged
    BY <2>2, ObjectsAre DEF BlocksOf
  <2> QED BY <1>3, <2>1, <2>2, <2>3, <2>4 DEF Exported
<1>6. ASSUME NEW c \in Blocks, Mount(c) \/ Unmount(c) PROVE Ordered(b, i)
  <2>1. PICK t \in {"mounted", "unmounted"} : HardwareChange([type |-> t, object |-> c])
    BY <1>6 DEF Mount, Unmount
  <2> DEFINE m == [type |-> t, object |-> c]
  <2>2. m \in Signal /\ m.type = t /\ m.object = c
    BY Posts
  <2>3. HardwareChange(m) /\ c \in plugged
    BY <1>6, <2>1 DEF Mount, Unmount, PlugInv
  <2> HIDE DEF m, Ordered
  <2>4. m \notin OfDrive(b) /\ (m \in OfMount(b) => c = b)
    BY <2>2 DEF OfMount, OfDrive
  <2> QED BY <1>3, <2>2, <2>3, <2>4 DEF Exported
<1>7. CASE ServiceExits
  <2>1. /\ \A n \in 0..Len(bus) : InAfter(b, known, bus', n, Comes(b), Goes(b))
                                    <=> InAfter(b, known, bus, n, Comes(b), Goes(b))
        /\ bus'[Len(bus) + 1].type = "lost" /\ DOMAIN bus' = 1..(Len(bus) + 1)
        /\ \A j \in 1..Len(bus) : bus'[j] = bus[j]
    BY <1>7, ExitPosted
  <2>2. known' = known
    BY <1>7 DEF ServiceExits
  <2>3. \A n \in 0..Len(bus) : KnewNext(b, n) <=> Knew(b, n)
    BY <2>1, <2>2 DEF Knew, KnewNext
  <2>4. i \in 1..Len(bus) \/ bus'[i].type = "lost"
    BY <1>0, <2>1
  <2> QED BY <1>2, <2>1, <2>3, <2>4 DEF OfDrive, OfMount
<1>8. CASE ServiceStarts
  <2>1. \A o \in plugged : [type |-> "listed", object |-> o] \in Signal
    BY Posts DEF TInv, Types, UDisksTypes
  <2>2. \A o \in plugged : [type |-> "listed", object |-> o] \notin Goes(b)
    BY <2>1, ComesGoes
  <2>3. \A n \in 0..Len(bus) : InAfter(b, known, bus', n, Comes(b), Goes(b))
                                    <=> InAfter(b, known, bus, n, Comes(b), Goes(b))
    BY <1>8, <2>2, StartPosted
  <2>4. known' = known
    BY <1>8 DEF ServiceStarts
  <2>5. \A n \in 0..Len(bus) : KnewNext(b, n) <=> Knew(b, n)
    BY <2>3, <2>4 DEF Knew, KnewNext
  <2>6. (i \in 1..Len(bus) \/ bus'[i].type = "listed") /\ \A j \in 1..Len(bus) : bus'[j] = bus[j]
    BY <1>0, <1>8, StartPosted
  <2> QED BY <1>2, <2>5, <2>6 DEF OfDrive, OfMount
<1>9. CASE Deliver
  <2>1. PICK type : /\ Receive(type)
                    /\ b \in known' <=> Head(bus) \in Comes(b) \/ (b \in known /\ Head(bus) \notin Goes(b))
    BY <1>9, KnownDelivered, ObjectsAre
  <2>2. i + 1 \in 1..Len(bus) /\ bus'[i] = bus[i + 1] /\ Len(bus') = Len(bus) - 1
    BY <1>0, <2>1, BusHead
  <2>3. i - 1 \in 0..(Len(bus) - 1) /\ (i - 1) + 1 = i /\ (i + 1) - 1 = i
    BY <1>0, <2>2
  <2>4. \A n \in 0..(Len(bus) - 1) : KnewNext(b, n) <=> Knew(b, n + 1)
    BY <2>1, BusTaken DEF Knew, KnewNext
  <2>5. KnewNext(b, i - 1) <=> Knew(b, i)
    BY <2>3, <2>4
  <2>6. /\ bus[i + 1] \in OfDrive(b) => ~Knew(b, (i + 1) - 1)
        /\ bus[i + 1] \in OfMount(b) => Knew(b, (i + 1) - 1)
    BY <1>1, <2>2
  <2> QED BY <2>2, <2>3, <2>5, <2>6
<1>10. CASE Client \/ MountTimeout \/ OnServiceOwnerChanged \/ UNCHANGED vars
  <2>1. bus' = bus /\ known' = known
    BY <1>10 DEF Client, StartMonitor, StopMonitor, ResolveDeviceOfDrive, MountTimeout,
                 OnServiceOwnerChanged, vars
  <2> QED BY <1>2, <2>1 DEF Knew, KnewNext
<1> HIDE DEF Ordered
<1> QED BY <1>4, <1>5, <1>6, <1>7, <1>8, <1>9, <1>10 DEF Next, UDisks

-----------------------------------------------------------------------------
(* The client's devices                                                    *)

\* A client that is told of every signal.
Listens == ~missed /\ monitorStatus = "monitoring"

\* Its devices will be what is exported, and one that the cache does not know yet
\* is still to be announced: getDevices() was ahead of the bus.
ViewInv == Listens => \A b \in Blocks :
    InAfter(b, view, bus, Len(bus), Comes(b), Goes(b)) <=> b \in Exported
AheadInv == Listens => \A b \in view \ known : \E i \in 1..Len(bus) : bus[i] \in Comes(b)

\* The two survive every step.
LEMMA ViewPreserved ==
    ASSUME TInv, KnownInv, ViewInv, AheadInv, [Next]_vars
    PROVE  ViewInv' /\ AheadInv'
<1> DEFINE Sees(b) == InAfter(b, view, bus, Len(bus), Comes(b), Goes(b))
           SeesNext(b) == InAfter(b, view', bus', Len(bus'), Comes(b), Goes(b))
           Due(b) == \E i \in 1..Len(bus) : bus[i] \in Comes(b)
           DueNext(b) == \E i \in 1..Len(bus') : bus'[i] \in Comes(b)
           Right(b) == /\ SeesNext(b) <=> b \in Exported'
                       /\ b \in view' \ known' => DueNext(b)
<1>0. /\ Listens => \A b \in Blocks : Sees(b) <=> b \in Exported
      /\ Listens => \A b \in view \ known : Due(b)
      /\ view' \subseteq Blocks /\ view \subseteq Blocks /\ known \subseteq Objects
      /\ missed \in BOOLEAN /\ missed' \in BOOLEAN
      /\ bus' \in Seq(Signal) /\ bus \in Seq(Signal)
  BY NextTypes DEF ViewInv, AheadInv, TInv, Types, UDisksTypes, ClientTypes, turns
<1> SUFFICES ASSUME Listens', NEW b \in Blocks PROVE Right(b)
  BY <1>0 DEF ViewInv, AheadInv
<1>1. b \in Objects
  BY ObjectsAre
<1>2. CASE UDisks
  <2>1. /\ view' = view /\ known' = known /\ Listens
        /\ \A i \in 1..Len(bus) : i \in 1..Len(bus') /\ bus'[i] = bus[i]
    BY <1>2, UDisksOnlyPosts DEF Listens, monitorVars, clientVars
  <2>2. Sees(b) <=> b \in Exported
    BY <1>0, <2>1
  <2>3. InAfter(b, view, bus', Len(bus'), Comes(b), Goes(b)) <=> b \in Exported'
    BY <1>1, <1>2, <2>2, UDisksTells
  <2>4. SeesNext(b) <=> b \in Exported'
    BY <2>1, <2>3
  <2>5. b \in view \ known => DueNext(b)
    BY <1>0, <2>1
  <2> QED BY <2>1, <2>4, <2>5
<1>3. CASE StartMonitor
  <2>1. view' = Exported \cap Blocks /\ bus' = bus /\ known' = known /\ Exported' = Exported
    BY <1>3 DEF StartMonitor, Exported, udisksVars
  <2>2. InAfter(b, known, bus, Len(bus), Comes(b), Goes(b)) <=> b \in Exported
    BY <1>1 DEF KnownInv
  <2>3. Len(bus) \in Nat /\ (b \in view' <=> InAfter(b, known, bus, Len(bus), Comes(b), Goes(b)))
    BY <1>0, <2>1, <2>2
  <2>4. InAfter(b, view', bus, Len(bus), Comes(b), Goes(b)) <=> b \in view'
    BY <2>3, AfterOf
  <2>5. b \in view' \ known => Due(b)
    BY <2>3 DEF InAfter
  <2> QED BY <2>1, <2>4, <2>5
<1>4. CASE \/ StopMonitor \/ ResolveDeviceOfDrive \/ MountTimeout \/ OnServiceOwnerChanged
           \/ UNCHANGED vars
  <2>1. ~StopMonitor
    BY DEF Listens, StopMonitor
  <2>2. UNCHANGED <<missed, monitorStatus, view, bus, known, running, plugged>>
    BY <1>4, <2>1 DEF ResolveDeviceOfDrive, MountTimeout, OnServiceOwnerChanged, vars, udisksVars,
                      monitorVars, clientVars
  <2>3. Listens
    BY <2>2 DEF Listens
  <2>4. (Sees(b) <=> b \in Exported) /\ (b \in view \ known => Due(b))
    BY <1>0, <2>3
  <2> QED BY <2>2, <2>4 DEF Exported
<1>5. ASSUME NEW type, Receive(type), Delivered, Listens, b \in view \ known, type \notin {"added", "listed"}
      PROVE  DueNext(b)
  <2>1. PICK i \in 1..Len(bus) : bus[i] \in Comes(b)
    BY <1>0, <1>5
  <2>2. i # 1
    BY <1>5, <2>1, BusHead DEF Comes
  <2>3. DOMAIN bus = 1..Len(bus) /\ DOMAIN bus' = 1..Len(bus')
    BY <1>0
  <2>4. i - 1 \in 1..Len(bus') /\ bus'[i - 1] = bus[i]
    BY <1>5, <2>2, <2>3, BusHead
  <2> QED BY <2>1, <2>4
<1>6. ASSUME NEW type \in {"added", "listed"}, OnObjectAdded(type) PROVE Right(b)
  <2> DEFINE o == Head(bus).object
  <2>1. /\ Receive(type) /\ Delivered /\ known' = known \cup {o}
        /\ view' = view \cup ({o} \cap Blocks) /\ Listens
    BY <1>6 DEF OnObjectAdded, Unheard, Listens, Delivered, monitorVars
  <2>2. Head(bus) \in Signal /\ Head(bus).type = type
    BY <2>1, BusHead
  <2>3. (Head(bus) \in Comes(b) <=> o = b) /\ Head(bus) \notin Goes(b)
    BY <2>2, ComesGoes
  <2> HIDE DEF o
  <2>4. b \in view' <=> Head(bus) \in Comes(b) \/ (b \in view /\ Head(bus) \notin Goes(b))
    BY <2>1, <2>3
  <2>5. SeesNext(b) <=> Sees(b)
    BY <2>1, <2>4, BusTaken
  <2>6. Exported' = Exported
    BY <2>1 DEF Delivered, Exported, udisksVars
  <2>7. ASSUME b \in view' \ known' PROVE DueNext(b)
    <3>1. b \in view \ known /\ o # b
      BY <2>1, <2>7
    <3>2. PICK i \in 1..Len(bus) : bus[i] \in Comes(b)
      BY <1>0, <2>1, <3>1
    <3>3. i # 1
      BY <2>1, <2>3, <3>1, <3>2, BusHead
    <3>4. DOMAIN bus = 1..Len(bus) /\ DOMAIN bus' = 1..Len(bus')
      BY <1>0
    <3>5. i - 1 \in 1..Len(bus') /\ bus'[i - 1] = bus[i]
      BY <2>1, <3>3, <3>4, BusHead
    <3> QED BY <3>2, <3>5
  <2>8. Sees(b) <=> b \in Exported
    BY <1>0, <2>1
  <2> HIDE DEF Sees, SeesNext, DueNext
  <2> QED BY <2>5, <2>6, <2>7, <2>8
<1>7. CASE OnObjectRemoved
  <2> DEFINE o == Head(bus).object
  <2>1. /\ Receive("removed") /\ Delivered /\ known' = known \ {o} /\ view' = view \ {o} /\ Listens
    BY <1>7 DEF OnObjectRemoved, OnObjectsRemoved, Unheard, Listens, Delivered, monitorVars
  <2>2. Head(bus) \in Signal /\ Head(bus).type = "removed"
    BY <2>1, BusHead
  <2>3. (Head(bus) \in Goes(b) <=> o = b) /\ Head(bus) \notin Comes(b)
    BY <2>2, ComesGoes
  <2> HIDE DEF o
  <2>4. b \in view' <=> Head(bus) \in Comes(b) \/ (b \in view /\ Head(bus) \notin Goes(b))
    BY <2>1, <2>3
  <2>5. SeesNext(b) <=> Sees(b)
    BY <2>1, <2>4, BusTaken
  <2>6. Exported' = Exported
    BY <2>1 DEF Delivered, Exported, udisksVars
  <2>7. b \in view' \ known' => DueNext(b)
    <3>1. b \in view' \ known' => b \in view \ known
      BY <2>1
    <3> HIDE DEF DueNext
    <3> QED BY <1>5, <2>1, <3>1
  <2>8. Sees(b) <=> b \in Exported
    BY <1>0, <2>1
  <2> HIDE DEF Sees, SeesNext, DueNext
  <2> QED BY <2>5, <2>6, <2>7, <2>8
<1>8. CASE OnServiceLost
  <2>1. /\ Receive("lost") /\ Delivered /\ known' = {} /\ view' = view \ known /\ Listens
    BY <1>8 DEF OnServiceLost, OnObjectsRemoved, Unheard, Listens, Delivered, monitorVars
  <2>2. Head(bus) \in Signal /\ Head(bus).type = "lost"
    BY <2>1, BusHead
  <2>3. Head(bus) \in Goes(b) /\ Head(bus) \notin Comes(b)
    BY <2>2, ComesGoes
  <2>4. b \in {} <=> Head(bus) \in Comes(b) \/ (b \in view /\ Head(bus) \notin Goes(b))
    BY <2>3
  <2>5. InAfter(b, {}, bus', Len(bus'), Comes(b), Goes(b)) <=> Sees(b)
    BY <2>1, <2>4, BusTaken
  <2>6. Exported' = Exported
    BY <2>1 DEF Delivered, Exported, udisksVars
  <2>7. b \in view' => DueNext(b)
    <3>1. b \in view' => b \in view \ known
      BY <2>1
    <3> HIDE DEF DueNext
    <3> QED BY <1>5, <2>1, <3>1
  <2>8. Len(bus') \in Nat
    BY <1>0
  <2>9. SeesNext(b) <=> InAfter(b, {}, bus', Len(bus'), Comes(b), Goes(b))
    <3>1. CASE b \in view'
      BY <2>7, <2>8, <3>1, AfterOf
    <3>2. CASE b \notin view'
      <4>1. (b \in view' => b \in {}) /\ (b \in {} => b \in view')
        BY <3>2
      <4> QED BY <2>8, <4>1, AfterOf
    <3> QED BY <3>1, <3>2
  <2>10. Sees(b) <=> b \in Exported
    BY <1>0, <2>1
  <2> HIDE DEF Sees, SeesNext, DueNext
  <2> QED BY <2>5, <2>6, <2>7, <2>9, <2>10
<1>9. ASSUME NEW type \in {"mounted", "unmounted"}, OnMountPointsChanged(type) PROVE Right(b)
  <2>1. Receive(type) /\ Delivered /\ known' = known /\ view' = view /\ Listens
    BY <1>0, <1>9 DEF OnMountPointsChanged, Listens, Delivered, monitorVars
  <2>2. Head(bus) \in Signal /\ Head(bus).type = type
    BY <2>1, BusHead
  <2>3. Head(bus) \notin Goes(b) /\ Head(bus) \notin Comes(b)
    BY <2>2, ComesGoes
  <2>4. b \in view' <=> Head(bus) \in Comes(b) \/ (b \in view /\ Head(bus) \notin Goes(b))
    BY <2>1, <2>3
  <2>5. SeesNext(b) <=> Sees(b)
    BY <2>1, <2>4, BusTaken
  <2>6. Exported' = Exported
    BY <2>1 DEF Delivered, Exported, udisksVars
  <2>7. b \in view' \ known' => DueNext(b)
    <3>1. b \in view' \ known' => b \in view \ known
      BY <2>1
    <3> HIDE DEF DueNext
    <3> QED BY <1>5, <2>1, <3>1
  <2>8. Sees(b) <=> b \in Exported
    BY <1>0, <2>1
  <2> HIDE DEF Sees, SeesNext, DueNext
  <2> QED BY <2>5, <2>6, <2>7, <2>8
<1> HIDE DEF Right
<1> QED BY <1>2, <1>3, <1>4, <1>6, <1>7, <1>8, <1>9 DEF Next, Client, Deliver

-----------------------------------------------------------------------------
(* The index                                                               *)

\* The signals that take a block out of the index: a drive that is added starts afresh.
IndexGoes(b) == {m \in Signal : \/ m.type = "removed" /\ m.object \in {b, DriveOf[b]}
                                \/ m.type = "added" /\ m.object = DriveOf[b]}

\* Nothing went unheard since the index was built, and nothing on the bus says otherwise.
Undisturbed == faithful /\ \A i \in DOMAIN bus : bus[i].type # "lost"

\* A block is with its own drive only, and the index will be what is plugged.
IndexSorted == \A d \in Drives : \A b \in blksOfDrive[d] : DriveOf[b] = d
IndexInv == Undisturbed =>
    /\ running /\ \A i \in DOMAIN bus : bus[i].type # "listed"
    /\ \A b \in Blocks :
         InAfter(b, blksOfDrive[DriveOf[b]], bus, Len(bus), Comes(b), IndexGoes(b)) <=> b \in plugged

\* What each kind of signal does to a block of the index.
LEMMA IndexMeans ==
    ASSUME NEW m \in Signal, NEW b \in Blocks
    PROVE  /\ m \in IndexGoes(b) <=> \/ m.type = "removed" /\ (m.object = b \/ m.object = DriveOf[b])
                                     \/ m.type = "added" /\ m.object = DriveOf[b]
           /\ b \in Objects /\ DriveOf[b] \in Drives /\ DriveOf[b] # b
BY DriveOfAssumption, ObjectsAre DEF IndexGoes

\* Rebuilt, the index is brought up to date by the signals that wait for the cache.
LEMMA IndexRebuilt ==
    ASSUME TInv, KnownInv, SignalOrder, running, NEW b \in Blocks,
           \A i \in DOMAIN bus : bus[i].type \notin {"lost", "listed"}
    PROVE  InAfter(b, InitDevices[DriveOf[b]], bus, Len(bus), Comes(b), IndexGoes(b)) <=> b \in plugged
<1> DEFINE d == DriveOf[b]
<1>1. /\ bus \in Seq(Signal) /\ Len(bus) \in Nat /\ DOMAIN bus = 1..Len(bus)
      /\ \A i \in 1..Len(bus) : bus[i] \in Signal
  BY DEF TInv, Types, UDisksTypes
<1>2. InAfter(b, known, bus, Len(bus), Comes(b), Goes(b)) <=> b \in plugged
  BY ObjectsAre DEF KnownInv, Exported
<1>3. b \in InitDevices[d] <=> b \in plugged /\ b \in known
  BY ObjectsAre DEF InitDevices, BlocksOf, Exported
<1>4. ASSUME NEW i \in 1..Len(bus), bus[i] \in Goes(b) PROVE bus[i] \in IndexGoes(b)
  BY <1>1, <1>4, ComesGoes, IndexMeans
<1>5. ASSUME NEW i \in 1..Len(bus), bus[i] \in IndexGoes(b), bus[i] \notin Goes(b)
      PROVE  ~InAfter(b, known, bus, i - 1, Comes(b), Goes(b))
  <2>1. bus[i] \in OfDrive(b)
    BY <1>1, <1>5, ComesGoes, IndexMeans DEF OfDrive
  <2> QED BY <1>1, <2>1 DEF SignalOrder
<1>6. CASE b \notin plugged
  <2>1. ~ \E i \in 1..Len(bus) :
            bus[i] \in Comes(b) /\ \A j \in (i + 1)..Len(bus) : bus[j] \notin Goes(b)
    BY <1>2, <1>6 DEF InAfter
  <2>2. ASSUME NEW i \in 1..Len(bus),
               bus[i] \in Comes(b), \A j \in (i + 1)..Len(bus) : bus[j] \notin IndexGoes(b)
        PROVE  FALSE
    <3>1. \A j \in (i + 1)..Len(bus) : j \in 1..Len(bus)
      BY <1>1
    <3> QED BY <1>4, <2>1, <2>2, <3>1
  <2> QED BY <1>3, <1>6, <2>2 DEF InAfter
<1>7. CASE b \in plugged
  <2>1. ASSUME NEW i \in 0..Len(bus), i = 0 => b \in known, i # 0 => bus[i] \in Comes(b),
               \A j \in (i + 1)..Len(bus) : bus[j] \notin Goes(b),
               NEW j \in (i + 1)..Len(bus), bus[j] \in IndexGoes(b)
        PROVE  FALSE
    <3>1. j \in 1..Len(bus) /\ i \in 0..(j - 1)
      BY <1>1
    <3>2. ~InAfter(b, known, bus, j - 1, Comes(b), Goes(b))
      BY <1>5, <2>1, <3>1
    <3>3. \A k \in (i + 1)..(j - 1) : k \in (i + 1)..Len(bus)
      BY <1>1, <3>1
    <3>4. \A k \in (i + 1)..(j - 1) : bus[k] \notin Goes(b)
      BY <2>1, <3>3
    <3>5. CASE i = 0
      BY <2>1, <3>2, <3>4, <3>5 DEF InAfter
    <3>6. CASE i # 0
      <4>1. i \in 1..(j - 1)
        BY <3>1, <3>6
      <4> QED BY <2>1, <3>2, <3>4, <3>6, <4>1 DEF InAfter
    <3> QED BY <3>5, <3>6
  <2>2. CASE \E i \in 1..Len(bus) :
               bus[i] \in Comes(b) /\ \A j \in (i + 1)..Len(bus) : bus[j] \notin Goes(b)
    <3>1. PICK i \in 1..Len(bus) :
             bus[i] \in Comes(b) /\ \A j \in (i + 1)..Len(bus) : bus[j] \notin Goes(b)
      BY <2>2
    <3>2. i \in 0..Len(bus) /\ i # 0
      BY <1>1
    <3>3. \A j \in (i + 1)..Len(bus) : bus[j] \notin IndexGoes(b)
      BY <2>1, <3>1, <3>2
    <3> QED BY <1>7, <3>1, <3>3 DEF InAfter
  <2>3. CASE b \in known /\ \A j \in 1..Len(bus) : bus[j] \notin Goes(b)
    <3>1. 0 \in 0..Len(bus) /\ 0 + 1 = 1
      BY <1>1
    <3>2. \A j \in 1..Len(bus) : bus[j] \notin IndexGoes(b)
      BY <2>1, <2>3, <3>1
    <3> QED BY <1>3, <1>7, <2>3, <3>2 DEF InAfter
  <2> QED BY <1>2, <1>7, <2>2, <2>3 DEF InAfter
<1> QED BY <1>6, <1>7

\* A block stays with its own drive.
LEMMA IndexSortedPreserved == ASSUME TInv, IndexSorted, [Next]_vars PROVE IndexSorted'
<1> USE DEF IndexSorted
<1>1. blksOfDrive \in [Drives -> SUBSET Blocks]
  BY DEF TInv, Types, IndexTypes
<1>2. CASE UNCHANGED blksOfDrive
  BY <1>2
<1>3. CASE ResolveDeviceOfDrive
  BY <1>3 DEF ResolveDeviceOfDrive, InitDevices, BlocksOf
<1>4. ASSUME NEW type, OnObjectAdded(type) PROVE IndexSorted'
  <2>1. Head(bus).object \in Objects
    BY <1>4, BusHead DEF OnObjectAdded
  <2>2. blksOfDrive' = blksOfDrive \/ blksOfDrive' = AddedToIndex(Head(bus).object)
    BY <1>4 DEF OnObjectAdded, Unheard
  <2> QED BY <1>1, <2>1, <2>2, ObjectsAre DEF AddedToIndex
<1>5. ASSUME NEW S, OnObjectsRemoved(S) PROVE IndexSorted'
  <2>1. blksOfDrive' = blksOfDrive \/ blksOfDrive' = RemovedFromIndex(S)
    BY <1>5 DEF OnObjectsRemoved, Unheard
  <2> QED BY <1>1, <2>1 DEF RemovedFromIndex
<1>6. ASSUME NEW type, OnMountPointsChanged(type) PROVE IndexSorted'
  BY <1>6 DEF OnMountPointsChanged
<1>7. CASE Deliver
  BY <1>4, <1>5, <1>6, <1>7 DEF Deliver, OnObjectRemoved, OnServiceLost
<1>8. CASE UDisks
  BY <1>8, UDisksOnlyPosts
<1>9. CASE \/ StartMonitor \/ StopMonitor \/ MountTimeout \/ OnServiceOwnerChanged
           \/ UNCHANGED vars
  BY <1>2, <1>9 DEF StartMonitor, StopMonitor, MountTimeout, OnServiceOwnerChanged, vars
<1> QED BY <1>3, <1>7, <1>8, <1>9 DEF Next, Client

\* UDisks posts what the index needs.
LEMMA UDisksTellsIndex == ASSUME TInv, PlugInv, IndexInv, UDisks PROVE IndexInv'
<1> DEFINE Has(b) == InAfter(b, blksOfDrive[DriveOf[b]], bus, Len(bus), Comes(b), IndexGoes(b))
           HasNext(b) == InAfter(b, blksOfDrive[DriveOf[b]], bus', Len(bus'), Comes(b), IndexGoes(b))
<1>0. /\ bus \in Seq(Signal) /\ Len(bus) \in Nat /\ DOMAIN bus = 1..Len(bus)
      /\ running \in BOOLEAN /\ plugged \subseteq Objects
      /\ bus' \in Seq(Signal) /\ Len(bus') \in Nat /\ DOMAIN bus' = 1..Len(bus')
  BY UDisksKeepsTypes DEF TInv, Types, UDisksTypes
<1> SUFFICES ASSUME Undisturbed'
             PROVE  /\ running' /\ \A i \in DOMAIN bus' : bus'[i].type # "listed"
                    /\ \A b \in Blocks : HasNext(b) <=> b \in plugged'
  BY UDisksOnlyPosts DEF IndexInv
<1>1. Undisturbed
  BY <1>0, UDisksOnlyPosts DEF Undisturbed
<1>2. /\ running /\ \A i \in DOMAIN bus : bus[i].type # "listed"
      /\ \A b \in Blocks : Has(b) <=> b \in plugged
  BY <1>1 DEF IndexInv
<1>3. ASSUME NEW m \in Signal, HardwareChange(m), m.type # "listed"
      PROVE  /\ running' /\ \A i \in DOMAIN bus' : bus'[i].type # "listed"
             /\ \A b \in Blocks : HasNext(b) <=> m \in Comes(b) \/ (m \notin IndexGoes(b) /\ b \in plugged)
  <2>1. running' = running /\ bus' = Append(bus, m)
    BY <1>2, <1>3 DEF HardwareChange
  <2>2. \A i \in DOMAIN bus' : bus'[i].type # "listed"
    BY <1>0, <1>2, <1>3, <2>1
  <2>3. ASSUME NEW b \in Blocks
        PROVE  HasNext(b) <=> m \in Comes(b) \/ (m \notin IndexGoes(b) /\ Has(b))
    <3>1. HasNext(b) <=> IF running THEN m \in Comes(b) \/ (m \notin IndexGoes(b) /\ Has(b))
                         ELSE Has(b)
      BY <1>3, HardwarePosted
    <3> HIDE DEF Has, HasNext
    <3> QED BY <1>2, <3>1
  <2> HIDE DEF Has, HasNext
  <2> QED BY <1>2, <2>1, <2>2, <2>3
<1>4. ASSUME NEW o \in Objects, Plug(o) PROVE \A b \in Blocks : HasNext(b) <=> b \in plugged'
  <2> DEFINE m == [type |-> "added", object |-> o]
  <2>1. m \in Signal /\ m.type = "added" /\ m.object = o
    BY Posts
  <2>2. HardwareChange(m) /\ o \notin plugged /\ plugged' = plugged \cup {o}
    BY <1>4 DEF Plug
  <2> HIDE DEF m, HasNext
  <2>3. ASSUME NEW b \in Blocks PROVE HasNext(b) <=> b \in plugged'
    <3>1. m \in Comes(b) <=> o = b
      BY <2>1, ComesGoes
    <3>2. (m \in IndexGoes(b) <=> o = DriveOf[b]) /\ DriveOf[b] # b
      BY <2>1, IndexMeans
    <3>3. o = DriveOf[b] => b \notin plugged
      BY <2>2 DEF PlugInv
    <3>4. HasNext(b) <=> m \in Comes(b) \/ (m \notin IndexGoes(b) /\ b \in plugged)
      BY <1>3, <2>1, <2>2
    <3> QED BY <2>2, <3>1, <3>2, <3>3, <3>4
  <2> QED BY <2>3
<1>5. ASSUME NEW o \in Objects, Unplug(o) PROVE \A b \in Blocks : HasNext(b) <=> b \in plugged'
  <2> DEFINE m == [type |-> "removed", object |-> o]
  <2>1. m \in Signal /\ m.type = "removed" /\ m.object = o
    BY Posts
  <2>2. HardwareChange(m) /\ plugged' = plugged \ {o} /\ (o \in Drives => BlocksOf(o, plugged) = {})
    BY <1>5 DEF Unplug
  <2> HIDE DEF m, HasNext
  <2>3. ASSUME NEW b \in Blocks PROVE HasNext(b) <=> b \in plugged'
    <3>1. m \notin Comes(b)
      BY <2>1, ComesGoes
    <3>2. (m \in IndexGoes(b) <=> o = b \/ o = DriveOf[b]) /\ DriveOf[b] \in Drives
      BY <2>1, IndexMeans
    <3>3. o = DriveOf[b] => b \notin plugged
      BY <2>2, <3>2 DEF BlocksOf
    <3>4. HasNext(b) <=> m \in Comes(b) \/ (m \notin IndexGoes(b) /\ b \in plugged)
      BY <1>3, <2>1, <2>2
    <3> QED BY <2>2, <3>1, <3>2, <3>3, <3>4
  <2> QED BY <2>3
<1>6. ASSUME NEW c \in Blocks, Mount(c) \/ Unmount(c)
      PROVE  \A b \in Blocks : HasNext(b) <=> b \in plugged'
  <2>1. PICK t \in {"mounted", "unmounted"} : HardwareChange([type |-> t, object |-> c])
    BY <1>6 DEF Mount, Unmount
  <2> DEFINE m == [type |-> t, object |-> c]
  <2>2. m \in Signal /\ m.type = t
    BY Posts
  <2>3. HardwareChange(m) /\ plugged' = plugged
    BY <1>6, <2>1 DEF Mount, Unmount
  <2> HIDE DEF m, HasNext
  <2>4. ASSUME NEW b \in Blocks PROVE HasNext(b) <=> b \in plugged'
    <3>1. m \notin Comes(b) /\ m \notin IndexGoes(b)
      BY <2>2, ComesGoes, IndexMeans
    <3>2. HasNext(b) <=> m \in Comes(b) \/ (m \notin IndexGoes(b) /\ b \in plugged)
      BY <1>3, <2>2, <2>3
    <3> QED BY <2>3, <3>1, <3>2
  <2> QED BY <2>4
<1>7. ~ServiceExits
  <2>1. ASSUME ServiceExits PROVE FALSE
    <3>1. bus'[Len(bus) + 1].type = "lost" /\ DOMAIN bus' = 1..(Len(bus) + 1)
      BY <2>1, ExitPosted
    <3>2. Len(bus) + 1 \in DOMAIN bus'
      BY <1>0, <3>1
    <3> QED BY <3>1, <3>2 DEF Undisturbed
  <2> QED BY <2>1
<1>8. ~ServiceStarts
  BY <1>2 DEF ServiceStarts
<1>9. PICK m \in Signal : HardwareChange(m) /\ m.type # "listed"
  BY <1>7, <1>8, Posts DEF UDisks, Plug, Unplug, Mount, Unmount
<1> HIDE DEF HasNext
<1> QED BY <1>3, <1>4, <1>5, <1>6, <1>7, <1>8, <1>9 DEF UDisks

\* The handlers follow the signals.
LEMMA DeliverTellsIndex == ASSUME TInv, IndexInv, Deliver PROVE IndexInv'
<1> DEFINE Has(b) == InAfter(b, blksOfDrive[DriveOf[b]], bus, Len(bus), Comes(b), IndexGoes(b))
           HasNext(b) == InAfter(b, blksOfDrive'[DriveOf[b]], bus', Len(bus'), Comes(b), IndexGoes(b))
           Follows(b) == b \in blksOfDrive'[DriveOf[b]] <=>
                             \/ Head(bus) \in Comes(b)
                             \/ b \in blksOfDrive[DriveOf[b]] /\ Head(bus) \notin IndexGoes(b)
<1>0. blksOfDrive \in [Drives -> SUBSET Blocks] /\ faithful' \in BOOLEAN /\ faithful \in BOOLEAN
  BY DeliverKeepsTypes DEF TInv, Types, IndexTypes, ClientTypes, turns
<1> SUFFICES ASSUME Undisturbed'
             PROVE  /\ running' /\ \A i \in DOMAIN bus' : bus'[i].type # "listed"
                    /\ \A b \in Blocks : HasNext(b) <=> b \in plugged'
  BY DEF IndexInv
<1>1. ASSUME NEW type, Receive(type), Delivered, type # "lost", faithful,
             \A b \in Blocks : type # "listed" => Follows(b)
      PROVE  /\ running' /\ \A i \in DOMAIN bus' : bus'[i].type # "listed"
             /\ \A b \in Blocks : HasNext(b) <=> b \in plugged'
  <2>1. /\ Head(bus) = bus[1] /\ Head(bus).type = type /\ 1 \in DOMAIN bus
        /\ \A i \in DOMAIN bus' : i + 1 \in DOMAIN bus /\ bus'[i] = bus[i + 1]
        /\ \A i \in DOMAIN bus : i = 1 \/ (i - 1 \in DOMAIN bus' /\ bus'[i - 1] = bus[i])
    BY <1>1, BusHead
  <2>2. Undisturbed
    BY <1>1, <2>1 DEF Undisturbed
  <2>3. /\ running /\ \A i \in DOMAIN bus : bus[i].type # "listed"
        /\ \A b \in Blocks : Has(b) <=> b \in plugged
    BY <2>2 DEF IndexInv
  <2>4. running' = running /\ plugged' = plugged
    BY <1>1 DEF Delivered, udisksVars
  <2>5. ASSUME NEW b \in Blocks PROVE HasNext(b) <=> Has(b)
    <3>1. Follows(b)
      BY <1>1, <2>1, <2>3
    <3> QED BY <1>1, <3>1, BusTaken
  <2> HIDE DEF Has, HasNext
  <2> QED BY <2>1, <2>3, <2>4, <2>5
<1>2. ASSUME NEW type \in {"added", "listed"}, OnObjectAdded(type), NEW b \in Blocks, type = "added"
      PROVE  Follows(b)
  <2> DEFINE o == Head(bus).object
  <2>1. Receive(type) /\ (handlers = 0 => ~faithful') /\ (handlers # 0 => blksOfDrive' = AddedToIndex(o))
    BY <1>2 DEF OnObjectAdded, Unheard
  <2>2. Head(bus) \in Signal /\ Head(bus).type = type /\ o \in Objects
    BY <2>1, BusHead
  <2>3. /\ Head(bus) \in Comes(b) <=> o = b
        /\ Head(bus) \in IndexGoes(b) <=> o = DriveOf[b]
        /\ DriveOf[b] \in Drives /\ DriveOf[b] # b
    BY <1>2, <2>2, ComesGoes, IndexMeans
  <2>4. blksOfDrive' = AddedToIndex(o)
    BY <2>1 DEF Undisturbed
  <2> HIDE DEF o
  <2>5. CASE o \in Drives
    <3>1. o # b
      BY <2>5, DriveOfAssumption
    <3>2. blksOfDrive' = [blksOfDrive EXCEPT ![o] = {}]
      BY <2>4, <2>5 DEF AddedToIndex
    <3> QED BY <1>0, <2>3, <2>5, <3>1, <3>2
  <2>6. CASE o \notin Drives
    <3>1. o \in Blocks /\ DriveOf[o] \in Drives /\ o # DriveOf[b]
      BY <2>2, <2>3, <2>6, ObjectsAre
    <3>2. blksOfDrive' = [blksOfDrive EXCEPT ![DriveOf[o]] = @ \cup {o}]
      BY <2>4, <2>6 DEF AddedToIndex
    <3> QED BY <1>0, <2>3, <3>1, <3>2
  <2> QED BY <2>5, <2>6
<1>3. ASSUME OnObjectRemoved, NEW b \in Blocks PROVE Follows(b)
  <2> DEFINE o == Head(bus).object
  <2>1. /\ Receive("removed") /\ (handlers = 0 => ~faithful')
        /\ handlers # 0 => blksOfDrive' = RemovedFromIndex({o})
    BY <1>3 DEF OnObjectRemoved, OnObjectsRemoved, Unheard
  <2>2. Head(bus) \in Signal /\ Head(bus).type = "removed"
    BY <2>1, BusHead
  <2>3. /\ Head(bus) \notin Comes(b)
        /\ Head(bus) \in IndexGoes(b) <=> o = b \/ o = DriveOf[b]
        /\ DriveOf[b] \in Drives
    BY <2>2, ComesGoes, IndexMeans
  <2>4. blksOfDrive' = RemovedFromIndex({o})
    BY <2>1 DEF Undisturbed
  <2> HIDE DEF o
  <2> QED BY <1>0, <2>3, <2>4 DEF RemovedFromIndex
<1>4. ASSUME NEW type \in {"mounted", "unmounted"}, OnMountPointsChanged(type), NEW b \in Blocks
      PROVE  Follows(b)
  <2>1. Receive(type) /\ blksOfDrive' = blksOfDrive
    BY <1>4 DEF OnMountPointsChanged
  <2>2. Head(bus) \in Signal /\ Head(bus).type = type
    BY <2>1, BusHead
  <2>3. Head(bus) \notin Comes(b) /\ Head(bus) \notin IndexGoes(b)
    BY <2>2, ComesGoes, IndexMeans
  <2> QED BY <2>1, <2>3
<1> HIDE DEF HasNext, Follows
<1>5. ASSUME NEW type \in {"added", "listed"}, OnObjectAdded(type)
      PROVE  Receive(type) /\ Delivered /\ faithful
  BY <1>0, <1>5 DEF OnObjectAdded, Unheard, Undisturbed
<1>6. ASSUME OnObjectRemoved PROVE Receive("removed") /\ Delivered /\ faithful
  <2>1. handlers > 0
    BY <1>6 DEF OnObjectRemoved, OnObjectsRemoved, Unheard, Undisturbed
  <2> QED BY <1>0, <1>6, <2>1 DEF OnObjectRemoved, OnObjectsRemoved, Undisturbed
<1>7. ASSUME NEW type \in {"mounted", "unmounted"}, OnMountPointsChanged(type)
      PROVE  Receive(type) /\ Delivered /\ faithful
  BY <1>0, <1>7 DEF OnMountPointsChanged, Undisturbed
<1>8. ~OnServiceLost
  BY DEF OnServiceLost, Undisturbed
<1>9. CASE \E type \in {"added", "listed"} : OnObjectAdded(type)
  <2>1. PICK type \in {"added", "listed"} : OnObjectAdded(type)
    BY <1>9
  <2>2. \A b \in Blocks : type # "listed" => Follows(b)
    BY <1>2, <2>1
  <2> QED BY <1>1, <1>5, <2>1, <2>2
<1>10. CASE OnObjectRemoved
  BY <1>1, <1>3, <1>6, <1>10
<1>11. CASE \E type \in {"mounted", "unmounted"} : OnMountPointsChanged(type)
  <2>1. PICK type \in {"mounted", "unmounted"} : OnMountPointsChanged(type)
    BY <1>11
  <2> QED BY <1>1, <1>4, <1>7, <2>1
<1> QED BY <1>8, <1>9, <1>10, <1>11 DEF Deliver

LEMMA IndexPreserved ==
    ASSUME TInv, PlugInv, KnownInv, SignalOrder, IndexInv, [Next]_vars
    PROVE  IndexInv'
<1>1. CASE ResolveDeviceOfDrive
  <2>1. /\ UNCHANGED <<bus, running, plugged>> /\ blksOfDrive' = InitDevices
        /\ faithful' = (running /\ \A i \in DOMAIN bus : bus[i].type \notin {"lost", "listed"})
    BY <1>1 DEF ResolveDeviceOfDrive, udisksVars
  <2>2. ASSUME Undisturbed'
        PROVE  running /\ \A i \in DOMAIN bus : bus[i].type \notin {"lost", "listed"}
    BY <2>1, <2>2 DEF Undisturbed
  <2>3. ASSUME Undisturbed', NEW b \in Blocks
        PROVE  InAfter(b, blksOfDrive'[DriveOf[b]], bus', Len(bus'), Comes(b), IndexGoes(b))
                 <=> b \in plugged'
    <3>1. InAfter(b, InitDevices[DriveOf[b]], bus, Len(bus), Comes(b), IndexGoes(b)) <=> b \in plugged
      BY <2>2, <2>3, IndexRebuilt
    <3> QED BY <2>1, <3>1
  <2> QED BY <2>1, <2>2, <2>3 DEF IndexInv
<1>2. CASE \/ StartMonitor \/ StopMonitor \/ MountTimeout \/ OnServiceOwnerChanged
           \/ UNCHANGED vars
  <2>1. UNCHANGED <<bus, running, plugged, blksOfDrive, faithful>>
    BY <1>2 DEF StartMonitor, StopMonitor, MountTimeout, OnServiceOwnerChanged, vars, udisksVars,
                clientVars
  <2> QED BY <2>1 DEF IndexInv, Undisturbed
<1>3. CASE UDisks
  BY <1>3, UDisksTellsIndex
<1>4. CASE Deliver
  BY <1>4, DeliverTellsIndex
<1> QED BY <1>1, <1>2, <1>3, <1>4 DEF Next, Client

\* What holds of UDisks, of the cache and of the bus.
BusInv == TInv /\ PlugInv /\ KnownInv /\ SignalOrder

LEMMA InitBus == Init => BusInv
<1> SUFFICES ASSUME Init PROVE BusInv
  OBVIOUS
<1>1. TInv
  BY InitTypes
<1>2. PlugInv
  BY ObjectsAre DEF Init, PlugInv
<1>3. bus = <<>> /\ Len(bus) = 0 /\ known = Exported
  BY DEF Init, Exported
<1>4. KnownInv
  BY <1>3, AfterOf DEF KnownInv
<1>5. SignalOrder
  BY <1>3 DEF SignalOrder
<1> QED BY <1>1, <1>2, <1>4, <1>5 DEF BusInv

LEMMA NextBus == BusInv /\ [Next]_vars => BusInv'
BY NextTypes, PlugPreserved, KnownPreserved, OrderPreserved DEF BusInv

\* Once the signals are delivered, resolveDeviceFromDrive() answers with exactly the blocks
\* that each drive has, however plugging, rebuilds of the index, calls of start and stop and
\* late signals were interleaved, unless a signal found no handler or the service restarted.
THEOREM IndexFollows == Spec => []IndexMatches
<1> DEFINE Inv == BusInv /\ IndexSorted /\ IndexInv
<1>1. ASSUME Init PROVE Inv
  <2>1. BusInv /\ bus = <<>> /\ Len(bus) = 0 /\ running = TRUE /\ known = plugged
    BY <1>1, InitBus DEF Init
  <2>2. blksOfDrive = InitDevices
    BY <1>1 DEF Init
  <2>3. IndexSorted
    BY <2>2 DEF IndexSorted, InitDevices, BlocksOf
  <2>4. \A i \in DOMAIN bus : bus[i].type \notin {"lost", "listed"}
    BY <2>1
  <2>5. IndexInv
    BY <2>1, <2>2, <2>4, IndexRebuilt DEF IndexInv, BusInv
  <2> QED BY <2>1, <2>3, <2>5
<1>2. Inv /\ [Next]_vars => Inv'
  BY NextBus, IndexSortedPreserved, IndexPreserved DEF BusInv
<1>3. ASSUME Inv PROVE IndexMatches
  <2> SUFFICES ASSUME faithful, Drained, NEW d \in Drives PROVE blksOfDrive[d] = BlocksOf(d, plugged)
    BY DEF IndexMatches
  <2>1. bus = <<>> /\ Len(bus) = 0 /\ Undisturbed
    BY DEF Drained, Undisturbed
  <2>2. \A b \in Blocks :
           InAfter(b, blksOfDrive[DriveOf[b]], bus, Len(bus), Comes(b), IndexGoes(b)) <=> b \in plugged
    BY <1>3, <2>1 DEF IndexInv
  <2>3. \A b \in Blocks : b \in blksOfDrive[DriveOf[b]] <=> b \in plugged
    BY <2>1, <2>2, AfterOf
  <2>4. blksOfDrive[d] \subseteq Blocks
    BY <1>3 DEF BusInv, TInv, Types, IndexTypes
  <2>5. \A b \in blksOfDrive[d] : DriveOf[b] = d
    BY <1>3 DEF IndexSorted
  <2> QED BY <2>3, <2>4, <2>5 DEF BlocksOf
<1> HIDE DEF Inv
<1> QED BY <1>1, <1>2, <1>3, PTL DEF Spec

-----------------------------------------------------------------------------
(* What the client is told of mounts                                       *)

MountStates == {"mounted", "unmounted"}

\* The signals that say T of a block's mount, and those that make that void.
Says(b, T) == {m \in Signal : m.type = T /\ m.object = b}
Unsays(b, T) == {m \in Signal : \/ m \in Goes(b)
                                \/ m.type \in MountStates \ {T} /\ m.object = b}

\* The announcements that say T of a block's mount, and those that say otherwise.
TimerSays(b, T) == {t \in Timer : t.block = b /\ t.said = T}
TimerUnsays(b, T) == {t \in Timer : t.block = b /\ t.said # T}

\* What the announcements that wait make of what was said of a block.
Announced(b, timers, said) ==
    {T \in MountStates :
        InAfter(T, {said[b]}, timers, Len(timers), TimerSays(b, T), TimerUnsays(b, T))}

\* T is what there is to say of a block's mount.
Holds(b, T) == b \in Exported /\ (T = "mounted" <=> b \in mounted)

\* What the bus says of a mount is true.
BusSays == \A b \in Blocks, T \in MountStates :
    InAfter(T, {}, bus, Len(bus), Says(b, T), Unsays(b, T)) => Holds(b, T)

\* Of a block that the cache does not know the client was told nothing, and will not be.
SilentInv == ~missed => \A b \in Blocks \ (overtaken \cup known) :
    lastSaid[b] = "nothing" /\ b \notin PendingMounts

\* What the client was told last is true, once what waits is announced.
MountInv == ~missed => \A b \in Blocks \ overtaken, T \in MountStates :
    InAfter(T, Announced(b, mountTimers, lastSaid), bus, Len(bus), Says(b, T), Unsays(b, T)) => Holds(b, T)

\* What each kind of signal does to what is said.
LEMMA SaysUnsays ==
    ASSUME NEW m \in Signal, NEW b, NEW T \in MountStates
    PROVE  /\ m \in Says(b, T) <=> m.type = T /\ m.object = b
           /\ m \in Unsays(b, T) <=>
                \/ m.type = "lost"
                \/ m.object = b /\ m.type \in {"removed", "mounted", "unmounted"} /\ m.type # T
BY DEF Says, Unsays, Goes, MountStates

\* Of a block that no announcement is about nothing new is said.
LEMMA Silence ==
    ASSUME NEW timers \in Seq(Timer), NEW said, NEW b, said[b] = "nothing",
           b \notin {timers[i].block : i \in DOMAIN timers}
    PROVE  Announced(b, timers, said) = {}
<1>1. \A i \in 1..Len(timers) : timers[i].block # b
  OBVIOUS
<1>2. ASSUME NEW T \in MountStates
      PROVE  ~InAfter(T, {said[b]}, timers, Len(timers), TimerSays(b, T), TimerUnsays(b, T))
  BY <1>1 DEF InAfter, TimerSays, MountStates
<1> QED BY <1>2 DEF Announced

\* UDisks posts what it does to mounts, whatever was said before.
LEMMA UDisksTellsMounts ==
    ASSUME TInv, PlugInv, UDisks, NEW b \in Blocks, NEW T \in MountStates, NEW S,
           InAfter(T, S, bus, Len(bus), Says(b, T), Unsays(b, T)) => Holds(b, T)
    PROVE  InAfter(T, S, bus', Len(bus'), Says(b, T), Unsays(b, T)) => Holds(b, T)'
<1> DEFINE Told == InAfter(T, S, bus, Len(bus), Says(b, T), Unsays(b, T))
           ToldNext == InAfter(T, S, bus', Len(bus'), Says(b, T), Unsays(b, T))
<1>0. (Told => b \in Exported /\ (T = "mounted" <=> b \in mounted)) /\ running \in BOOLEAN
  BY DEF Holds, TInv, Types, UDisksTypes
<1> SUFFICES ASSUME ToldNext PROVE b \in Exported' /\ (T = "mounted" <=> b \in mounted')
  BY DEF Holds
<1> HIDE DEF Told, ToldNext
<1>1. ASSUME NEW m \in Signal, HardwareChange(m)
      PROVE  running /\ running' /\ (m \in Says(b, T) \/ (m \notin Unsays(b, T) /\ Told))
  <2>1. ToldNext <=> IF running THEN m \in Says(b, T) \/ (m \notin Unsays(b, T) /\ Told)
                     ELSE Told
    BY <1>1, HardwarePosted DEF Told, ToldNext
  <2>2. running
    BY <1>0, <2>1 DEF Exported
  <2> QED BY <1>1, <2>1, <2>2 DEF HardwareChange
<1>2. ASSUME NEW o \in Objects, Plug(o) PROVE b \in Exported' /\ (T = "mounted" <=> b \in mounted')
  <2> DEFINE m == [type |-> "added", object |-> o]
  <2>1. m \in Signal /\ m.type = "added" /\ m.object = o
    BY Posts
  <2>2. HardwareChange(m) /\ plugged' = plugged \cup {o} /\ mounted' = mounted
    BY <1>2 DEF Plug
  <2> HIDE DEF m
  <2>3. m \notin Says(b, T)
    BY <2>1, SaysUnsays DEF MountStates
  <2> QED BY <1>0, <1>1, <2>1, <2>2, <2>3 DEF Exported
<1>3. ASSUME NEW o \in Objects, Unplug(o) PROVE b \in Exported' /\ (T = "mounted" <=> b \in mounted')
  <2> DEFINE m == [type |-> "removed", object |-> o]
  <2>1. m \in Signal /\ m.type = "removed" /\ m.object = o
    BY Posts
  <2>2. HardwareChange(m) /\ plugged' = plugged \ {o} /\ mounted' = mounted \ {o}
    BY <1>3 DEF Unplug
  <2> HIDE DEF m
  <2>3. m \notin Says(b, T) /\ (o = b => m \in Unsays(b, T))
    BY <2>1, SaysUnsays DEF MountStates
  <2> QED BY <1>0, <1>1, <2>1, <2>2, <2>3 DEF Exported
<1>4. ASSUME NEW c \in Blocks, Mount(c) PROVE b \in Exported' /\ (T = "mounted" <=> b \in mounted')
  <2> DEFINE m == [type |-> "mounted", object |-> c]
  <2>1. m \in Signal /\ m.type = "mounted" /\ m.object = c
    BY Posts
  <2>2. HardwareChange(m) /\ c \in plugged /\ plugged' = plugged /\ mounted' = mounted \cup {c}
    BY <1>4 DEF Mount
  <2> HIDE DEF m
  <2>3. /\ m \in Says(b, T) <=> T = "mounted" /\ c = b
        /\ m \in Unsays(b, T) <=> T # "mounted" /\ c = b
    BY <2>1, SaysUnsays DEF MountStates
  <2> QED BY <1>0, <1>1, <2>1, <2>2, <2>3 DEF Exported
<1>5. ASSUME NEW c \in Blocks, Unmount(c) PROVE b \in Exported' /\ (T = "mounted" <=> b \in mounted')
  <2> DEFINE m == [type |-> "unmounted", object |-> c]
  <2>1. m \in Signal /\ m.type = "unmounted" /\ m.object = c
    BY Posts
  <2>2. HardwareChange(m) /\ c \in plugged /\ plugged' = plugged /\ mounted' = mounted \ {c}
    BY <1>5 DEF Unmount, PlugInv
  <2> HIDE DEF m
  <2>3. /\ m \in Says(b, T) <=> T = "unmounted" /\ c = b
        /\ m \in Unsays(b, T) <=> T # "unmounted" /\ c = b
    BY <2>1, SaysUnsays DEF MountStates
  <2> QED BY <1>0, <1>1, <2>1, <2>2, <2>3 DEF Exported, MountStates
<1>6. ~ServiceExits
  <2>1. \A m \in Signal : m.type = "lost" => m \in Unsays(b, T) /\ m \notin Says(b, T)
    BY SaysUnsays DEF MountStates
  <2> QED BY <2>1, ExitPosted DEF ToldNext
<1>7. ~ServiceStarts
  <2>1. ASSUME ServiceStarts PROVE FALSE
    <3>1. \A o \in plugged : [type |-> "listed", object |-> o] \in Signal
      BY Posts DEF TInv, Types, UDisksTypes
    <3>2. \A o \in plugged : /\ [type |-> "listed", object |-> o] \notin Unsays(b, T)
                             /\ [type |-> "listed", object |-> o] \notin Says(b, T)
      BY <3>1, SaysUnsays DEF MountStates
    <3>3. ToldNext <=> \/ \E o \in plugged : [type |-> "listed", object |-> o] \in Says(b, T)
                       \/ Told
      BY <2>1, <3>2, StartPosted DEF Told, ToldNext
    <3>4. Told
      BY <3>2, <3>3
    <3> QED BY <1>0, <2>1, <3>4 DEF ServiceStarts, Exported
  <2> QED BY <2>1
<1> QED BY <1>2, <1>3, <1>4, <1>5, <1>6, <1>7 DEF UDisks

\* A delivery leaves what there is to say, and turns what its signal says into what was said.
LEMMA MountTaken ==
    ASSUME TInv, NEW type, Receive(type), Delivered, NEW b \in Blocks, NEW T \in MountStates,
           NEW S, NEW R, T \in R <=> Head(bus) \in Says(b, T) \/ (T \in S /\ Head(bus) \notin Unsays(b, T)),
           InAfter(T, S, bus, Len(bus), Says(b, T), Unsays(b, T)) => Holds(b, T)
    PROVE  InAfter(T, R, bus', Len(bus'), Says(b, T), Unsays(b, T)) => Holds(b, T)'
<1>1. InAfter(T, R, bus', Len(bus'), Says(b, T), Unsays(b, T))
        <=> InAfter(T, S, bus, Len(bus), Says(b, T), Unsays(b, T))
  BY BusTaken
<1>2. Exported' = Exported /\ mounted' = mounted
  BY DEF Delivered, udisksVars, Exported
<1> QED BY <1>1, <1>2 DEF Holds

\* BusSays survives every step.
LEMMA BusSaysPreserved == ASSUME TInv, PlugInv, BusSays, [Next]_vars PROVE BusSays'
<1> SUFFICES ASSUME NEW b \in Blocks, NEW T \in MountStates
             PROVE  InAfter(T, {}, bus', Len(bus'), Says(b, T), Unsays(b, T)) => Holds(b, T)'
  BY DEF BusSays
<1>1. InAfter(T, {}, bus, Len(bus), Says(b, T), Unsays(b, T)) => Holds(b, T)
  BY DEF BusSays
<1>2. CASE UDisks
  BY <1>1, <1>2, UDisksTellsMounts
<1>3. CASE Deliver
  <2>1. PICK type : Receive(type) /\ Delivered
    BY <1>3, KnownDelivered, ObjectsAre
  <2> DEFINE R == IF Head(bus) \in Says(b, T) THEN {T} ELSE {}
  <2>2. T \in R <=> Head(bus) \in Says(b, T) \/ (T \in {} /\ Head(bus) \notin Unsays(b, T))
    OBVIOUS
  <2> HIDE DEF R
  <2>3. InAfter(T, R, bus', Len(bus'), Says(b, T), Unsays(b, T)) => Holds(b, T)'
    BY <1>1, <2>1, <2>2, MountTaken
  <2>4. Len(bus') \in Nat
    BY NextTypes DEF TInv, Types, UDisksTypes
  <2>5. InAfter(T, {}, bus', Len(bus'), Says(b, T), Unsays(b, T))
          => InAfter(T, R, bus', Len(bus'), Says(b, T), Unsays(b, T))
    BY <2>4, AfterOf
  <2> QED BY <2>3, <2>5
<1>4. CASE Client \/ MountTimeout \/ OnServiceOwnerChanged \/ UNCHANGED vars
  <2>1. UNCHANGED <<bus, running, plugged, mounted>>
    BY <1>4 DEF Client, StartMonitor, StopMonitor, ResolveDeviceOfDrive, MountTimeout,
                OnServiceOwnerChanged, vars, udisksVars
  <2> QED BY <1>1, <2>1 DEF Holds, Exported
<1> QED BY <1>2, <1>3, <1>4 DEF Next

\* A mount is announced of blocks that the cache knows.
LEMMA MountIsKnown ==
    ASSUME TInv, SignalOrder, NEW type \in MountStates, Receive(type)
    PROVE  /\ Head(bus).object \in Blocks /\ Head(bus).object \in known
           /\ [block |-> Head(bus).object, said |-> type] \in Timer
<1>1. /\ Head(bus) \in Signal /\ Head(bus) = bus[1] /\ Head(bus).type = type
      /\ Len(bus) \in Nat /\ 1 \in DOMAIN bus
  BY BusHead
<1>2. Head(bus).object \in Blocks
  BY <1>1 DEF TInv, MountSignals, MountStates
<1>3. Head(bus) \in OfMount(Head(bus).object)
  BY <1>1 DEF OfMount, MountStates
<1>4. 1 \in 1..Len(bus) /\ 1 - 1 = 0 /\ 0 \in Nat
  <2>1. bus \in Seq(Signal)
    BY DEF TInv, Types, UDisksTypes
  <2> QED BY <1>1, <2>1
<1> DEFINE o == Head(bus).object
<1> HIDE DEF o
<1>5. InAfter(o, known, bus, 0, Comes(o), Goes(o))
  BY <1>1, <1>2, <1>3, <1>4 DEF SignalOrder, o
<1>6. o \in known
  BY <1>4, <1>5, AfterOf
<1> QED BY <1>2, <1>6 DEF o, Timer, MountStates

\* One announcement per handler goes behind those that wait.
LEMMA Announces ==
    ASSUME NEW timers \in Seq(Timer), NEW change \in Timer, NEW k \in Nat \ {0}, NEW b, NEW said,
           NEW T \in MountStates
    PROVE  T \in Announced(b, timers \o [i \in 1..k |-> change], said)
             <=> \/ change \in TimerSays(b, T)
                 \/ change \notin TimerUnsays(b, T) /\ T \in Announced(b, timers, said)
<1> DEFINE new == [i \in 1..k |-> change]
<1>1. InAfter(T, {said[b]}, timers \o new, Len(timers) + k, TimerSays(b, T), TimerUnsays(b, T))
        <=> \/ change \in TimerSays(b, T)
            \/ /\ change \notin TimerUnsays(b, T)
               /\ InAfter(T, {said[b]}, timers, Len(timers), TimerSays(b, T), TimerUnsays(b, T))
  BY AfterCopies
<1>2. new \in Seq(Timer) /\ Len(new) = k
  OBVIOUS
<1> HIDE DEF new
<1>3. Len(timers \o new) = Len(timers) + k
  BY <1>2, ConcatProperties
<1>4. InAfter(T, {said[b]}, timers \o new, Len(timers \o new), TimerSays(b, T), TimerUnsays(b, T))
        <=> \/ change \in TimerSays(b, T)
            \/ /\ change \notin TimerUnsays(b, T)
               /\ InAfter(T, {said[b]}, timers, Len(timers), TimerSays(b, T), TimerUnsays(b, T))
  BY <1>1, <1>3
<1>5. T \in Announced(b, timers \o new, said)
        <=> InAfter(T, {said[b]}, timers \o new, Len(timers \o new), TimerSays(b, T), TimerUnsays(b, T))
  BY DEF Announced
<1>6. T \in Announced(b, timers, said)
        <=> InAfter(T, {said[b]}, timers, Len(timers), TimerSays(b, T), TimerUnsays(b, T))
  BY DEF Announced
<1> QED BY <1>4, <1>5, <1>6 DEF new

\* Announcing what waits first changes nothing of what will have been said.
LEMMA AnnouncedOne ==
    ASSUME TInv, MountTimeout, NEW b \in Blocks
    PROVE  Announced(b, mountTimers', lastSaid') = Announced(b, mountTimers, lastSaid)
<1>1. /\ mountTimers \in Seq(Timer) /\ mountTimers # <<>> /\ mountTimers' = Tail(mountTimers)
      /\ lastSaid \in [Blocks -> {"nothing", "mounted", "unmounted"}]
      /\ lastSaid' = [lastSaid EXCEPT ![Head(mountTimers).block] = Head(mountTimers).said]
  BY DEF MountTimeout, TInv, Types, IndexTypes, ClientTypes, turns
<1> DEFINE n == Len(mountTimers)
           t == Head(mountTimers)
<1>2. n \in Nat /\ n - 1 \in 0..(n - 1) /\ (n - 1) + 1 = n /\ Len(mountTimers') = n - 1 /\ t \in Timer
  BY <1>1
<1> HIDE DEF n
<1>3. ASSUME NEW T \in MountStates
      PROVE  T \in Announced(b, mountTimers', lastSaid') <=> T \in Announced(b, mountTimers, lastSaid)
  <2>1. T \in {lastSaid'[b]} <=> t \in TimerSays(b, T) \/ (T \in {lastSaid[b]} /\ t \notin TimerUnsays(b, T))
    <3> HIDE DEF t
    <3>1. lastSaid' = [lastSaid EXCEPT ![t.block] = t.said] /\ t.block \in Blocks
      BY <1>1, <1>2 DEF t, Timer
    <3> QED BY <1>1, <1>2, <3>1 DEF TimerSays, TimerUnsays
  <2>2. \A k \in 0..(Len(mountTimers) - 1) :
           InAfter(T, {lastSaid'[b]}, Tail(mountTimers), k, TimerSays(b, T), TimerUnsays(b, T))
             <=> InAfter(T, {lastSaid[b]}, mountTimers, k + 1, TimerSays(b, T), TimerUnsays(b, T))
    BY <1>1, <2>1, AfterTail
  <2>3. InAfter(T, {lastSaid'[b]}, mountTimers', Len(mountTimers'), TimerSays(b, T), TimerUnsays(b, T))
          <=> InAfter(T, {lastSaid[b]}, mountTimers, Len(mountTimers), TimerSays(b, T), TimerUnsays(b, T))
    BY <1>1, <1>2, <2>2 DEF n
  <2> QED BY <2>3 DEF Announced
<1> QED BY <1>3 DEF Announced

\* SilentInv survives every step.
LEMMA SilentPreserved == ASSUME TInv, SignalOrder, SilentInv, [Next]_vars PROVE SilentInv'
<1>0. missed \in BOOLEAN /\ missed' \in BOOLEAN /\ mountTimers \in Seq(Timer)
  BY NextTypes DEF TInv, Types, ClientTypes, turns, IndexTypes
<1> SUFFICES ASSUME ~missed', NEW b \in Blocks, b \notin overtaken', b \notin known'
             PROVE  lastSaid'[b] = "nothing" /\ b \notin PendingMounts'
  BY DEF SilentInv
<1>1. ASSUME UNCHANGED <<known, lastSaid, mountTimers, missed, overtaken>>
      PROVE  lastSaid'[b] = "nothing" /\ b \notin PendingMounts'
  BY <1>1 DEF SilentInv, PendingMounts
<1>2. CASE UDisks \/ StopMonitor \/ ResolveDeviceOfDrive \/ OnServiceOwnerChanged \/ UNCHANGED vars
  <2>1. UNCHANGED <<known, lastSaid, mountTimers, missed, overtaken>>
    BY <1>2, UDisksOnlyPosts DEF StopMonitor, ResolveDeviceOfDrive, OnServiceOwnerChanged, vars, clientVars
  <2> QED BY <1>1, <2>1
<1>3. CASE StartMonitor
  <2>1. lastSaid' = [c \in Blocks |-> "nothing"] /\ overtaken' = PendingMounts /\ mountTimers' = mountTimers
    BY <1>3 DEF StartMonitor
  <2> QED BY <2>1 DEF PendingMounts
<1>4. ASSUME NEW type, OnObjectAdded(type)
      PROVE  lastSaid'[b] = "nothing" /\ b \notin PendingMounts'
  <2>1. b \notin known /\ UNCHANGED <<lastSaid, mountTimers, missed, overtaken>>
    BY <1>4 DEF OnObjectAdded, Unheard
  <2> QED BY <2>1 DEF SilentInv, PendingMounts
<1>5. ASSUME NEW S, OnObjectsRemoved(S)
      PROVE  lastSaid'[b] = "nothing" /\ b \notin PendingMounts'
  <2>1. /\ known' = known \ S /\ UNCHANGED <<mountTimers, missed>>
        /\ overtaken' = overtaken \cup (S \cap PendingMounts)
        /\ lastSaid' = [c \in Blocks |-> IF c \in S THEN "nothing" ELSE lastSaid[c]]
    BY <1>5 DEF OnObjectsRemoved, Unheard
  <2>2. PendingMounts' = PendingMounts
    BY <2>1 DEF PendingMounts
  <2> QED BY <2>1, <2>2 DEF SilentInv
<1>6. ASSUME NEW type \in MountStates, OnMountPointsChanged(type)
      PROVE  lastSaid'[b] = "nothing" /\ b \notin PendingMounts'
  <2> DEFINE change == [block |-> Head(bus).object, said |-> type]
  <2>1. /\ Receive(type) /\ UNCHANGED <<known, lastSaid, overtaken>> /\ ~missed
        /\ mountTimers' = MountTimersWith(change)
    BY <1>0, <1>6 DEF OnMountPointsChanged
  <2>2. change \in Timer /\ change.block \in known
    BY <2>1, MountIsKnown
  <2> HIDE DEF change
  <2>3. lastSaid[b] = "nothing" /\ b \notin PendingMounts /\ b # change.block
    BY <2>1, <2>2 DEF SilentInv
  <2> DEFINE new == [i \in 1..handlers |-> change]
  <2>4. new \in Seq(Timer) /\ Len(new) \in Nat /\ \A i \in 1..Len(new) : new[i] = change
    BY <2>2, BoundsAssumption DEF TInv, Types, MonitorTypes
  <2>5. mountTimers' = mountTimers \o new
    BY <2>1 DEF MountTimersWith
  <2> HIDE DEF new
  <2>6. /\ Len(mountTimers) \in Nat /\ DOMAIN (mountTimers \o new) = 1..(Len(mountTimers) + Len(new))
        /\ \A i \in 1..(Len(mountTimers) + Len(new)) :
              (mountTimers \o new)[i] = IF i <= Len(mountTimers) THEN mountTimers[i]
                                        ELSE new[i - Len(mountTimers)]
    <3>1. mountTimers \o new \in Seq(Timer) /\ Len(mountTimers \o new) = Len(mountTimers) + Len(new)
      BY <1>0, <2>4, ConcatProperties
    <3>2. \A i \in 1..(Len(mountTimers) + Len(new)) :
              (mountTimers \o new)[i] = IF i <= Len(mountTimers) THEN mountTimers[i]
                                        ELSE new[i - Len(mountTimers)]
      BY <1>0, <2>4, ConcatProperties, Zenon
    <3> QED BY <1>0, <3>1, <3>2
  <2>7. ASSUME NEW i \in 1..(Len(mountTimers) + Len(new)) PROVE mountTimers'[i].block # b
    <3>1. CASE i <= Len(mountTimers)
      <4>1. i \in DOMAIN mountTimers /\ mountTimers'[i] = mountTimers[i]
        BY <1>0, <2>5, <2>6, <3>1
      <4> QED BY <2>3, <4>1 DEF PendingMounts
    <3>2. CASE ~(i <= Len(mountTimers))
      <4>1. i - Len(mountTimers) \in 1..Len(new)
        BY <2>4, <2>6, <3>2
      <4>2. mountTimers'[i] = change
        BY <2>4, <2>5, <2>6, <3>2, <4>1
      <4> QED BY <2>3, <4>2
    <3> QED BY <3>1, <3>2
  <2>8. DOMAIN mountTimers' = 1..(Len(mountTimers) + Len(new))
    BY <2>5, <2>6
  <2> QED BY <2>1, <2>3, <2>7, <2>8 DEF PendingMounts
<1>7. CASE MountTimeout
  <2>1. /\ UNCHANGED <<known, missed, overtaken>> /\ mountTimers # <<>> /\ mountTimers' = Tail(mountTimers)
        /\ lastSaid' = [lastSaid EXCEPT ![Head(mountTimers).block] = Head(mountTimers).said]
    BY <1>7 DEF MountTimeout
  <2>2. lastSaid[b] = "nothing" /\ b \notin PendingMounts
    BY <2>1 DEF SilentInv
  <2>3. /\ 1 \in DOMAIN mountTimers /\ Head(mountTimers) = mountTimers[1]
        /\ \A i \in DOMAIN mountTimers' : i + 1 \in DOMAIN mountTimers /\ mountTimers'[i] = mountTimers[i + 1]
    BY <1>0, <2>1
  <2>4. Head(mountTimers).block # b
    BY <2>2, <2>3 DEF PendingMounts
  <2>5. b \notin PendingMounts'
    BY <2>2, <2>3 DEF PendingMounts
  <2>6. lastSaid \in [Blocks -> {"nothing", "mounted", "unmounted"}]
    BY DEF TInv, Types, ClientTypes, turns
  <2> QED BY <2>1, <2>2, <2>4, <2>5, <2>6
<1>8. CASE Deliver
  BY <1>4, <1>5, <1>6, <1>8 DEF Deliver, OnObjectRemoved, OnServiceLost, MountStates
<1> QED BY <1>2, <1>3, <1>7, <1>8 DEF Next, Client

\* MountInv survives every step.
LEMMA MountPreserved ==
    ASSUME TInv, PlugInv, SignalOrder, BusSays, SilentInv, MountInv, [Next]_vars
    PROVE  MountInv'
<1>0. /\ missed \in BOOLEAN /\ missed' \in BOOLEAN /\ handlers \in Nat
      /\ mountTimers \in Seq(Timer) /\ mountTimers' \in Seq(Timer)
      /\ Len(bus) \in Nat /\ Len(bus') \in Nat
  <2>1. /\ missed \in BOOLEAN /\ missed' \in BOOLEAN /\ handlers \in 0..MaxHandlers
        /\ mountTimers \in Seq(Timer) /\ mountTimers' \in Seq(Timer)
        /\ bus \in Seq(Signal) /\ bus' \in Seq(Signal)
    BY NextTypes DEF TInv, Types, UDisksTypes, MonitorTypes, IndexTypes, ClientTypes, turns
  <2> QED BY <2>1, BoundsAssumption
<1> DEFINE Tells(b, T, S) == InAfter(T, S, bus, Len(bus), Says(b, T), Unsays(b, T))
           TellsNext(b, T, S) == InAfter(T, S, bus', Len(bus'), Says(b, T), Unsays(b, T))
           Will(b) == Announced(b, mountTimers, lastSaid)
           WillNext(b) == Announced(b, mountTimers', lastSaid')
<1> SUFFICES ASSUME ~missed', NEW b \in Blocks \ overtaken', NEW T \in MountStates
             PROVE  TellsNext(b, T, WillNext(b)) => Holds(b, T)'
  BY DEF MountInv
<1>1. ASSUME ~missed, b \notin overtaken PROVE Tells(b, T, Will(b)) => Holds(b, T)
  BY <1>1 DEF MountInv
<1>2. CASE UDisks
  <2>1. UNCHANGED <<mountTimers, lastSaid, missed, overtaken>>
    BY <1>2, UDisksOnlyPosts DEF clientVars
  <2>2. Tells(b, T, Will(b)) => Holds(b, T)
    BY <1>1, <2>1
  <2>3. TellsNext(b, T, Will(b)) => Holds(b, T)'
    BY <1>2, <2>2, UDisksTellsMounts
  <2> QED BY <2>1, <2>3
<1>3. CASE StopMonitor \/ ResolveDeviceOfDrive \/ OnServiceOwnerChanged \/ UNCHANGED vars
  <2>1. UNCHANGED <<bus, running, plugged, mounted, mountTimers, lastSaid, missed, overtaken>>
    BY <1>3 DEF StopMonitor, ResolveDeviceOfDrive, OnServiceOwnerChanged, vars, udisksVars, clientVars
  <2>2. Tells(b, T, Will(b)) => Holds(b, T)
    BY <1>1, <2>1
  <2> QED BY <2>1, <2>2 DEF Holds, Exported
<1>4. CASE StartMonitor
  <2>1. /\ UNCHANGED <<bus, running, plugged, mounted, mountTimers>>
        /\ lastSaid' = [c \in Blocks |-> "nothing"] /\ overtaken' = PendingMounts
    BY <1>4 DEF StartMonitor, udisksVars
  <2>2. lastSaid'[b] = "nothing" /\ b \notin {mountTimers[i].block : i \in DOMAIN mountTimers}
    BY <2>1 DEF PendingMounts
  <2>3. WillNext(b) = {}
    BY <1>0, <2>1, <2>2, Silence
  <2>4. Tells(b, T, {}) => Holds(b, T)
    BY DEF BusSays
  <2> HIDE DEF WillNext
  <2> QED BY <2>1, <2>3, <2>4 DEF Holds, Exported
<1>5. CASE MountTimeout
  <2>1. UNCHANGED <<bus, running, plugged, mounted, missed, overtaken>>
    BY <1>5 DEF MountTimeout, udisksVars
  <2>2. WillNext(b) = Will(b)
    BY <1>5, AnnouncedOne
  <2>3. Tells(b, T, Will(b)) => Holds(b, T)
    BY <1>1, <2>1
  <2> HIDE DEF Will, WillNext
  <2> QED BY <2>1, <2>2, <2>3 DEF Holds, Exported
<1>6. ASSUME NEW type, Receive(type), Delivered, ~missed, b \notin overtaken,
             T \in WillNext(b) <=> \/ Head(bus) \in Says(b, T)
                                   \/ T \in Will(b) /\ Head(bus) \notin Unsays(b, T)
      PROVE  TellsNext(b, T, WillNext(b)) => Holds(b, T)'
  <2>1. Tells(b, T, Will(b)) => Holds(b, T)
    BY <1>1, <1>6
  <2> HIDE DEF Will, WillNext
  <2> QED BY <1>6, <2>1, MountTaken
<1>7. ASSUME NEW type \in {"added", "listed"}, OnObjectAdded(type)
      PROVE  TellsNext(b, T, WillNext(b)) => Holds(b, T)'
  <2>1. Receive(type) /\ Delivered /\ UNCHANGED <<mountTimers, lastSaid, missed, overtaken>>
    BY <1>7 DEF OnObjectAdded, Unheard
  <2>2. Head(bus) \in Signal /\ Head(bus).type = type
    BY <2>1, BusHead
  <2>3. Head(bus) \notin Says(b, T) /\ Head(bus) \notin Unsays(b, T)
    BY <2>2, SaysUnsays DEF MountStates
  <2>4. T \in WillNext(b) <=> T \in Will(b)
    BY <2>1
  <2> HIDE DEF Will, WillNext, TellsNext
  <2> QED BY <1>6, <2>1, <2>3, <2>4
<1>8. ASSUME NEW type \in {"removed", "lost"}, NEW S, Receive(type), OnObjectsRemoved(S),
             type = "removed" => S = {Head(bus).object}, type = "lost" => S = known
      PROVE  TellsNext(b, T, WillNext(b)) => Holds(b, T)'
  <2>1. /\ Delivered /\ UNCHANGED <<mountTimers, missed>>
        /\ overtaken' = overtaken \cup (S \cap PendingMounts)
        /\ lastSaid' = [c \in Blocks |-> IF c \in S THEN "nothing" ELSE lastSaid[c]]
    BY <1>8 DEF OnObjectsRemoved, Unheard
  <2>2. Head(bus) \in Signal /\ Head(bus).type = type
    BY <1>8, BusHead
  <2>3. /\ Head(bus) \notin Says(b, T)
        /\ Head(bus) \in Unsays(b, T) <=> type = "lost" \/ b = Head(bus).object
    BY <2>2, SaysUnsays DEF MountStates
  <2>4. CASE b \in S \/ (type = "lost" /\ b \notin S)
    <3>1. b \notin PendingMounts /\ lastSaid'[b] = "nothing"
      BY <1>8, <2>1, <2>4 DEF SilentInv
    <3>2. WillNext(b) = {}
      BY <1>0, <2>1, <3>1, Silence DEF PendingMounts
    <3>3. Head(bus) \in Unsays(b, T)
      BY <1>8, <2>3, <2>4
    <3> HIDE DEF Will, WillNext, TellsNext
    <3> QED BY <1>6, <1>8, <2>1, <2>3, <3>2, <3>3
  <2>5. CASE type = "removed" /\ b \notin S
    <3>1. lastSaid'[b] = lastSaid[b] /\ Head(bus) \notin Unsays(b, T)
      BY <1>8, <2>1, <2>3, <2>5
    <3>2. WillNext(b) = Will(b)
      BY <2>1, <3>1 DEF Announced
    <3> HIDE DEF Will, WillNext, TellsNext
    <3> QED BY <1>6, <1>8, <2>1, <2>3, <3>1, <3>2
  <2> QED BY <2>4, <2>5
<1>9. ASSUME NEW type \in MountStates, OnMountPointsChanged(type)
      PROVE  TellsNext(b, T, WillNext(b)) => Holds(b, T)'
  <2> DEFINE change == [block |-> Head(bus).object, said |-> type]
  <2>1. /\ Receive(type) /\ Delivered /\ UNCHANGED <<lastSaid, overtaken>> /\ ~missed /\ handlers # 0
        /\ mountTimers' = MountTimersWith(change)
    BY <1>0, <1>9 DEF OnMountPointsChanged
  <2>2. Head(bus) \in Signal /\ Head(bus).type = type
    BY <2>1, BusHead
  <2>3. change \in Timer /\ change.block = Head(bus).object /\ change.said = type
    BY <2>1, MountIsKnown
  <2> HIDE DEF change
  <2>4. /\ change \in TimerSays(b, T) <=> Head(bus) \in Says(b, T)
        /\ change \in TimerUnsays(b, T) <=> Head(bus) \in Unsays(b, T)
    BY <2>2, <2>3, SaysUnsays DEF TimerSays, TimerUnsays, MountStates
  <2>5. T \in Announced(b, mountTimers \o [i \in 1..handlers |-> change], lastSaid)
          <=> \/ change \in TimerSays(b, T)
              \/ change \notin TimerUnsays(b, T) /\ T \in Announced(b, mountTimers, lastSaid)
    BY <1>0, <2>1, <2>3, Announces
  <2>6. T \in WillNext(b) <=> \/ change \in TimerSays(b, T)
                              \/ change \notin TimerUnsays(b, T) /\ T \in Will(b)
    BY <2>1, <2>5 DEF MountTimersWith
  <2> HIDE DEF Will, WillNext, TellsNext
  <2> QED BY <1>6, <2>1, <2>4, <2>6
<1> HIDE DEF TellsNext, WillNext
<1>10. CASE Deliver
  <2>1. CASE OnObjectRemoved
    BY <1>8, <2>1 DEF OnObjectRemoved, OnObjectsRemoved
  <2>2. CASE OnServiceLost
    BY <1>8, <2>2 DEF OnServiceLost, OnObjectsRemoved
  <2> QED BY <1>7, <1>9, <1>10, <2>1, <2>2 DEF Deliver, MountStates
<1> QED BY <1>2, <1>3, <1>4, <1>5, <1>10 DEF Next, Client

\* A client that starts from getDevices() and applies what the monitor announces has, once
\* all signals are delivered, exactly the devices that there are, and what it was last told
\* of a mount is true, also when the service exited and came back and when hardware changed
\* while it asked, unless a signal found no handler. Blocks are left out that were removed
\* while an announcement of their mount was pending.
THEOREM ClientConverges == Spec => []ViewConverges
<1> DEFINE Inv == BusInv /\ ViewInv /\ AheadInv /\ BusSays /\ SilentInv /\ MountInv
<1>1. ASSUME Init PROVE Inv
  <2>1. /\ bus = <<>> /\ Len(bus) = 0 /\ mountTimers = <<>> /\ monitorStatus = "idle"
        /\ lastSaid = [b \in Blocks |-> "nothing"] /\ mountTimers \in Seq(Timer)
    BY <1>1, InitTypes DEF Init, TInv, Types, IndexTypes
  <2>2. ViewInv /\ AheadInv
    BY <2>1 DEF ViewInv, AheadInv, Listens
  <2>3. BusSays
    BY <2>1, AfterOf DEF BusSays
  <2>4. SilentInv
    BY <2>1 DEF SilentInv, PendingMounts
  <2>5. ASSUME NEW b \in Blocks PROVE Announced(b, mountTimers, lastSaid) = {}
    <3>1. b \notin {mountTimers[i].block : i \in DOMAIN mountTimers} /\ lastSaid[b] = "nothing"
      BY <2>1
    <3> QED BY <2>1, <3>1, Silence
  <2>6. MountInv
    BY <2>1, <2>5, AfterOf DEF MountInv
  <2> QED BY <1>1, <2>2, <2>3, <2>4, <2>6, InitBus
<1>2. Inv /\ [Next]_vars => Inv'
  BY NextBus, ViewPreserved, BusSaysPreserved, SilentPreserved, MountPreserved DEF BusInv
<1>3. ASSUME Inv PROVE ViewConverges
  <2> SUFFICES ASSUME monitorStatus = "monitoring", ~missed, Drained
               PROVE  DevicesAgree /\ MountsAgree
    BY DEF ViewConverges
  <2>1. /\ bus = <<>> /\ Len(bus) = 0 /\ mountTimers = <<>> /\ Len(mountTimers) = 0 /\ 0 \in Nat
        /\ Exported = plugged /\ view \subseteq Blocks
        /\ lastSaid \in [Blocks -> {"nothing", "mounted", "unmounted"}]
    BY <1>3 DEF Drained, Exported, BusInv, TInv, Types, ClientTypes, turns
  <2>2. DevicesAgree
    <3>1. \A b \in Blocks : InAfter(b, view, bus, Len(bus), Comes(b), Goes(b)) <=> b \in plugged
      BY <1>3, <2>1 DEF ViewInv, Listens
    <3>2. \A b \in Blocks : b \in view <=> b \in plugged
      BY <2>1, <3>1, AfterOf
    <3> QED BY <2>1, <3>2 DEF DevicesAgree
  <2>3. MountsAgree
    <3> SUFFICES ASSUME NEW b \in (plugged \cap Blocks) \ overtaken, lastSaid[b] # "nothing"
                 PROVE  (lastSaid[b] = "mounted") = (b \in mounted)
      BY DEF MountsAgree
    <3> DEFINE T == lastSaid[b]
    <3>1. T \in MountStates /\ T \in {lastSaid[b]}
      BY <2>1 DEF MountStates
    <3> HIDE DEF T
    <3>2. InAfter(T, {lastSaid[b]}, mountTimers, Len(mountTimers), TimerSays(b, T), TimerUnsays(b, T))
      BY <2>1, <3>1, AfterOf
    <3>3. T \in Announced(b, mountTimers, lastSaid)
      BY <3>1, <3>2 DEF Announced
    <3>4. InAfter(T, Announced(b, mountTimers, lastSaid), bus, Len(bus), Says(b, T), Unsays(b, T))
      BY <2>1, <3>3, AfterOf
    <3>5. Holds(b, T)
      BY <1>3, <3>1, <3>4 DEF MountInv
    <3> QED BY <3>5 DEF Holds, T
  <2> QED BY <2>2, <2>3
<1> HIDE DEF Inv
<1> QED BY <1>1, <1>2, <1>3, PTL DEF Spec
=============================================================================
