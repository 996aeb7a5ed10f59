--------------------------- MODULE I2cClientProofs ---------------------------
(***************************************************************************)
(* Proofs about I2cClient, for any number of devices and files.  HeldInv   *)
(* follows probe and remove through their tables and says what can be held *)
(* for a device at each place; FreshInv ties the open files to it, and     *)
(* ClassInv the class pointer.                                             *)
(***************************************************************************)
EXTENDS I2cClient, TLAPS

-----------------------------------------------------------------------------
(* The tables *)

\* What probe may hold when it comes to its n-th call.
Before(n) == {Probe[m].res : m \in 1 .. n - 1}

\* What may be left of remove, or of the releases after a failed probe.
Todo == { <<"cdev", "device", "class", "region1">>, <<"device", "class", "region1">>,
          <<"class", "region1">>, <<"region1">>, <<"region0">>, <<>> }

Ahead(u) == {u[n] : n \in DOMAIN u}

\* The one failure that probe notices is that of alloc_chrdev_region.
LEMMA ProbeTable ==
  /\ Len(Probe) = 5 /\ DOMAIN Probe = 1 .. 5
  /\ Probe[1].res = "data" /\ Probe[2].then = <<"region0">>
  /\ \A n \in 1 .. 5 : /\ Sees(Probe[n]) <=> n = 2
                       /\ Probe[n].res \in Resources
                       /\ Probe[n].res = "cdev" <=> n = 5
<1>1. /\ Len(Probe) = 5 /\ DOMAIN Probe = 1 .. 5
      /\ Probe[2].then = <<"region0">>
  BY DEF Get, Probe, ads1115_probe, bh1750_probe
<1>2. /\ Probe[1].res = "data"    /\ Probe[1].test = "ignored"
      /\ Probe[2].res = "region1" /\ Probe[2].test = "negative"
      /\ Probe[3].res = "class"   /\ Probe[3].test = "null"
      /\ Probe[4].res = "device"  /\ Probe[4].test = "null"
      /\ Probe[5].res = "cdev"    /\ Probe[5].test = "minus one"
  BY DEF Get, Probe, ads1115_probe, bh1750_probe
<1>3. /\ ~Sees(Probe[1]) /\ Sees(Probe[2])
      /\ ~Sees(Probe[3]) /\ ~Sees(Probe[4]) /\ ~Sees(Probe[5])
  BY <1>2 DEF Sees, Convention
<1>4. \A n \in 1 .. 5 : n = 1 \/ n = 2 \/ n = 3 \/ n = 4 \/ n = 5
  OBVIOUS
<1>5. \A n \in 1 .. 5 : Sees(Probe[n]) <=> n = 2
  BY <1>3, <1>4
<1>6. \A n \in 1 .. 5 : Probe[n].res \in Resources /\ (Probe[n].res = "cdev" <=> n = 5)
  BY <1>2, <1>4 DEF Resources
<1>. QED
  BY <1>1, <1>2, <1>5, <1>6

\* One call adds its resource to what probe may hold.
LEMMA BeforeNext ==
  ASSUME NEW n \in 1 .. 5
  PROVE  /\ Before(n) \subseteq Resources /\ "cdev" \notin Before(n)
         /\ n < 5 => Before(n + 1) = Before(n) \cup {Probe[n].res}
BY ProbeTable DEF Before

\* Remove releases all that probe acquires but the data, which the core frees.
LEMMA RemoveTable == Remove \in Todo /\ Resources = {"data"} \cup Ahead(Remove)
<1>1. Remove = <<"cdev", "device", "class", "region1">>
  BY DEF Remove, ads1115_remove, bh1750_remove
<1>2. Ahead(<<"cdev", "device", "class", "region1">>) =
        {"cdev", "device", "class", "region1"}
  BY DEF Ahead
<1>. QED
  BY <1>1, <1>2 DEF Todo, Resources

\* One release takes its resource off what is ahead and nothing else.
LEMMA TodoTail ==
  ASSUME NEW u \in Todo
  PROVE  /\ \A n \in DOMAIN u : u[n] \in Resources \cup {"region0"}
         /\ u # <<>> => /\ Tail(u) \in Todo
                        /\ Ahead(u) \subseteq {Head(u)} \cup Ahead(Tail(u))
                        /\ Head(u) = "device" => "cdev" \notin Ahead(u)
<1>. USE DEF Todo, Ahead, Resources
<1>1. CASE u = <<"cdev", "device", "class", "region1">> BY <1>1
<1>2. CASE u = <<"device", "class", "region1">> BY <1>2
<1>3. CASE u = <<"class", "region1">> BY <1>3
<1>4. CASE u = <<"region1">> BY <1>4
<1>5. CASE u = <<"region0">> BY <1>5
<1>6. CASE u = <<>> BY <1>6
<1>. QED
  BY <1>1, <1>2, <1>3, <1>4, <1>5, <1>6

-----------------------------------------------------------------------------
(* What is held for a device *)

\* TypeOK but for undo, of which more is known.
Types ==
  /\ pinned \in BOOLEAN /\ sysfs \in BOOLEAN
  /\ module \in {"out", "in", "going"}
  /\ drv \in [Clients -> {"unbound", "probing", "bound", "failing",
                          "removing", "wedged"}]
  /\ step \in [Clients -> 1 .. 5]
  /\ undo \in [Clients -> Todo]
  /\ held \in [Clients -> SUBSET Resources]
  /\ classPtr \in [Clients -> {"null", "ok", "err"}]
  /\ on \in [Files -> Clients \cup {NULL}]
  /\ age \in [Files -> {"fresh", "dataGone", "codeGone"}]
  /\ fault \in {"none", "nullDeref", "useAfterFree"}

\* The invariant of a device: probe holds no more than it has come to, and a
\* probe that fails or a remove no more than is ahead of it, and the data.
HeldInvOf(c) ==
  /\ drv[c] = "unbound" => held[c] = {}
  /\ drv[c] = "probing" => held[c] \subseteq Before(step[c])
  /\ Undoing(c) => held[c] \subseteq {"data"} \cup Ahead(undo[c])
  /\ drv[c] = "failing" => undo[c] \in {<<"region0">>, <<>>}
  /\ drv[c] = "wedged" => "cdev" \notin held[c]

HeldInv == \A c \in Clients : HeldInvOf(c)

ModuleStep == ModuleInit \/ ModuleExit \/ ModuleFreed
FileStep(f) == my_read(f) \/ my_write(f) \/ my_release(f)
DeviceStep(c) == Bind(c) \/ Unbind(c) \/ AcquireOk(c) \/ AcquireFails(c)
                 \/ AcquireMissed(c) \/ Release(c) \/ FreeData(c)

\* A release takes the first resource off both lists, unless the device is
\* stuck in device_destroy.
LEMMA ReleaseCases ==
  ASSUME NEW c \in Clients, Release(c)
  PROVE  /\ Undoing(c) /\ undo[c] # <<>>
         /\ \/ /\ Head(undo[c]) = "device" /\ UNCHANGED <<undo, held>>
               /\ drv' = [drv EXCEPT ![c] = "wedged"]
            \/ /\ held' = [held EXCEPT ![c] = @ \ {Head(undo[c])}]
               /\ undo' = [undo EXCEPT ![c] = Tail(@)]
               /\ UNCHANGED drv
BY Zenon DEF Release

\* The steps of the module and of the files leave the devices alone.
LEMMA OtherStepsSpare ==
  ASSUME ModuleStep \/ (\E f \in Files : FileStep(f) \/ \E c \in Clients : my_open(f, c))
         \/ UNCHANGED vars
  PROVE  UNCHANGED <<drv, step, undo, held, classPtr, pinned, sysfs>>
BY DEF ModuleStep, ModuleInit, ModuleExit, ModuleFreed, FileStep, my_read, my_write,
       my_release, my_open, Transfer, probeVars, envVars, vars

\* The types, with the tails of the tables as those of undo.
LEMMA AlwaysTyped == Spec => []Types
<1>1. Init => Types
  <2>. SUFFICES ASSUME Init PROVE Types
    OBVIOUS
  <2>1. pinned \in BOOLEAN /\ sysfs \in BOOLEAN
    BY DEF Init
  <2>2. undo \in [Clients -> Todo]
    BY DEF Init, Todo
  <2>. QED
    BY <2>1, <2>2 DEF Init, Types
<1>2. Types /\ [Next]_vars => Types'
  <2>. SUFFICES ASSUME Types, [Next]_vars PROVE Types'
    OBVIOUS
  <2>. USE DEF Types, probeVars, fileVars, envVars
  <2>1. CASE ModuleStep
    BY <2>1 DEF ModuleStep, ModuleInit, ModuleExit, ModuleFreed, Opened
  <2>2. ASSUME NEW c \in Clients, Bind(c) PROVE Types'
    BY <2>2 DEF Bind
  <2>3. ASSUME NEW c \in Clients, Unbind(c) PROVE Types'
    BY <2>3, RemoveTable DEF Unbind
  <2>4. ASSUME NEW c \in Clients, AcquireOk(c) PROVE Types'
    BY <2>4, ProbeTable DEF AcquireOk, SetClassPtr, Advance, IsLast, Call
  <2>5. ASSUME NEW c \in Clients, AcquireFails(c) PROVE Types'
    <3>1. Call(c).then \in Todo
      BY <2>5, ProbeTable DEF AcquireFails, Call, Todo
    <3>. QED
      BY <2>5, <3>1 DEF AcquireFails, SetClassPtr
  <2>6. ASSUME NEW c \in Clients, AcquireMissed(c) PROVE Types'
    <3>1. CASE Call(c).res = "data"
      BY <2>6, <3>1 DEF AcquireMissed
    <3>2. CASE Call(c).res # "data"
      BY <2>6, <3>2, ProbeTable DEF AcquireMissed, SetClassPtr, Advance, IsLast
    <3>. QED
      BY <3>1, <3>2
  <2>7. ASSUME NEW c \in Clients, Release(c) PROVE Types'
    <3>1. Tail(undo[c]) \in Todo
      BY <2>7, TodoTail DEF Release
    <3>2. /\ drv' \in [Clients -> {"unbound", "probing", "bound", "failing",
                                   "removing", "wedged"}]
          /\ undo' \in [Clients -> Todo]
          /\ held' \in [Clients -> SUBSET Resources]
      <4>1. CASE drv' = [drv EXCEPT ![c] = "wedged"] /\ UNCHANGED <<undo, held>>
        BY <4>1
      <4>2. CASE /\ held' = [held EXCEPT ![c] = @ \ {Head(undo[c])}]
                 /\ undo' = [undo EXCEPT ![c] = Tail(@)]
                 /\ UNCHANGED drv
        BY <3>1, <4>2
      <4>. QED
        BY <2>7, <4>1, <4>2, ReleaseCases
    <3>. QED
      BY <2>7, <3>2 DEF Release
  <2>8. ASSUME NEW c \in Clients, FreeData(c) PROVE Types'
    BY <2>8 DEF FreeData
  <2>9. ASSUME NEW c \in Clients, NEW f \in Files, my_open(f, c) PROVE Types'
    BY <2>9 DEF my_open
  <2>10. ASSUME NEW f \in Files, FileStep(f) PROVE Types'
    BY <2>10 DEF FileStep, my_read, my_write, Transfer, my_release
  <2>11. CASE UNCHANGED vars BY <2>11 DEF vars
  <2>. QED
    BY <2>1, <2>2, <2>3, <2>4, <2>5, <2>6, <2>7, <2>8, <2>9, <2>10, <2>11
       DEF Next, ModuleStep, FileStep
<1>. QED
  BY <1>1, <1>2, PTL DEF Spec

\* Every variable keeps its type: no release is made but those of the tables.
THEOREM TypeCorrect == Spec => []TypeOK
<1>1. Types => TypeOK
  BY ProbeTable, TodoTail DEF Types, TypeOK
<1>. QED
  BY <1>1, AlwaysTyped, PTL

-----------------------------------------------------------------------------

\* A step of one device leaves the others alone, and the kind of driver.
LEMMA OthersStay ==
  ASSUME Types, NEW c \in Clients, NEW d \in Clients, d # c, DeviceStep(c)
  PROVE  UNCHANGED <<drv[d], step[d], undo[d], held[d], classPtr[d]>>
<1>. USE DEF Types, probeVars, SetClassPtr
<1>1. CASE Bind(c) BY <1>1 DEF Bind
<1>2. CASE Unbind(c) BY <1>2 DEF Unbind
<1>3. CASE AcquireOk(c) BY <1>3 DEF AcquireOk, Advance
<1>4. CASE AcquireFails(c) BY <1>4 DEF AcquireFails
<1>5. CASE AcquireMissed(c)
  <2>1. CASE Call(c).res = "data" BY <1>5, <2>1 DEF AcquireMissed
  <2>2. CASE Call(c).res # "data" BY <1>5, <2>2 DEF AcquireMissed, Advance
  <2>. QED
    BY <2>1, <2>2
<1>6. CASE Release(c)
  <2>1. CASE Head(undo[c]) = "device" /\ BadClassPtr(c)
    BY <1>6, <2>1 DEF Release
  <2>2. CASE ~(Head(undo[c]) = "device" /\ BadClassPtr(c))
    BY <1>6, <2>2 DEF Release
  <2>. QED
    BY <2>1, <2>2
<1>7. CASE FreeData(c) BY <1>7 DEF FreeData
<1>. QED
  BY <1>1, <1>2, <1>3, <1>4, <1>5, <1>6, <1>7 DEF DeviceStep

\* Before speaks of the table of the driver that there is.
LEMMA BeforeStays ==
  ASSUME NEW c \in Clients, DeviceStep(c)
  PROVE  UNCHANGED pinned /\ \A n \in 1 .. 5 : Before(n)' = Before(n)
<1>1. UNCHANGED pinned
  BY DEF DeviceStep, Bind, Unbind, AcquireOk, AcquireFails, AcquireMissed, Release,
         FreeData, envVars
<1>. QED
  BY <1>1 DEF Before, Probe

\* What is held follows the tables, whichever calls fail and however often a
\* device is bound.
LEMMA HeldInvariant == Spec => []HeldInv
<1>. USE DEF Undoing
<1>1. Init => HeldInv
  BY DEF Init, HeldInv, HeldInvOf
<1>2. Types /\ Types' /\ HeldInv /\ [Next]_vars => HeldInv'
  <2>. SUFFICES ASSUME Types, Types', HeldInv, [Next]_vars, NEW d \in Clients
                PROVE  HeldInvOf(d)'
    BY DEF HeldInv
  <2>. USE DEF Types
  <2>0. HeldInvOf(d)
    BY DEF HeldInv
  <2>1. CASE \/ ModuleStep \/ UNCHANGED vars
            \/ \E f \in Files : FileStep(f) \/ \E c \in Clients : my_open(f, c)
    <3>1. UNCHANGED <<drv, step, undo, held, classPtr, pinned, sysfs>>
      BY <2>1, OtherStepsSpare
    <3>2. Before(step[d])' = Before(step[d])
      BY <3>1 DEF Before, Probe
    <3>. QED
      BY <2>0, <3>1, <3>2 DEF HeldInvOf
  <2>2. ASSUME NEW c \in Clients, DeviceStep(c), c # d PROVE HeldInvOf(d)'
    <3>1. UNCHANGED <<drv[d], step[d], undo[d], held[d]>>
      BY <2>2, OthersStay
    <3>2. Before(step[d])' = Before(step[d])
      BY <2>2, <3>1, BeforeStays
    <3>. QED
      BY <2>0, <3>1, <3>2 DEF HeldInvOf
  <2>3. ASSUME DeviceStep(d) PROVE HeldInvOf(d)'
    <3>. USE <2>0, BeforeStays DEF HeldInvOf
    <3>1. CASE Bind(d)
      BY <3>1 DEF Bind
    <3>2. CASE Unbind(d)
      BY <3>2, RemoveTable DEF Unbind
    <3>3. CASE AcquireOk(d)
      <4>1. CASE step[d] = 5
        BY <3>3, <4>1, ProbeTable DEF AcquireOk, Advance, IsLast
      <4>2. CASE step[d] # 5
        BY <3>3, <4>2, ProbeTable, BeforeNext, <2>3 DEF AcquireOk, Advance, IsLast, Call
      <4>. QED
        BY <4>1, <4>2
    <3>4. CASE AcquireFails(d)
      <4>1. step[d] = 2 /\ undo'[d] = <<"region0">>
        BY <3>4, ProbeTable DEF AcquireFails, Call
      <4>2. Before(2) \subseteq {"data"}
        BY ProbeTable DEF Before
      <4>. QED
        BY <3>4, <4>1, <4>2 DEF AcquireFails
    <3>5. CASE AcquireMissed(d)
      <4>1. CASE Call(d).res = "data"
        BY <3>5, <4>1, <2>3 DEF AcquireMissed, probeVars
      <4>2. CASE Call(d).res # "data" /\ step[d] = 5
        BY <3>5, <4>2, ProbeTable DEF AcquireMissed, Advance, IsLast
      <4>3. CASE Call(d).res # "data" /\ step[d] # 5
        BY <3>5, <4>3, ProbeTable, BeforeNext, <2>3 DEF AcquireMissed, Advance, IsLast, Call
      <4>. QED
        BY <4>1, <4>2, <4>3
    <3>6. CASE Release(d)
      <4>1. CASE /\ Head(undo[d]) = "device" /\ UNCHANGED <<undo, held>>
                 /\ drv' = [drv EXCEPT ![d] = "wedged"]
        <5>1. "cdev" \notin held[d]
          BY <3>6, <4>1, TodoTail, ReleaseCases
        <5>. QED
          BY <4>1, <5>1
      <4>2. CASE /\ held' = [held EXCEPT ![d] = @ \ {Head(undo[d])}]
                 /\ undo' = [undo EXCEPT ![d] = Tail(@)]
                 /\ UNCHANGED drv
        <5>1. held'[d] = held[d] \ {Head(undo[d])} /\ undo'[d] = Tail(undo[d])
          BY <4>2
        <5>2. Ahead(undo[d]) \subseteq {Head(undo[d])} \cup Ahead(Tail(undo[d]))
          BY <3>6, TodoTail, ReleaseCases
        <5>3. held'[d] \subseteq {"data"} \cup Ahead(undo'[d])
          BY <3>6, <5>1, <5>2, ReleaseCases
        <5>4. drv[d] = "failing" => Tail(undo[d]) = <<>>
          <6>1. Tail(<<"region0">>) = <<>>
            OBVIOUS
          <6>2. drv[d] = "failing" => undo[d] = <<"region0">>
            BY <3>6, ReleaseCases
          <6>. QED
            BY <6>1, <6>2
        <5>. QED
          BY <3>6, <4>2, <5>1, <5>3, <5>4, ReleaseCases
      <4>. QED
        BY <3>6, <4>1, <4>2, ReleaseCases
    <3>7. CASE FreeData(d)
      <4>1. Ahead(undo[d]) = {}
        BY <3>7 DEF FreeData, Ahead
      <4>. QED
        BY <3>7, <4>1 DEF FreeData
    <3>. QED
      BY <2>3, <3>1, <3>2, <3>3, <3>4, <3>5, <3>6, <3>7 DEF DeviceStep
  <2>. QED
    BY <2>1, <2>2, <2>3 DEF Next, ModuleStep, FileStep, DeviceStep
<1>. QED
  BY <1>1, <1>2, AlwaysTyped, PTL DEF Spec

\* Whichever calls of probe fail, an unbound device holds nothing, for any number of
\* devices.
THEOREM NothingHeld == Spec => []UnboundHoldsNothing
<1>1. HeldInv => UnboundHoldsNothing
  BY DEF HeldInv, HeldInvOf, UnboundHoldsNothing
<1>. QED
  BY <1>1, HeldInvariant, PTL

-----------------------------------------------------------------------------
(* The class pointer *)

\* No device is destroyed after its class.
LEMMA DeviceFirst ==
  ASSUME NEW u \in Todo
  PROVE  /\ u # <<>> /\ Head(u) = "class" => "device" \notin Ahead(Tail(u))
         /\ u # <<>> => Ahead(Tail(u)) \subseteq Ahead(u)
         /\ u # <<>> => Head(u) \in Ahead(u)
<1>. USE DEF Todo, Ahead
<1>1. CASE u = <<"cdev", "device", "class", "region1">> BY <1>1
<1>2. CASE u = <<"device", "class", "region1">> BY <1>2
<1>3. CASE u = <<"class", "region1">> BY <1>3
<1>4. CASE u = <<"region1">> BY <1>4
<1>5. CASE u = <<"region0">> BY <1>5
<1>6. CASE u = <<>> BY <1>6
<1>. QED
  BY <1>1, <1>2, <1>3, <1>4, <1>5, <1>6

\* A class pointer that is set leads to a class, as long as a device may still
\* be destroyed through it.
ClassInvOf(c) ==
  /\ drv[c] \in {"probing", "bound"} /\ classPtr[c] = "ok" => "class" \in held[c]
  /\ Undoing(c) /\ "device" \in Ahead(undo[c]) /\ classPtr[c] = "ok" => "class" \in held[c]
  /\ drv[c] = "wedged" => classPtr[c] = "err"
ClassInv == \A c \in Clients : ClassInvOf(c)

\* A step of a device keeps its class as long as it may need it.
LEMMA ClassStep ==
  ASSUME Types, NEW c \in Clients, ClassInvOf(c), DeviceStep(c)
  PROVE  ClassInvOf(c)'
<1>. USE DEF Types, ClassInvOf, Undoing
<1>1. CASE Bind(c)
  <2>1. drv'[c] = "probing" /\ classPtr'[c] = "null"
    BY <1>1 DEF Bind
  <2>. QED
    BY <2>1
<1>2. CASE Unbind(c)
  BY <1>2 DEF Unbind
<1>3. CASE AcquireOk(c)
  <2>1. /\ held'[c] = held[c] \cup {Call(c).res}
        /\ drv[c] = "probing" /\ drv'[c] \in {"probing", "bound"}
        /\ classPtr'[c] = IF Call(c).res = "class" THEN "ok" ELSE classPtr[c]
    BY <1>3 DEF AcquireOk, Advance, SetClassPtr
  <2>. QED
    BY <2>1
<1>4. CASE AcquireFails(c)
  <2>1. drv'[c] = "failing" /\ undo'[c] = <<"region0">>
    BY <1>4, ProbeTable DEF AcquireFails, Call
  <2>2. "device" \notin Ahead(<<"region0">>)
    BY DEF Ahead
  <2>. QED
    BY <2>1, <2>2
<1>5. CASE AcquireMissed(c)
  <2>1. CASE Call(c).res = "data"
    BY <1>5, <2>1 DEF AcquireMissed, probeVars
  <2>2. CASE Call(c).res # "data"
    <3>1. /\ held' = held /\ drv[c] = "probing" /\ drv'[c] \in {"probing", "bound"}
          /\ classPtr'[c] = IF Call(c).res = "class" THEN "err" ELSE classPtr[c]
      BY <1>5, <2>2 DEF AcquireMissed, Advance, SetClassPtr
    <3>. QED
      BY <3>1
  <2>. QED
    BY <2>1, <2>2
<1>6. CASE Release(c)
  <2>1. Undoing(c) /\ undo[c] # <<>> /\ classPtr' = classPtr
    BY <1>6 DEF Release
  <2>2. CASE Head(undo[c]) = "device" /\ BadClassPtr(c)
    <3>1. drv'[c] = "wedged"
      BY <1>6, <2>2 DEF Release
    <3>2. "device" \in Ahead(undo[c])
      BY <2>1, <2>2, DeviceFirst
    <3>3. classPtr[c] = "err"
      BY <2>1, <2>2, <3>2 DEF BadClassPtr
    <3>. QED
      BY <2>1, <3>1, <3>3
  <2>3. CASE ~(Head(undo[c]) = "device" /\ BadClassPtr(c))
    <3>1. /\ held'[c] = held[c] \ {Head(undo[c])} /\ undo'[c] = Tail(undo[c])
          /\ drv' = drv
      BY <1>6, <2>3 DEF Release
    <3>. QED
      BY <2>1, <3>1, DeviceFirst
  <2>. QED
    BY <2>2, <2>3
<1>7. CASE FreeData(c)
  <2>1. drv'[c] = "unbound"
    BY <1>7 DEF FreeData
  <2>. QED
    BY <2>1
<1>. QED
  BY <1>1, <1>2, <1>3, <1>4, <1>5, <1>6, <1>7 DEF DeviceStep

\* The safe half of RmmodEnds: a device is stuck only because its class was refused
\* and probe did not notice, never because remove, or the remove of another
\* device, has destroyed the class before the device.
THEOREM StuckByClass == Spec => [](\A c \in Clients : drv[c] = "wedged" => Stuck(c))
<1>1. Init => ClassInv
  BY DEF Init, ClassInv, ClassInvOf, Undoing
<1>2. Types /\ ClassInv /\ [Next]_vars => ClassInv'
  <2>. SUFFICES ASSUME Types, ClassInv, [Next]_vars, NEW d \in Clients PROVE ClassInvOf(d)'
    BY DEF ClassInv
  <2>1. CASE DeviceStep(d)
    BY <2>1, ClassStep DEF ClassInv
  <2>2. ASSUME NEW c \in Clients, c # d, DeviceStep(c) PROVE ClassInvOf(d)'
    BY <2>2, OthersStay DEF ClassInv, ClassInvOf, Undoing
  <2>3. CASE \/ ModuleStep \/ UNCHANGED vars
            \/ \E f \in Files : FileStep(f) \/ \E c \in Clients : my_open(f, c)
    BY <2>3, OtherStepsSpare DEF ClassInv, ClassInvOf, Undoing
  <2>. QED
    BY <2>1, <2>2, <2>3 DEF Next, ModuleStep, FileStep, DeviceStep
<1>3. ClassInv => \A c \in Clients : drv[c] = "wedged" => Stuck(c)
  BY DEF ClassInv, ClassInvOf, Stuck
<1>. QED
  BY <1>1, <1>2, <1>3, AlwaysTyped, PTL DEF Spec

-----------------------------------------------------------------------------
(* What open files lead to *)

\* With the owner line a file is open only while the module is loaded; and as
\* long as only rmmod unbinds devices, only on a device that is bound and on
\* data that is there, for no remove is under way unless rmmod is.
FreshInv ==
  pinned =>
    /\ module # "in" => Opened = {}
    /\ \A f \in Opened : age[f] # "codeGone"
    /\ ~sysfs =>
         /\ module # "going" => \A c \in Clients : drv[c] # "removing"
         /\ \A f \in Opened : age[f] = "fresh" /\ drv[on[f]] = "bound"
         /\ fault # "useAfterFree"

\* A cdev is held only from the last call of probe to the first release of
\* remove.
LEMMA CdevBound ==
  ASSUME Types, HeldInv, NEW c \in Clients, "cdev" \in held[c]
  PROVE  drv[c] \in {"bound", "removing"}
<1>1. HeldInvOf(c)
  BY DEF HeldInv
<1>2. Ahead(<<"region0">>) = {"region0"} /\ Ahead(<<>>) = {}
  BY DEF Ahead
<1>. QED
  BY <1>1, <1>2, BeforeNext DEF HeldInvOf, Types, Undoing

\* The kind of driver is the same throughout.
LEMMA PinnedStays == [Next]_vars => UNCHANGED pinned
<1>1. ASSUME NEW c \in Clients, DeviceStep(c) PROVE UNCHANGED pinned
  BY <1>1, BeforeStays
<1>2. CASE ModuleStep \/ (\E f \in Files : FileStep(f) \/ \E c \in Clients : my_open(f, c))
           \/ UNCHANGED vars
  BY <1>2, OtherStepsSpare
<1>. QED
  BY <1>1, <1>2 DEF Next, ModuleStep, FileStep, DeviceStep

\* With the owner line no file is open on code that is gone, and none on freed data
\* unless a device was unbound with the module loaded, for any number of
\* devices and files.
THEOREM Fresh == Spec => []PinnedFilesAreFresh
<1>. USE DEF Opened
<1>1. Init => FreshInv
  BY DEF Init, FreshInv
<1>2. Types /\ Types' /\ HeldInv /\ FreshInv /\ [Next]_vars => FreshInv'
  <2>. SUFFICES ASSUME Types, Types', HeldInv, FreshInv, [Next]_vars, pinned, pinned'
                PROVE  FreshInv'
    BY PinnedStays DEF FreshInv
  <2>. USE DEF Types, FreshInv, probeVars, fileVars, envVars
  <2>1. CASE ModuleStep
    BY <2>1 DEF ModuleStep, ModuleInit, ModuleExit, ModuleFreed
  <2>2. ASSUME NEW c \in Clients, Bind(c) PROVE FreshInv'
    BY <2>2, I2cAssumption DEF Bind
  <2>3. ASSUME NEW c \in Clients, Unbind(c) PROVE FreshInv'
    <3>1. CASE module = "in"
      <4>1. sysfs'
        BY <2>3, <3>1, Zenon DEF Unbind
      <4>. QED
        BY <2>3, <3>1, <4>1 DEF Unbind
    <3>2. CASE module = "going"
      <4>1. ~sysfs' => ~sysfs
        BY <2>3, Zenon DEF Unbind
      <4>. QED
        BY <2>3, <3>2, <4>1 DEF Unbind
    <3>. QED
      BY <2>3, <3>1, <3>2 DEF Unbind
  <2>4. ASSUME NEW c \in Clients, AcquireOk(c) PROVE FreshInv'
    BY <2>4 DEF AcquireOk, Advance
  <2>5. ASSUME NEW c \in Clients, AcquireFails(c) PROVE FreshInv'
    BY <2>5 DEF AcquireFails
  <2>6. ASSUME NEW c \in Clients, AcquireMissed(c) PROVE FreshInv'
    <3>1. CASE Call(c).res = "data" BY <2>6, <3>1 DEF AcquireMissed
    <3>2. CASE Call(c).res # "data" BY <2>6, <3>2 DEF AcquireMissed, Advance
    <3>. QED
      BY <3>1, <3>2
  <2>7. ASSUME NEW c \in Clients, Release(c) PROVE FreshInv'
    <3>1. UNCHANGED <<module, fileVars, fault, envVars>>
      BY <2>7 DEF Release
    <3>2. CASE drv' = [drv EXCEPT ![c] = "wedged"]
      BY <2>7, <3>1, <3>2, ReleaseCases DEF Undoing
    <3>3. CASE UNCHANGED drv
      BY <3>1, <3>3
    <3>. QED
      BY <2>7, <3>2, <3>3, ReleaseCases
  <2>8. ASSUME NEW c \in Clients, FreeData(c) PROVE FreshInv'
    BY <2>8 DEF FreeData, Undoing
  <2>9. ASSUME NEW c \in Clients, NEW f \in Files, my_open(f, c) PROVE FreshInv'
    BY <2>9, CdevBound DEF my_open
  <2>10. ASSUME NEW f \in Files, FileStep(f) PROVE FreshInv'
    BY <2>10 DEF FileStep, my_read, my_write, Transfer, my_release
  <2>11. CASE UNCHANGED vars BY <2>11 DEF vars
  <2>. QED
    BY <2>1, <2>2, <2>3, <2>4, <2>5, <2>6, <2>7, <2>8, <2>9, <2>10, <2>11
       DEF Next, ModuleStep, FileStep
<1>3. FreshInv => PinnedFilesAreFresh
  BY DEF FreshInv, PinnedFilesAreFresh
<1>. QED
  BY <1>1, <1>2, <1>3, AlwaysTyped, HeldInvariant, PTL DEF Spec
=============================================================================
