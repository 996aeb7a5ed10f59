------------------------------ MODULE I2cClient ------------------------------
(***************************************************************************)
(* i2c_client_driver/i2c_client_driver.c and i2cBaseDriver.c: drivers that *)
(* the i2c core binds to devices and unbinds from them while files may be  *)
(* open.  The two are the same but for one line: the file operations of    *)
(* i2cBaseDriver.c name their owner, so an open file pins its module.      *)
(*                                                                         *)
(* For each device probe allocates the driver's data, which holds the cdev *)
(* and which the core frees after remove, or after a probe that failed.    *)
(* open leaves its address in the file's private_data.  The field `client' *)
(* of the data is never set, so read and write, which begin with           *)
(* dev->client->adapter, follow a null pointer or freed memory and get no  *)
(* further; the behaviour ends there.                                      *)
(*                                                                         *)
(* External, as the drivers use it: the core probes a device only while    *)
(* the driver is registered, never runs probe and remove of one device at  *)
(* a time, and unbinds every device before i2c_del_driver returns; an      *)
(* administrator may bind and unbind a device at any time.                 *)
(***************************************************************************)
EXTENDS Ladder, FiniteSets

CONSTANTS Clients,     \* the devices the driver's id table matches
          Files,       \* the files clients may open
          NULL         \* no device

ASSUME I2cAssumption == NULL \notin Clients

VARIABLES pinned,   \* the driver is i2cBaseDriver.c: .owner = THIS_MODULE
          module,   \* the module: "out", "in", or "going" in i2c_del_driver
          drv,      \* drv[c]: what the driver does with device c
          step,     \* step[c]: the next call of probe
          undo,     \* undo[c]: the releases still to be made
          held,     \* held[c]: what is acquired for c
          classPtr, \* classPtr[c]: data->class, data->dev_class
          on,       \* on[f]: the device f is open on, or NULL
          age,      \* age[f]: what has become of the data and code f leads to
          fault,    \* the memory error that ended the behaviour, or "none"
          sysfs     \* history: a device was unbound with the module loaded

probeVars == <<drv, step, undo, held, classPtr>>
fileVars  == <<on, age>>
envVars   == <<pinned, sysfs>>
vars      == <<module, probeVars, fileVars, fault, envVars>>

\* A failed alloc_chrdev_region is followed by a release of device number 0.
ads1115_probe ==
  << Get("data",    "ignored",   <<>>),
     Get("region1", "negative",  <<"region0">>),
     Get("class",   "null",      <<"region1">>),
     Get("device",  "null",      <<"class", "region1">>),
     Get("cdev",    "minus one", <<"device", "class", "region1">>) >>

\* Broken variants, for mutants: remove forgets the region, or destroys
\* the class before the device.
remove_noRegion   == <<"cdev", "device", "class">>
remove_classFirst == <<"cdev", "class", "device", "region1">>

ads1115_remove == <<"cdev", "device", "class", "region1">>
bh1750_probe   == ads1115_probe
bh1750_remove  == ads1115_remove

Probe  == IF pinned THEN bh1750_probe ELSE ads1115_probe
Remove == IF pinned THEN bh1750_remove ELSE ads1115_remove

Init == /\ pinned \in BOOLEAN
        /\ module = "out"
        /\ drv = [c \in Clients |-> "unbound"]
        /\ step = [c \in Clients |-> 1]
        /\ undo = [c \in Clients |-> <<>>]
        /\ held = [c \in Clients |-> {}]
        /\ classPtr = [c \in Clients |-> "null"]
        /\ on = [f \in Files |-> NULL]
        /\ age = [f \in Files |-> "fresh"]
        /\ fault = "none"
        /\ sysfs = FALSE

Opened == {f \in Files : on[f] # NULL}

-----------------------------------------------------------------------------
(* The module and the core *)

\* i2c_add_driver registers the driver.
ModuleInit == /\ fault = "none"
              /\ module = "out"
              /\ module' = "in"
              /\ UNCHANGED <<probeVars, fileVars, fault, envVars>>

\* The core hands device c to probe, whose data is zeroed.
Bind(c) == /\ fault = "none"
           /\ module = "in"
           /\ drv[c] = "unbound"
           /\ drv' = [drv EXCEPT ![c] = "probing"]
           /\ step' = [step EXCEPT ![c] = 1]
           /\ classPtr' = [classPtr EXCEPT ![c] = "null"]
           /\ UNCHANGED <<module, undo, held, fileVars, fault, envVars>>

\* The core, or an administrator, takes device c back.
Unbind(c) == /\ fault = "none"
             /\ module \in {"in", "going"}
             /\ drv[c] = "bound"
             /\ drv' = [drv EXCEPT ![c] = "removing"]
             /\ undo' = [undo EXCEPT ![c] = Remove]
             /\ sysfs' = (sysfs \/ module = "in")
             /\ UNCHANGED <<module, step, held, classPtr, fileVars, fault, pinned>>

\* Broken variant, for a mutant: rmmod does not look at the open files.
ModuleExitUnchecked == /\ fault = "none"
                       /\ module = "in"
                       /\ module' = "going"
                       /\ UNCHANGED <<probeVars, fileVars, fault, envVars>>

\* rmmod, refused while an open file pins the module, calls i2c_del_driver.
ModuleExit == /\ fault = "none"
              /\ module = "in"
              /\ pinned => Opened = {}
              /\ module' = "going"
              /\ UNCHANGED <<probeVars, fileVars, fault, envVars>>

\* i2c_del_driver returns when nothing is bound; the module's text is freed.
ModuleFreed == /\ fault = "none"
               /\ module = "going"
               /\ \A c \in Clients : drv[c] = "unbound"
               /\ module' = "out"
               /\ age' = [f \in Files |-> IF f \in Opened THEN "codeGone" ELSE age[f]]
               /\ UNCHANGED <<probeVars, on, fault, envVars>>

-----------------------------------------------------------------------------
(* probe and remove, call by call *)

Call(c)   == Probe[step[c]]
IsLast(c) == step[c] = Len(Probe)

\* Both drivers, both devices: one class name, "i2cdriver".
Refused(c) == \/ Call(c).res = "class" /\ \E d \in Clients : "class" \in held[d]
              \/ Call(c).res = "device" /\ classPtr[c] = "err"

SetClassPtr(c, value) ==
  classPtr' = [classPtr EXCEPT ![c] = IF Call(c).res = "class" THEN value ELSE @]

\* Broken variant, for a mutant: the position runs past the last call.
AdvancePastEnd(c) ==
  /\ drv' = [drv EXCEPT ![c] = IF IsLast(c) THEN "bound" ELSE @]
  /\ step' = [step EXCEPT ![c] = @ + 1]

Advance(c) == /\ drv' = [drv EXCEPT ![c] = IF IsLast(c) THEN "bound" ELSE @]
              /\ step' = [step EXCEPT ![c] = IF IsLast(c) THEN @ ELSE @ + 1]

AcquireOk(c) == /\ fault = "none"
                /\ drv[c] = "probing"
                /\ ~Refused(c)
                /\ held' = [held EXCEPT ![c] = @ \cup {Call(c).res}]
                /\ SetClassPtr(c, "ok")
                /\ Advance(c)
                /\ UNCHANGED <<module, undo, fileVars, fault, envVars>>

AcquireFails(c) == /\ fault = "none"
                   /\ drv[c] = "probing"
                   /\ Sees(Call(c))
                   /\ drv' = [drv EXCEPT ![c] = "failing"]
                   /\ undo' = [undo EXCEPT ![c] = Call(c).then]
                   /\ SetClassPtr(c, "err")
                   /\ UNCHANGED <<module, step, held, fileVars, fault, envVars>>

\* An unseen failure; without its data probe stores through a null pointer.
AcquireMissed(c) ==
  /\ fault = "none"
  /\ drv[c] = "probing"
  /\ ~Sees(Call(c))
  /\ IF Call(c).res = "data"
       THEN fault' = "nullDeref" /\ UNCHANGED probeVars
       ELSE /\ SetClassPtr(c, "err")
            /\ Advance(c)
            /\ UNCHANGED <<undo, held, fault>>
  /\ UNCHANGED <<module, fileVars, envVars>>

Undoing(c) == drv[c] \in {"failing", "removing"}

\* device_destroy follows the class pointer: an oops if it is an error pointer
\* or its class is gone, after which the device stays stuck.
BadClassPtr(c) == classPtr[c] = "err" \/ (classPtr[c] = "ok" /\ "class" \notin held[c])
Release(c) ==
  /\ fault = "none"
  /\ Undoing(c)
  /\ undo[c] # <<>>
  /\ IF Head(undo[c]) = "device" /\ BadClassPtr(c)
       THEN drv' = [drv EXCEPT ![c] = "wedged"] /\ UNCHANGED <<undo, held>>
       ELSE /\ held' = [held EXCEPT ![c] = @ \ {Head(undo[c])}]
            /\ undo' = [undo EXCEPT ![c] = Tail(@)]
            /\ UNCHANGED drv
  /\ UNCHANGED <<module, step, classPtr, fileVars, fault, envVars>>

\* The core frees the data after remove, or after a probe that failed.
FreeData(c) ==
  /\ fault = "none"
  /\ Undoing(c)
  /\ undo[c] = <<>>
  /\ drv' = [drv EXCEPT ![c] = "unbound"]
  /\ held' = [held EXCEPT ![c] = @ \ {"data"}]
  /\ age' = [f \in Files |-> IF on[f] = c THEN "dataGone" ELSE age[f]]
  /\ UNCHANGED <<module, step, undo, classPtr, on, fault, envVars>>

-----------------------------------------------------------------------------
(* The file operations *)

\* my_open: private_data is the data around the cdev, which is never null.
my_open(f, c) == /\ fault = "none"
                 /\ on[f] = NULL
                 /\ "cdev" \in held[c]
                 /\ pinned => module = "in"
                 /\ on' = [on EXCEPT ![f] = c]
                 /\ age' = [age EXCEPT ![f] = "fresh"]
                 /\ UNCHANGED <<module, probeVars, fault, envVars>>

\* my_read, my_write: dev->client->adapter.
Transfer(f) == /\ fault = "none"
               /\ on[f] # NULL
               /\ fault' = IF age[f] = "fresh" THEN "nullDeref" ELSE "useAfterFree"
               /\ UNCHANGED <<module, probeVars, fileVars, envVars>>
my_read(f)  == Transfer(f)
my_write(f) == Transfer(f)

\* my_release does nothing, but the file operations it is found through may be
\* gone, and the kernel then lets go of a cdev that lay in the freed data.
my_release(f) == /\ fault = "none"
                 /\ on[f] # NULL
                 /\ IF age[f] = "fresh"
                      THEN on' = [on EXCEPT ![f] = NULL] /\ UNCHANGED fault
                      ELSE fault' = "useAfterFree" /\ UNCHANGED on
                 /\ UNCHANGED <<module, probeVars, age, envVars>>

Next == \/ ModuleInit \/ ModuleExit \/ ModuleFreed
        \/ \E c \in Clients :
             \/ Bind(c) \/ Unbind(c) \/ AcquireOk(c) \/ AcquireFails(c)
             \/ AcquireMissed(c) \/ Release(c) \/ FreeData(c)
             \/ \E f \in Files : my_open(f, c)
        \/ \E f \in Files : my_read(f) \/ my_write(f) \/ my_release(f)

\* probe, remove and i2c_del_driver run on once they have begun.
Fairness == /\ WF_vars(ModuleFreed)
            /\ \A c \in Clients :
                 /\ WF_vars(AcquireOk(c) \/ AcquireFails(c) \/ AcquireMissed(c))
                 /\ WF_vars(Release(c) \/ FreeData(c))
                 /\ WF_vars(module = "going" /\ Unbind(c))

Spec == Init /\ [][Next]_vars
FairSpec == Spec /\ Fairness

-----------------------------------------------------------------------------
(* Properties *)

Resources == {"data", "region1", "class", "device", "cdev"}
\* Every variable has its type.
TypeOK ==
  /\ pinned \in BOOLEAN /\ sysfs \in BOOLEAN
  /\ module \in {"out", "in", "going"}
  /\ drv \in [Clients -> {"unbound", "probing", "bound", "failing",
                          "removing", "wedged"}]
  /\ step \in [Clients -> DOMAIN Probe]
  /\ \A c \in Clients : \A n \in DOMAIN undo[c] :
       undo[c][n] \in Resources \cup {"region0"}
  /\ held \in [Clients -> SUBSET Resources]
  /\ classPtr \in [Clients -> {"null", "ok", "err"}]
  /\ on \in [Files -> Clients \cup {NULL}]
  /\ age \in [Files -> {"fresh", "dataGone", "codeGone"}]
  /\ fault \in {"none", "nullDeref", "useAfterFree"}

\* Whichever calls of probe fail, seen or unseen, and however often a device
\* is bound, once it is unbound nothing is held for it: no device number, no
\* class name, no cdev in the memory the core has freed.
UnboundHoldsNothing == \A c \in Clients : drv[c] = "unbound" => held[c] = {}

\* What the owner line of i2cBaseDriver.c is there for: no file is ever open on
\* code that is gone, even if devices are unbound under open files; and if only
\* rmmod unbinds devices, the data lives as long as the files open on it, and no
\* freed memory is ever used.
PinnedFilesAreFresh ==
  pinned => /\ \A f \in Opened : age[f] # "codeGone"
            /\ ~sysfs => /\ \A f \in Opened : age[f] = "fresh"
                         /\ fault # "useAfterFree"

Stuck(c)  == drv[c] = "wedged" /\ classPtr[c] = "err"

\* rmmod comes to an end, unless a device without a class is stuck or a memory
\* error has ended everything.
RmmodEnds == module = "going" ~> \/ module = "out"
                                 \/ fault # "none"
                                 \/ \E c \in Clients : Stuck(c)
=============================================================================
