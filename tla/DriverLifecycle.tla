--------------------------- MODULE DriverLifecycle ---------------------------
(***************************************************************************)
(* What insmod and rmmod do to the kernel: the init and exit functions of  *)
(* the fourteen character drivers of the repository.  Eleven build their   *)
(* resources one by one and undo them with goto labels, three register a   *)
(* fixed major number.  Each function is a table, the calls of the source  *)
(* in their order; the actions interpret the tables, one call per step,    *)
(* interleaved with the loading of the other drivers and with clients that *)
(* open and close the device.                                              *)
(*                                                                         *)
(* The kernel is external.  What the drivers meet of it:                   *)
(*   - any call may fail, and says so in its own way (see Ladder); a       *)
(*     driver that looks for another sign goes on without the resource;    *)
(*   - two classes cannot have one name, and a class that was not created  *)
(*     yields an error pointer, which device_create refuses, class_destroy *)
(*     ignores and device_destroy follows: an oops, after which the module *)
(*     is stuck for good ("wedged");                                       *)
(*   - to release what nobody holds does nothing.  A region is released   *)
(*     only with the count it was allocated with, hence the number in the  *)
(*     name of the resource; unregister_chrdev(my_device_nr, ...) takes    *)
(*     256 minors of a major number and finds no such region;              *)
(*   - register_chrdev is refused a major number that is taken, and        *)
(*     unregister_chrdev takes it from whoever has it, be it a driver that *)
(*     does not belong to the repository ("foreign");                      *)
(*   - a cdev can be opened from cdev_add to cdev_del unless the module is *)
(*     being removed; an open file makes rmmod fail (.owner = THIS_MODULE) *)
(*     but does not keep a module whose init function failed.              *)
(* How the interrupt and the tasklet behave is in IrqDriver; that the      *)
(* adapter of bh1750.c may go, and its client with it, in SensorDriver.    *)
(***************************************************************************)
EXTENDS Ladder

CONSTANTS Fleets,  \* sets of drivers that are loaded into one machine
          MaxOpen  \* bound on the open files of one driver

Drivers == UNION Fleets

VARIABLES fleet,    \* the drivers somebody loads in this behaviour
          foreign,  \* the major numbers that drivers from elsewhere hold
          robbed,   \* history: the numbers they were deprived of
          mod,      \* mod[d]: the state of d's module
          step,     \* step[d]: the call of d's init function that comes next
          undo,     \* undo[d]: the releases still to be made
          held,     \* held[d]: the resources of the module loaded now
          classPtr, \* classPtr[d]: dev_class, my_class or cl
          opens,    \* opens[d]: the open files of d
          stale     \* stale[d]: what discarded modules of d have left behind

envVars == <<fleet, foreign, robbed>>
vars == <<envVars, mod, step, undo, held, classPtr, opens, stale>>

-----------------------------------------------------------------------------
(* The tables *)

\* Broken variant, for a mutant: an exit function releases the region too early.
exit_regionFirst == <<"device", "class", "region1", "cdev">>

\* techoGenius/simple_driver.c, and three drivers with the same two functions.
simple_driver_init ==
  << Get("region1", "negative", <<>>),
     Get("cdev",    "negative", <<"region1">>),
     Get("class",   "null",     <<"region1">>),
     Get("device",  "null",     <<"class", "region1">>) >>
simple_driver_exit == <<"device", "class", "cdev", "region1">>

first_init        == simple_driver_init
first_exit        == simple_driver_exit
basic_driver_init == simple_driver_init
basic_driver_exit == simple_driver_exit
base_driver_init  == simple_driver_init
base_driver_exit  == simple_driver_exit

\* The two drivers with a proc entry, which they never remove.
proc_driver_init ==
  << Get("region1", "negative", <<>>),
     Get("cdev",    "negative", <<"region1">>),
     Get("class",   "null",     <<"region1">>),
     Get("device",  "null",     <<"class", "region1">>),
     Get("proc",    "ignored",  <<>>) >>
proc_driver_exit == simple_driver_exit

first_driver_init == proc_driver_init
first_driver_exit == simple_driver_exit

\* The labels irq and r_device: the device and the cdev stay.
irq_driver_init ==
  << Get("region1", "negative", <<>>),
     Get("cdev",    "negative", <<"region1">>),
     Get("class",   "null",     <<"region1">>),
     Get("device",  "null",     <<"class", "region1">>),
     Get("irq",     "nonzero",  <<"irq", "class", "region1">>),
     Get("tasklet", "null",     <<"irq", "class", "region1">>) >>

\* Broken variant, for a mutant: exit forgets free_irq.
irq_exit_noFreeIrq == simple_driver_exit
irq_driver_exit == <<"irq", "device", "class", "cdev", "region1">>

\* The labels addError, fileError and classError: a failed cdev_add jumps to
\* the first of them, and none of them takes the cdev or the region back.
driver3_init ==
  << Get("region1", "negative", <<>>),
     Get("cdev",    "negative", <<"device", "class", "major256">>),
     Get("class",   "null",     <<"major256">>),
     Get("device",  "null",     <<"class", "major256">>) >>
driver3_exit == <<"device", "class", "cdev", "major256">>

driver4_init ==
  << Get("region1",  "negative", <<>>),
     Get("cdev",     "negative", <<"device", "class", "major256">>),
     Get("class",    "null",     <<"major256">>),
     Get("device",   "null",     <<"class", "major256">>),
     Get("gpio4",    "nonzero",  <<"device", "class", "major256">>),
     Get("output36", "nonzero",  <<"gpio4", "device", "class", "major256">>) >>
driver4_exit == <<"gpio4", "device", "class", "cdev", "major256">>

\* Without an adapter the function returns -1 and undoes nothing.
bh1750_init ==
  << Get("region1",    "negative", <<>>),
     Get("cdev",       "negative", <<"device", "class", "major256">>),
     Get("class",      "null",     <<"major256">>),
     Get("device",     "null",     <<"class", "major256">>),
     Get("adapter",    "null",     <<>>),
     Get("client",     "null",     <<>>),
     Get("i2c_driver", "ignored",  <<>>),
     Put("adapter") >>
bh1750_exit == <<"device", "class", "cdev", "client", "i2c_driver">>

\* Broken variant, for a mutant: the failure tests of the other drivers.
detailed_init_nullTests ==
  << Get("region3", "negative", <<>>),
     Get("class",   "null",     <<"region1">>),
     Get("device",  "null",     <<"class", "region1">>),
     Get("cdev",    "negative", <<"device", "class", "region1">>) >>

\* The one driver that tests for error pointers and publishes its cdev last.
detailed_init ==
  << Get("region3", "negative", <<>>),
     Get("class",   "IS_ERR",   <<"region1">>),
     Get("device",  "IS_ERR",   <<"class", "region1">>),
     Get("cdev",    "negative", <<"device", "class", "region1">>) >>
detailed_exit == <<"cdev", "device", "class", "region1">>

\* Broken variant, for a mutant: the result of register_chrdev is ignored.
driver2_init_unchecked == << Get("major91", "ignored", <<>>) >>

\* The drivers with fixed major numbers, each its own region and cdev.
driver2_init == << Get("major91", "negative", <<>>) >>
driver2_exit == <<"major91">>

ex07_init == << Get("major280", "ignored", <<>>) >>
ex07_exit == <<"major240">>

real_init == << Get("major128", "ignored", <<>>) >>
real_exit == <<"major128">>

Program(class, init, exit) == [class |-> class, init |-> init, exit |-> exit]
Programs ==
  [simple_driver      |-> Program("techo_class", simple_driver_init, simple_driver_exit),
   proc_device_driver |-> Program("techo_class", proc_driver_init, proc_driver_exit),
   irq_device_driver  |-> Program("techo_class", irq_driver_init, irq_driver_exit),
   first              |-> Program("my_class", first_init, first_exit),
   basic_driver       |-> Program("my_class", basic_driver_init, basic_driver_exit),
   base_driver        |-> Program("my_class", base_driver_init, base_driver_exit),
   first_driver       |-> Program("my_class", first_driver_init, first_driver_exit),
   driver3            |-> Program("my_module_class", driver3_init, driver3_exit),
   driver4            |-> Program("my_module_class", driver4_init, driver4_exit),
   bh1750             |-> Program("my_module_class", bh1750_init, bh1750_exit),
   detailed           |-> Program("chardev", detailed_init, detailed_exit),
   driver2            |-> Program("no class", driver2_init, driver2_exit),
   ex07               |-> Program("no class", ex07_init, ex07_exit),
   real_simple        |-> Program("no class", real_init, real_exit)]

\* The fixed numbers of driver2.c (MYMAJOR), real_simple_char_drv.c (128) and
\* ex07_simple_char_drv.c, which registers 280 and unregisters 240, each with its
\* 256 minors: entries of the kernel's table of major numbers.
Majors == {"major91", "major128", "major240", "major280"}

ASSUME LifecycleAssumption == Drivers \subseteq DOMAIN Programs /\ MaxOpen \in Nat

-----------------------------------------------------------------------------

Init == /\ fleet \in Fleets
        /\ foreign = {}
        /\ robbed = {}
        /\ mod = [d \in Drivers |-> "unloaded"]
        /\ step = [d \in Drivers |-> 1]
        /\ undo = [d \in Drivers |-> <<>>]
        /\ held = [d \in Drivers |-> {}]
        /\ classPtr = [d \in Drivers |-> "null"]
        /\ opens = [d \in Drivers |-> 0]
        /\ stale = [d \in Drivers |-> {}]

\* insmod: the module's data is fresh, the init function starts.
Insmod(d) == /\ d \in fleet
             /\ mod[d] = "unloaded"
             /\ mod' = [mod EXCEPT ![d] = "coming"]
             /\ step' = [step EXCEPT ![d] = 1]
             /\ classPtr' = [classPtr EXCEPT ![d] = "null"]
             /\ UNCHANGED <<envVars, undo, held, opens, stale>>

Call(d)   == Programs[d].init[step[d]]
IsLast(d) == step[d] = Len(Programs[d].init)

\* Broken variant, for a mutant: the position runs past the last call.
AdvancePastEnd(d) ==
  /\ mod' = [mod EXCEPT ![d] = IF IsLast(d) THEN "live" ELSE "coming"]
  /\ step' = [step EXCEPT ![d] = @ + 1]

\* The init function goes on with its next call, or returns 0.
Advance(d) == /\ mod' = [mod EXCEPT ![d] = IF IsLast(d) THEN "live" ELSE "coming"]
              /\ step' = [step EXCEPT ![d] = IF IsLast(d) THEN @ ELSE @ + 1]

\* What class_create leaves in the driver's class pointer.
SetClassPtr(d, value) ==
  classPtr' = [classPtr EXCEPT ![d] = IF Call(d).res = "class" THEN value ELSE @]

ClassTaken(d) == \E e \in Drivers : /\ Programs[e].class = Programs[d].class
                                    /\ "class" \in held[e] \cup stale[e]

MajorTaken(m) == m \in foreign \/ \E e \in Drivers : m \in held[e] \cup stale[e]

\* The cases in which the kernel is bound to refuse; it may in any other.
Refused(d) == \/ Call(d).res = "class" /\ ClassTaken(d)
              \/ Call(d).res = "device" /\ classPtr[d] = "err"
              \/ Call(d).res = "proc" /\ "proc" \in stale[d]
              \/ Call(d).res \in Majors /\ MajorTaken(Call(d).res)

AcquireOk(d) == /\ mod[d] = "coming"
                /\ Call(d).test # "put"
                /\ ~Refused(d)
                /\ held' = [held EXCEPT ![d] = @ \cup {Call(d).res}]
                /\ SetClassPtr(d, "ok")
                /\ Advance(d)
                /\ UNCHANGED <<envVars, undo, opens, stale>>

\* The call fails and the code sees it: on to the label.
AcquireFails(d) == /\ mod[d] = "coming"
                   /\ Call(d).test # "put"
                   /\ Sees(Call(d))
                   /\ mod' = [mod EXCEPT ![d] = "failing"]
                   /\ undo' = [undo EXCEPT ![d] = Call(d).then]
                   /\ SetClassPtr(d, "err")
                   /\ UNCHANGED <<envVars, step, held, opens, stale>>

\* The call fails and the code takes it for a success.
AcquireMissed(d) == /\ mod[d] = "coming"
                    /\ Call(d).test # "put"
                    /\ ~Sees(Call(d))
                    /\ SetClassPtr(d, "err")
                    /\ Advance(d)
                    /\ UNCHANGED <<envVars, undo, held, opens, stale>>

GiveBack(d) == /\ mod[d] = "coming"
               /\ Call(d).test = "put"
               /\ held' = [held EXCEPT ![d] = @ \ {Call(d).res}]
               /\ Advance(d)
               /\ UNCHANGED <<envVars, undo, classPtr, opens, stale>>

\* rmmod: refused while a file is open.
Rmmod(d) == /\ mod[d] = "live"
            /\ opens[d] = 0
            /\ mod' = [mod EXCEPT ![d] = "going"]
            /\ undo' = [undo EXCEPT ![d] = Programs[d].exit]
            /\ UNCHANGED <<envVars, step, held, classPtr, opens, stale>>

\* An error pointer, or the address of a class that has been destroyed.
BadClassPtr(d) == classPtr[d] = "err" \/ (classPtr[d] = "ok" /\ "class" \notin held[d])

Undoing(d) == mod[d] \in {"failing", "going"}

\* One release of an error path or of an exit function ...
Release(d) == /\ Undoing(d)
              /\ undo[d] # <<>>
              /\ ~(Head(undo[d]) = "device" /\ BadClassPtr(d))
              /\ held' = [held EXCEPT ![d] = @ \ {Head(undo[d])}]
              /\ undo' = [undo EXCEPT ![d] = Tail(@)]
              /\ foreign' = foreign \ {Head(undo[d])}
              /\ robbed' = robbed \cup (foreign \cap {Head(undo[d])})
              /\ UNCHANGED <<fleet, mod, step, classPtr, opens, stale>>

\* ... unless it is device_destroy through a bad class pointer.
Oops(d) == /\ Undoing(d)
           /\ undo[d] # <<>>
           /\ Head(undo[d]) = "device" /\ BadClassPtr(d)
           /\ mod' = [mod EXCEPT ![d] = "wedged"]
           /\ UNCHANGED <<envVars, step, undo, held, classPtr, opens, stale>>

\* The function returns and the loader frees the module's text and data.  What
\* it still holds, and files that are still open, now point into freed memory.
Discard(d) == /\ Undoing(d)
              /\ undo[d] = <<>>
              /\ mod' = [mod EXCEPT ![d] = "unloaded"]
              /\ held' = [held EXCEPT ![d] = {}]
              /\ opens' = [opens EXCEPT ![d] = 0]
              /\ stale' = [stale EXCEPT ![d] = @ \cup held[d] \cup
                                         (IF opens[d] > 0 THEN {"file"} ELSE {})]
              /\ UNCHANGED <<envVars, step, undo, classPtr>>

Open(d) == /\ held[d] \cap ({"cdev"} \cup Majors) # {}
           /\ mod[d] \in {"coming", "failing", "live"}
           /\ opens[d] < MaxOpen
           /\ opens' = [opens EXCEPT ![d] = @ + 1]
           /\ UNCHANGED <<envVars, mod, step, undo, held, classPtr, stale>>

Close(d) == /\ opens[d] > 0
            /\ opens' = [opens EXCEPT ![d] = @ - 1]
            /\ UNCHANGED <<envVars, mod, step, undo, held, classPtr, stale>>

\* Drivers from elsewhere come and go, with numbers this fleet is after.
Wanted == {m \in Majors : \E d \in fleet : \/ m = Head(Programs[d].init).res
                                          \/ m = Head(Programs[d].exit)}
ForeignRegister == /\ \E m \in Wanted : ~MajorTaken(m) /\ foreign' = foreign \cup {m}
                   /\ UNCHANGED <<fleet, robbed, mod, step, undo, held, classPtr,
                                  opens, stale>>
ForeignUnregister == /\ \E m \in foreign : foreign' = foreign \ {m}
                     /\ UNCHANGED <<fleet, robbed, mod, step, undo, held, classPtr,
                                    opens, stale>>

Next == \/ \E d \in Drivers :
             \/ Insmod(d) \/ AcquireOk(d) \/ AcquireFails(d) \/ AcquireMissed(d)
             \/ GiveBack(d) \/ Rmmod(d) \/ Release(d) \/ Oops(d) \/ Discard(d)
             \/ Open(d) \/ Close(d)
        \/ ForeignRegister \/ ForeignUnregister

\* A thread inside an init or exit function runs on; nobody need load,
\* unload, open or close anything.
LoaderStep(d) == \/ AcquireOk(d) \/ AcquireFails(d) \/ AcquireMissed(d) \/ GiveBack(d)
                 \/ Release(d) \/ Oops(d) \/ Discard(d)
Spec == Init /\ [][Next]_vars
FairSpec == Spec /\ \A d \in Drivers : WF_vars(LoaderStep(d))

-----------------------------------------------------------------------------
(* Properties *)

Resources == {"region1", "region3", "cdev", "class", "device", "proc", "irq", "tasklet",
              "gpio4", "output36", "adapter", "client", "i2c_driver"} \cup Majors
Releases  == Resources \cup {"major256"}

\* Every variable has its type.
TypeOK ==
  /\ fleet \in Fleets
  /\ foreign \subseteq Majors /\ robbed \subseteq Majors
  /\ mod \in [Drivers -> {"unloaded", "coming", "failing", "live", "going", "wedged"}]
  /\ \A d \in Drivers : step[d] \in DOMAIN Programs[d].init
  /\ \A d \in Drivers : \A n \in DOMAIN undo[d] : undo[d][n] \in Releases
  /\ held \in [Drivers -> SUBSET Resources]
  /\ classPtr \in [Drivers -> {"null", "ok", "err"}]
  /\ opens \in [Drivers -> 0 .. MaxOpen]
  /\ stale \in [Drivers -> SUBSET (Resources \cup {"file"})]

\* What all the loads and unloads of a driver may leave behind, at worst,
\* whichever calls fail and in whatever order the drivers come and go.
Residue(d) ==
  CASE d \in {"simple_driver", "first", "basic_driver", "base_driver"} -> {}
    [] d \in {"proc_device_driver", "first_driver"} -> {"proc"}
    [] d = "irq_device_driver" -> {"cdev", "device", "tasklet", "file"}
    [] d = "driver3"           -> {"region1"}
    [] d = "driver4"           -> {"region1", "cdev", "output36", "file"}
    [] d = "bh1750"            -> {"region1", "cdev", "class", "device", "file"}
    [] d = "detailed"          -> {"region3"}
    [] d \in {"driver2", "real_simple"} -> {}
    [] d = "ex07"              -> {"major280"}

\* Unloading, and a load that fails, leave nothing behind but the driver's
\* known residue: in particular the four plain drivers leave nothing at all,
\* in spite of the failures they miss and of clients opening the device while
\* it is being set up.  Nothing calls into a discarded module (through a cdev,
\* major number, open file, proc entry, interrupt handler or i2c driver) but in
\* those that can fail after cdev_add in a way they notice, have a proc entry,
\* or hand back a number other than the one they registered.
LeavesOnlyResidue == \A d \in Drivers : stale[d] \subseteq Residue(d)

\* The number of driver2.c is safe on both sides: it does not load while
\* another driver has it, and so never takes it from one.  The two drivers
\* that ignore what register_chrdev says do take theirs from others.
SparesOthers == robbed \subseteq {"major128", "major240"}

\* A device that can be opened, by right or because it was left behind, has a
\* device number of its own: the kernel cannot give the number to another
\* driver while files can still be opened through this one.  Only the error
\* path of irq_device_driver.c gives the number away under its cdev.
NumberCoversCdev ==
  \A d \in Drivers \ {"irq_device_driver"} :
    \A owned \in {held[d], stale[d]} :
      "cdev" \in owned => owned \cap {"region1", "region3"} # {}

\* A driver whose class was refused is never removed, but it is only such a
\* driver: every load ends with the module live or gone, every removal of a
\* module with a class ends, and detailed_init_exit.c, which tests for error
\* pointers, always comes to rest.
Busy(d) == mod[d] \in {"coming", "failing", "going"}
ComesToRest ==
  \A d \in Drivers :
    Busy(d) ~> \/ mod[d] \in {"live", "unloaded"}
               \/ mod[d] = "wedged" /\ classPtr[d] = "err" /\ d # "detailed"

\* When its exit function has made its last call, detailed_init_exit.c says
\* "detailed_init_exit unregistered.": a live module that is removed should then
\* hold nothing any more.
ExitUnregistersAll ==
  \A d \in Drivers : mod[d] = "going" /\ undo[d] = <<>> => held[d] = {}
=============================================================================
