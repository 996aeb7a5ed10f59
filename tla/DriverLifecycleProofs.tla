----------------------- MODULE DriverLifecycleProofs -----------------------
(***************************************************************************)
(* Proofs about DriverLifecycle, for any fleets of the fourteen drivers    *)
(* and any number of open files.  What the properties need of the tables   *)
(* is stated first and proved table by table (SoundTable,                  *)
(* NumberOutlivesCdev, Ordered); the invariants then speak of one driver   *)
(* at a time, since a step of one driver changes nothing that they say of  *)
(* another (OthersStay):                                                   *)
(*   HeldInv    what init has come to is undone by the releases ahead;     *)
(*   FirstInv   a first call whose failure is noticed has succeeded;       *)
(*   NumberInv  the cdev has a number under it, and goes first;            *)
(*   MajorInv   who gives 91 back has it, and nobody else can;             *)
(*   ClassInv   the class goes after the device, so no driver follows the  *)
(*              pointer of a class it has destroyed.                       *)
(***************************************************************************)
EXTENDS DriverLifecycle, TLAPS

-----------------------------------------------------------------------------
(* The tables *)

Regions  == {"region1", "region3"}
Openable == {"cdev"} \cup Majors

\* What an init function may hold when it comes to its n-th call.
Before(init, n) == {init[m].res : m \in 1 .. n - 1}

\* What is given back by the releases that are still to be made.
Ahead(u) == {u[n] : n \in DOMAIN u}

\* No device number is given back before the cdev.
Covered(u) == \A n \in DOMAIN u : u[n] \in Regions => \E m \in 1 .. n - 1 : u[m] = "cdev"

\* The labels of the init functions, and the exit functions, in one set.
Lists ==
  { <<>>, <<"region1">>, <<"class", "region1">>, <<"device", "class", "region1">>,
    <<"irq", "class", "region1">>, <<"major256">>, <<"class", "major256">>,
    <<"device", "class", "major256">>, <<"gpio4", "device", "class", "major256">>,
    simple_driver_exit, irq_driver_exit, driver3_exit, driver4_exit, bh1750_exit,
    detailed_exit, driver2_exit, ex07_exit, real_exit }

WellFormed(init, exit) ==
  /\ Len(init) \in Nat \ {0} /\ DOMAIN init = 1 .. Len(init)
  /\ exit \in Lists
  /\ init[1].res # "adapter"
  /\ \A n \in DOMAIN init :
       /\ init[n].res \in Resources /\ init[n].then \in Lists
       /\ init[n].test = "put" => init[n].res = "adapter"

\* Whatever fails is undone, and so is everything in the end, but for the
\* residue; and the residue knows of the files that a failure may find open.
Undone(init, exit, residue) ==
  /\ \A n \in DOMAIN init : Sees(init[n]) =>
       /\ Before(init, n) \subseteq Ahead(init[n].then) \cup residue
       /\ Before(init, n) \cap Openable # {} => "file" \in residue
  /\ LET last == init[Len(init)]
     IN  /\ last.test = "put" =>
              Before(init, Len(init)) \ {last.res} \subseteq Ahead(exit) \cup residue
         /\ last.test # "put" =>
              Before(init, Len(init)) \cup {last.res} \subseteq Ahead(exit) \cup residue

\* The cdev comes after its number, whose failure is noticed, and goes before it.
NumberOutlivesCdev(init, exit) ==
  /\ Covered(exit)
  /\ \A n \in DOMAIN init :
       /\ init[n].res = "cdev" => (n > 1 /\ Sees(init[1]) /\ init[1].res \in Regions)
       /\ Sees(init[n]) /\ "cdev" \in Before(init, n) => Covered(init[n].then)

\* The major number of driver2.c is given back by the one exit function that
\* has it to give, and that of ex07.c is not given back at all.
Own91(init, exit) ==
  /\ \A n \in DOMAIN init : {"major91", "major280"} \cap Ahead(init[n].then) = {}
  /\ "major280" \notin Ahead(exit)
  /\ "major91" \in Ahead(exit) =>
       exit = <<"major91">> /\ Sees(init[1]) /\ init[1].res = "major91"

SoundTable(init, exit, residue) ==
  WellFormed(init, exit) /\ Undone(init, exit, residue) /\ Own91(init, exit)

InitOf(d) == Programs[d].init
ExitOf(d) == Programs[d].exit

\* All lists of releases are sequences of known ones.
LEMMA ListTypes == Lists \subseteq Seq(Releases)
<1>. USE DEF Releases, Resources, Majors
<1>1. /\ <<>> \in Seq(Releases) /\ <<"region1">> \in Seq(Releases)
      /\ <<"class", "region1">> \in Seq(Releases)
      /\ <<"device", "class", "region1">> \in Seq(Releases)
      /\ <<"irq", "class", "region1">> \in Seq(Releases)
  OBVIOUS
<1>2. /\ <<"major256">> \in Seq(Releases)
      /\ <<"class", "major256">> \in Seq(Releases)
      /\ <<"device", "class", "major256">> \in Seq(Releases)
      /\ <<"gpio4", "device", "class", "major256">> \in Seq(Releases)
  OBVIOUS
<1>3. /\ simple_driver_exit \in Seq(Releases) /\ irq_driver_exit \in Seq(Releases)
      /\ driver3_exit \in Seq(Releases) /\ driver4_exit \in Seq(Releases)
      /\ bh1750_exit \in Seq(Releases) /\ detailed_exit \in Seq(Releases)
  BY DEF simple_driver_exit, irq_driver_exit, driver3_exit, driver4_exit, bh1750_exit,
         detailed_exit
<1>4. /\ driver2_exit \in Seq(Releases) /\ ex07_exit \in Seq(Releases)
      /\ real_exit \in Seq(Releases)
  BY DEF driver2_exit, ex07_exit, real_exit
<1>. HIDE DEF Releases
<1>. QED
  BY <1>1, <1>2, <1>3, <1>4 DEF Lists

\* The ten pairs of tables, with the residue of their drivers: goto labels that
\* forget nothing, and miss the failures that come after class_create.
LEMMA SimpleTable == SoundTable(simple_driver_init, simple_driver_exit, {})
<1>1. WellFormed(simple_driver_init, simple_driver_exit)
  BY DEF WellFormed, simple_driver_init, Get, Lists, Resources, Majors
<1>2. Undone(simple_driver_init, simple_driver_exit, {})
  BY DEF Undone, simple_driver_init, simple_driver_exit, Get, Before, Ahead, Openable,
         Majors, Sees, Convention
<1>3. Own91(simple_driver_init, simple_driver_exit)
  BY DEF Own91, simple_driver_init, simple_driver_exit, Get, Ahead, Sees, Convention
<1>. QED
  BY <1>1, <1>2, <1>3 DEF SoundTable

\* The proc entry is never removed.
LEMMA ProcTable == SoundTable(proc_driver_init, simple_driver_exit, {"proc"})
<1>1. WellFormed(proc_driver_init, simple_driver_exit)
  BY DEF WellFormed, proc_driver_init, Get, Lists, Resources, Majors
<1>2. Undone(proc_driver_init, simple_driver_exit, {"proc"})
  BY DEF Undone, proc_driver_init, simple_driver_exit, Get, Before, Ahead, Openable, Majors,
         Sees, Convention
<1>3. Own91(proc_driver_init, simple_driver_exit)
  BY DEF Own91, proc_driver_init, simple_driver_exit, Get, Ahead, Sees, Convention
<1>. QED
  BY <1>1, <1>2, <1>3 DEF SoundTable

\* The labels irq and r_device leave the cdev and the device.
LEMMA IrqTable ==
  SoundTable(irq_driver_init, irq_driver_exit, {"cdev", "device", "tasklet", "file"})
<1>1. WellFormed(irq_driver_init, irq_driver_exit)
  BY DEF WellFormed, irq_driver_init, Get, Lists, Resources, Majors
<1>2. Undone(irq_driver_init, irq_driver_exit, {"cdev", "device", "tasklet", "file"})
  BY DEF Undone, irq_driver_init, irq_driver_exit, Get, Before, Ahead, Openable, Majors,
         Sees, Convention
<1>3. Own91(irq_driver_init, irq_driver_exit)
  BY DEF Own91, irq_driver_init, irq_driver_exit, Get, Ahead, Sees, Convention
<1>. QED
  BY <1>1, <1>2, <1>3 DEF SoundTable

\* No label of driver3.c takes the region back, and exit takes another count.
LEMMA Driver3Table == SoundTable(driver3_init, driver3_exit, {"region1"})
<1>1. WellFormed(driver3_init, driver3_exit)
  BY DEF WellFormed, driver3_init, Get, Lists, Resources, Majors
<1>2. Undone(driver3_init, driver3_exit, {"region1"})
  BY DEF Undone, driver3_init, driver3_exit, Get, Before, Ahead, Openable, Majors,
         Sees, Convention
<1>3. Own91(driver3_init, driver3_exit)
  BY DEF Own91, driver3_init, driver3_exit, Get, Ahead, Sees, Convention
<1>. QED
  BY <1>1, <1>2, <1>3 DEF SoundTable

\* Nor does driver4.c, whose late failures leave the cdev as well.
LEMMA Driver4Table ==
  SoundTable(driver4_init, driver4_exit, {"region1", "cdev", "output36", "file"})
<1>1. WellFormed(driver4_init, driver4_exit)
  BY DEF WellFormed, driver4_init, Get, Lists, Resources, Majors
<1>2. Undone(driver4_init, driver4_exit, {"region1", "cdev", "output36", "file"})
  BY DEF Undone, driver4_init, driver4_exit, Get, Before, Ahead, Openable, Majors,
         Sees, Convention
<1>3. Own91(driver4_init, driver4_exit)
  BY DEF Own91, driver4_init, driver4_exit, Get, Ahead, Sees, Convention
<1>. QED
  BY <1>1, <1>2, <1>3 DEF SoundTable

\* Nothing is undone when there is no adapter or no client.
LEMMA Bh1750Table ==
  SoundTable(bh1750_init, bh1750_exit, {"region1", "cdev", "class", "device", "file"})
<1>1. WellFormed(bh1750_init, bh1750_exit)
  BY DEF WellFormed, bh1750_init, Get, Put, Lists, Resources, Majors
<1>2. Undone(bh1750_init, bh1750_exit, {"region1", "cdev", "class", "device", "file"})
  BY DEF Undone, bh1750_init, bh1750_exit, Put, Get, Before, Ahead, Openable, Majors,
         Sees, Convention
<1>3. Own91(bh1750_init, bh1750_exit)
  <2>1. \A n \in DOMAIN bh1750_init :
          {"major91", "major280"} \cap Ahead(bh1750_init[n].then) = {}
    BY DEF bh1750_init, Get, Put, Ahead
  <2>2. {"major91", "major280"} \cap Ahead(bh1750_exit) = {}
    BY DEF bh1750_exit, Ahead
  <2>. QED
    BY <2>1, <2>2 DEF Own91
<1>. QED
  BY <1>1, <1>2, <1>3 DEF SoundTable

\* Three minors are allocated and one is released.
LEMMA DetailedTable == SoundTable(detailed_init, detailed_exit, {"region3"})
<1>1. WellFormed(detailed_init, detailed_exit)
  BY DEF WellFormed, detailed_init, Get, Lists, Resources, Majors
<1>2. Undone(detailed_init, detailed_exit, {"region3"})
  BY DEF Undone, detailed_init, detailed_exit, Get, Before, Ahead, Openable, Majors,
         Sees, Convention
<1>3. Own91(detailed_init, detailed_exit)
  BY DEF Own91, detailed_init, detailed_exit, Get, Ahead, Sees, Convention
<1>. QED
  BY <1>1, <1>2, <1>3 DEF SoundTable

\* The one number of driver2.c is given back.
LEMMA Driver2Table == SoundTable(driver2_init, driver2_exit, {})
<1>1. WellFormed(driver2_init, driver2_exit)
  BY DEF WellFormed, driver2_init, Get, Lists, Resources, Majors
<1>2. Undone(driver2_init, driver2_exit, {})
  BY DEF Undone, driver2_init, driver2_exit, Get, Before, Ahead, Openable, Majors,
         Sees, Convention
<1>3. Own91(driver2_init, driver2_exit)
  BY DEF Own91, driver2_init, driver2_exit, Get, Ahead, Sees, Convention
<1>. QED
  BY <1>1, <1>2, <1>3 DEF SoundTable

\* ex07 gives back another number than it has.
LEMMA Ex07Table == SoundTable(ex07_init, ex07_exit, {"major280"})
<1>1. WellFormed(ex07_init, ex07_exit)
  BY DEF WellFormed, ex07_init, Get, Lists, Resources, Majors
<1>2. Undone(ex07_init, ex07_exit, {"major280"})
  BY DEF Undone, ex07_init, ex07_exit, Get, Before, Ahead, Openable, Majors,
         Sees, Convention
<1>3. Own91(ex07_init, ex07_exit)
  BY DEF Own91, ex07_init, ex07_exit, Get, Ahead, Sees, Convention
<1>. QED
  BY <1>1, <1>2, <1>3 DEF SoundTable

\* The one number of real_simple_char_drv.c is given back.
LEMMA RealTable == SoundTable(real_init, real_exit, {})
<1>1. WellFormed(real_init, real_exit)
  BY DEF WellFormed, real_init, Get, Lists, Resources, Majors
<1>2. Undone(real_init, real_exit, {})
  BY DEF Undone, real_init, real_exit, Get, Before, Ahead, Openable, Majors,
         Sees, Convention
<1>3. Own91(real_init, real_exit)
  BY DEF Own91, real_init, real_exit, Get, Ahead, Sees, Convention
<1>. QED
  BY <1>1, <1>2, <1>3 DEF SoundTable

\* The residue of each driver.
LEMMA ResidueOf ==
  /\ \A d \in {"simple_driver", "first", "basic_driver", "base_driver", "driver2",
              "real_simple"} : Residue(d) = {}
  /\ Residue("proc_device_driver") = {"proc"} /\ Residue("first_driver") = {"proc"}
  /\ Residue("irq_device_driver") = {"cdev", "device", "tasklet", "file"}
  /\ Residue("driver3") = {"region1"}
  /\ Residue("driver4") = {"region1", "cdev", "output36", "file"}
  /\ Residue("bh1750") = {"region1", "cdev", "class", "device", "file"}
  /\ Residue("detailed") = {"region3"}
  /\ Residue("ex07") = {"major280"}
BY DEF Residue

\* Which tables are whose.
LEMMA TableOf ==
  ASSUME NEW d \in Drivers
  PROVE  \/ /\ InitOf(d) = simple_driver_init /\ ExitOf(d) = simple_driver_exit
            /\ Residue(d) = {}
            /\ d # "irq_device_driver"
         \/ /\ InitOf(d) = proc_driver_init /\ ExitOf(d) = simple_driver_exit
            /\ Residue(d) = {"proc"}
            /\ d # "irq_device_driver"
         \/ /\ InitOf(d) = irq_driver_init /\ ExitOf(d) = irq_driver_exit
            /\ Residue(d) = {"cdev", "device", "tasklet", "file"}
            /\ d = "irq_device_driver"
         \/ /\ InitOf(d) = driver3_init /\ ExitOf(d) = driver3_exit
            /\ Residue(d) = {"region1"}
            /\ d # "irq_device_driver"
         \/ /\ InitOf(d) = driver4_init /\ ExitOf(d) = driver4_exit
            /\ Residue(d) = {"region1", "cdev", "output36", "file"}
            /\ d # "irq_device_driver"
         \/ /\ InitOf(d) = bh1750_init /\ ExitOf(d) = bh1750_exit
            /\ Residue(d) = {"region1", "cdev", "class", "device", "file"}
            /\ d # "irq_device_driver"
         \/ /\ InitOf(d) = detailed_init /\ ExitOf(d) = detailed_exit
            /\ Residue(d) = {"region3"}
            /\ d # "irq_device_driver"
         \/ /\ InitOf(d) = driver2_init /\ ExitOf(d) = driver2_exit
            /\ Residue(d) = {}
            /\ d # "irq_device_driver"
         \/ /\ InitOf(d) = ex07_init /\ ExitOf(d) = ex07_exit
            /\ Residue(d) = {"major280"}
            /\ d # "irq_device_driver"
         \/ /\ InitOf(d) = real_init /\ ExitOf(d) = real_exit
            /\ Residue(d) = {}
            /\ d # "irq_device_driver"
<1>1. /\ InitOf("simple_driver") = simple_driver_init
      /\ ExitOf("simple_driver") = simple_driver_exit
      /\ InitOf("first") = simple_driver_init
      /\ ExitOf("first") = simple_driver_exit
      /\ InitOf("basic_driver") = simple_driver_init
      /\ ExitOf("basic_driver") = simple_driver_exit
      /\ InitOf("base_driver") = simple_driver_init
      /\ ExitOf("base_driver") = simple_driver_exit
  BY DEF InitOf, ExitOf, Programs, Program, first_init, first_exit, basic_driver_init,
         basic_driver_exit, base_driver_init, base_driver_exit
<1>2. /\ InitOf("proc_device_driver") = proc_driver_init
      /\ ExitOf("proc_device_driver") = simple_driver_exit
      /\ InitOf("first_driver") = proc_driver_init
      /\ ExitOf("first_driver") = simple_driver_exit
  BY DEF InitOf, ExitOf, Programs, Program, first_driver_init, first_driver_exit,
         proc_driver_exit
<1>3. /\ InitOf("irq_device_driver") = irq_driver_init
      /\ ExitOf("irq_device_driver") = irq_driver_exit
      /\ InitOf("driver3") = driver3_init
      /\ ExitOf("driver3") = driver3_exit
      /\ InitOf("driver4") = driver4_init
      /\ ExitOf("driver4") = driver4_exit
      /\ InitOf("bh1750") = bh1750_init
      /\ ExitOf("bh1750") = bh1750_exit
  BY DEF InitOf, ExitOf, Programs, Program
<1>4. /\ InitOf("detailed") = detailed_init
      /\ ExitOf("detailed") = detailed_exit
      /\ InitOf("driver2") = driver2_init
      /\ ExitOf("driver2") = driver2_exit
      /\ InitOf("ex07") = ex07_init
      /\ ExitOf("ex07") = ex07_exit
      /\ InitOf("real_simple") = real_init
      /\ ExitOf("real_simple") = real_exit
  BY DEF InitOf, ExitOf, Programs, Program
<1>5. DOMAIN Programs =
         {"simple_driver", "first", "basic_driver", "base_driver", "proc_device_driver",
          "first_driver", "irq_device_driver", "driver3", "driver4", "bh1750", "detailed",
          "driver2", "ex07", "real_simple"}
  BY DEF Programs
<1>. QED
  BY <1>1, <1>2, <1>3, <1>4, <1>5, ResidueOf, LifecycleAssumption

\* Every table is sound with the residue that is said of its driver.
LEMMA Tables ==
  ASSUME NEW d \in Drivers
  PROVE  SoundTable(InitOf(d), ExitOf(d), Residue(d))
BY TableOf, SimpleTable, ProcTable, IrqTable, Driver3Table, Driver4Table, Bh1750Table,
   DetailedTable, Driver2Table, Ex07Table, RealTable

\* In all tables but those of irq_device_driver.c the device number is there
\* before the cdev and as long as it.
LEMMA NumberTables ==
  ASSUME NEW d \in Drivers, d # "irq_device_driver"
  PROVE  NumberOutlivesCdev(InitOf(d), ExitOf(d))
<1>. USE DEF NumberOutlivesCdev, Get, Before, Covered, Regions, Sees, Convention
<1>1. NumberOutlivesCdev(simple_driver_init, simple_driver_exit)
  BY DEF simple_driver_init, simple_driver_exit
<1>2. NumberOutlivesCdev(proc_driver_init, simple_driver_exit)
  BY DEF proc_driver_init, simple_driver_exit
<1>3. NumberOutlivesCdev(driver3_init, driver3_exit)
  BY DEF driver3_init, driver3_exit
<1>4. NumberOutlivesCdev(driver4_init, driver4_exit)
  <2>1. \A n \in DOMAIN driver4_init : Covered(driver4_init[n].then)
    BY DEF driver4_init
  <2>2. \A n \in DOMAIN driver4_init : driver4_init[n].res = "cdev" =>
          n > 1 /\ Sees(driver4_init[1]) /\ driver4_init[1].res \in Regions
    BY DEF driver4_init
  <2>3. Covered(driver4_exit)
    BY DEF driver4_exit
  <2>. QED
    BY <2>1, <2>2, <2>3
<1>5. NumberOutlivesCdev(bh1750_init, bh1750_exit)
  BY SMTT(60) DEF bh1750_init, bh1750_exit, Put
<1>6. NumberOutlivesCdev(detailed_init, detailed_exit)
  BY DEF detailed_init, detailed_exit
<1>7. NumberOutlivesCdev(driver2_init, driver2_exit)
  BY DEF driver2_init, driver2_exit
<1>8. NumberOutlivesCdev(ex07_init, ex07_exit)
  BY DEF ex07_init, ex07_exit
<1>9. NumberOutlivesCdev(real_init, real_exit)
  BY DEF real_init, real_exit
<1>. HIDE DEF NumberOutlivesCdev
<1>. QED
  BY <1>1, <1>2, <1>3, <1>4, <1>5, <1>6, <1>7, <1>8, <1>9, TableOf

-----------------------------------------------------------------------------
(* Sequences of calls and of releases *)

\* What init may hold grows by the resource of each call.
LEMMA BeforeNext ==
  ASSUME NEW init, NEW n \in Nat, n > 0
  PROVE  Before(init, 1) = {} /\ Before(init, n + 1) = Before(init, n) \cup {init[n].res}
BY DEF Before

\* What is ahead of a release is what is ahead after it and its resource.
LEMMA AheadTail ==
  ASSUME NEW u \in Seq(Releases), u # <<>>
  PROVE  /\ Tail(u) \in Seq(Releases) /\ Head(u) \in Ahead(u)
         /\ Ahead(u) = {Head(u)} \cup Ahead(Tail(u))
<1>1. /\ Tail(u) \in Seq(Releases) /\ Len(u) \in Nat \ {0} /\ Head(u) = u[1]
      /\ Len(Tail(u)) = Len(u) - 1
      /\ \A n \in 1 .. Len(u) - 1 : Tail(u)[n] = u[n + 1]
      /\ DOMAIN u = 1 .. Len(u) /\ DOMAIN Tail(u) = 1 .. Len(u) - 1
  OBVIOUS
<1>2. ASSUME NEW n \in 1 .. Len(u) PROVE u[n] \in {Head(u)} \cup Ahead(Tail(u))
  <2>1. CASE n = 1
    BY <1>1, <2>1
  <2>2. CASE n # 1
    <3>1. n - 1 \in 1 .. Len(u) - 1 /\ Tail(u)[n - 1] = u[n]
      BY <1>1, <2>2
    <3>. QED
      BY <1>1, <3>1 DEF Ahead
  <2>. QED
    BY <2>1, <2>2
<1>3. ASSUME NEW n \in 1 .. Len(u) - 1 PROVE Tail(u)[n] \in Ahead(u)
  <2>1. n + 1 \in 1 .. Len(u)
    BY <1>1
  <2>. QED
    BY <1>1, <2>1 DEF Ahead
<1>4. u[1] \in Ahead(u)
  BY <1>1 DEF Ahead
<1>. QED
  BY <1>1, <1>2, <1>3, <1>4 DEF Ahead

\* As long as the cdev is not what is given back, its number stays covered.
LEMMA CoveredTail ==
  ASSUME NEW u \in Seq(Releases), u # <<>>, Covered(u), Head(u) # "cdev"
  PROVE  Head(u) \notin Regions /\ Covered(Tail(u))
<1>1. /\ Len(u) \in Nat \ {0} /\ Head(u) = u[1]
      /\ \A n \in 1 .. Len(u) - 1 : Tail(u)[n] = u[n + 1]
      /\ DOMAIN u = 1 .. Len(u) /\ DOMAIN Tail(u) = 1 .. Len(u) - 1
  OBVIOUS
<1>2. Head(u) \notin Regions
  BY <1>1 DEF Covered
<1>3. ASSUME NEW n \in 1 .. Len(u) - 1, Tail(u)[n] \in Regions
      PROVE  \E m \in 1 .. n - 1 : Tail(u)[m] = "cdev"
  <2>1. n + 1 \in 1 .. Len(u) /\ u[n + 1] \in Regions
    BY <1>1, <1>3
  <2>2. PICK m \in 1 .. n : u[m] = "cdev"
    BY <1>1, <2>1 DEF Covered
  <2>3. m # 1
    BY <1>1, <2>2
  <2>4. m - 1 \in 1 .. n - 1 /\ Tail(u)[m - 1] = "cdev"
    BY <1>1, <2>2, <2>3
  <2>. QED
    BY <2>4
<1>. QED
  BY <1>1, <1>2, <1>3 DEF Covered

-----------------------------------------------------------------------------
(* Types *)

\* TypeOK, and that the releases still to be made are a sequence of known ones.
Types ==
  /\ TypeOK
  /\ step \in [Drivers -> Nat \ {0}]
  /\ undo \in [Drivers -> Seq(Releases)]

LoaderOf(d) == \/ Insmod(d) \/ AcquireOk(d) \/ AcquireFails(d) \/ AcquireMissed(d)
               \/ GiveBack(d) \/ Rmmod(d) \/ Release(d) \/ Oops(d) \/ Discard(d)
DriverStep(d) == LoaderOf(d) \/ Open(d) \/ Close(d)

\* The call that init has come to is one of its table.
LEMMA CallOf ==
  ASSUME Types, NEW d \in Drivers
  PROVE  /\ step[d] \in 1 .. Len(InitOf(d)) /\ Call(d) = InitOf(d)[step[d]]
         /\ Len(InitOf(d)) \in Nat \ {0} /\ DOMAIN InitOf(d) = 1 .. Len(InitOf(d))
         /\ Call(d).res \in Resources /\ Call(d).then \in Seq(Releases)
         /\ IsLast(d) <=> step[d] = Len(InitOf(d))
         /\ ExitOf(d) \in Seq(Releases)
<1>1. WellFormed(InitOf(d), ExitOf(d))
  BY Tables DEF SoundTable
<1>2. step[d] \in DOMAIN InitOf(d)
  BY DEF Types, TypeOK, InitOf
<1>. QED
  BY <1>1, <1>2, ListTypes DEF WellFormed, Call, IsLast, InitOf

\* A step keeps the types: the releases of the tables are known ones.
LEMMA TypeStep == Types /\ [Next]_vars => Types'
<1>. SUFFICES ASSUME Types, [Next]_vars PROVE Types'
  OBVIOUS
<1>. USE DEF envVars
<1>. DEFINE Rest == /\ fleet' \in Fleets
                    /\ foreign' \subseteq Majors /\ robbed' \subseteq Majors
                    /\ mod' \in [Drivers -> {"unloaded", "coming", "failing", "live",
                                             "going", "wedged"}]
                    /\ held' \in [Drivers -> SUBSET Resources]
                    /\ classPtr' \in [Drivers -> {"null", "ok", "err"}]
                    /\ opens' \in [Drivers -> 0 .. MaxOpen]
                    /\ stale' \in [Drivers -> SUBSET (Resources \cup {"file"})]
            Steps == /\ step' \in [Drivers -> Nat \ {0}]
                     /\ \A d \in Drivers : step'[d] \in 1 .. Len(InitOf(d))
            Undos == undo' \in [Drivers -> Seq(Releases)]
<1>0. ASSUME Rest, Steps, Undos PROVE Types'
  <2>1. \A d \in Drivers : step'[d] \in DOMAIN Programs[d].init
    BY <1>0, CallOf DEF InitOf
  <2>2. \A d \in Drivers : \A n \in DOMAIN undo'[d] : undo'[d][n] \in Releases
    BY <1>0
  <2>. QED
    BY <1>0, <2>1, <2>2 DEF Types, TypeOK
<1>1. /\ \A d \in Drivers : step[d] \in 1 .. Len(InitOf(d))
      /\ \A d \in Drivers : Len(InitOf(d)) \in Nat \ {0}
  BY CallOf
<1>2. ASSUME NEW d \in Drivers, Advance(d)
      PROVE  /\ Steps
             /\ mod' \in [Drivers -> {"unloaded", "coming", "failing", "live", "going",
                                      "wedged"}]
  <2>1. step' \in [Drivers -> Nat \ {0}]
    BY <1>2 DEF Types, Advance
  <2>2. step'[d] \in 1 .. Len(InitOf(d))
    BY <1>1, <1>2, CallOf DEF Advance, Types
  <2>3. \A e \in Drivers \ {d} : step'[e] = step[e]
    BY <1>2 DEF Advance, Types
  <2>. QED
    BY <1>1, <1>2, <2>1, <2>2, <2>3 DEF Advance, Types, TypeOK
<1>. USE DEF Types, TypeOK
<1>3. ASSUME NEW d \in Drivers, Insmod(d) PROVE Types'
  BY <1>0, <1>1, <1>3 DEF Insmod
<1>4. ASSUME NEW d \in Drivers, AcquireOk(d) PROVE Types'
  <2>1. held' \in [Drivers -> SUBSET Resources]
    BY <1>4, CallOf DEF AcquireOk
  <2>2. classPtr' \in [Drivers -> {"null", "ok", "err"}]
    BY <1>4 DEF AcquireOk, SetClassPtr
  <2>. QED
    BY <1>0, <1>2, <1>4, <2>1, <2>2 DEF AcquireOk
<1>5. ASSUME NEW d \in Drivers, AcquireFails(d) PROVE Types'
  BY <1>0, <1>1, <1>5, CallOf DEF AcquireFails, SetClassPtr
<1>6. ASSUME NEW d \in Drivers, AcquireMissed(d) PROVE Types'
  BY <1>0, <1>2, <1>6 DEF AcquireMissed, SetClassPtr
<1>7. ASSUME NEW d \in Drivers, GiveBack(d) PROVE Types'
  BY <1>0, <1>2, <1>7 DEF GiveBack
<1>8. ASSUME NEW d \in Drivers, Rmmod(d) PROVE Types'
  BY <1>0, <1>1, <1>8, CallOf DEF Rmmod, ExitOf
<1>9. ASSUME NEW d \in Drivers, Release(d) PROVE Types'
  BY <1>0, <1>1, <1>9, AheadTail DEF Release
<1>10. ASSUME NEW d \in Drivers, Oops(d) PROVE Types'
  BY <1>0, <1>1, <1>10 DEF Oops
<1>11. ASSUME NEW d \in Drivers, Discard(d) PROVE Types'
  BY <1>0, <1>1, <1>11, LifecycleAssumption DEF Discard
<1>12. ASSUME NEW d \in Drivers, Open(d) \/ Close(d) PROVE Types'
  <2>1. opens[d] \in 0 .. MaxOpen /\ MaxOpen \in Nat
    BY LifecycleAssumption
  <2>2. CASE Open(d)
    <3>1. opens[d] + 1 \in 0 .. MaxOpen
      BY <2>1, <2>2 DEF Open
    <3>. QED
      BY <1>0, <1>1, <2>2, <3>1 DEF Open
  <2>3. CASE Close(d)
    <3>1. opens[d] - 1 \in 0 .. MaxOpen
      BY <2>1, <2>3 DEF Close
    <3>. QED
      BY <1>0, <1>1, <2>3, <3>1 DEF Close
  <2>. QED
    BY <1>12, <2>2, <2>3
<1>13. CASE ForeignRegister \/ ForeignUnregister
  BY <1>0, <1>1, <1>13 DEF ForeignRegister, ForeignUnregister, Wanted
<1>14. CASE UNCHANGED vars
  BY <1>0, <1>1, <1>14 DEF vars
<1>. QED
  BY <1>3, <1>4, <1>5, <1>6, <1>7, <1>8, <1>9, <1>10, <1>11, <1>12, <1>13, <1>14 DEF Next

\* The types, with what they say of step and undo as functions.
LEMMA AlwaysTyped == Spec => []Types
<1>1. Init => Types
  <2>. SUFFICES ASSUME Init PROVE Types
    OBVIOUS
  <2>1. \A d \in Drivers : 1 \in DOMAIN Programs[d].init
    BY Tables DEF SoundTable, WellFormed, InitOf
  <2>. QED
    BY <2>1, LifecycleAssumption DEF Init, Types, TypeOK
<1>. QED
  BY <1>1, TypeStep, PTL DEF Spec

\* Every variable keeps its type: no release is made but those of the tables.
THEOREM TypeCorrect == Spec => []TypeOK
<1>1. Types => TypeOK
  BY DEF Types
<1>. QED
  BY <1>1, AlwaysTyped, PTL

-----------------------------------------------------------------------------
(* One driver at a time *)

\* What the other drivers are and have stays as it is.
LEMMA OthersStay ==
  ASSUME Types, NEW d \in Drivers, NEW e \in Drivers, e # d, DriverStep(d)
  PROVE  UNCHANGED <<mod[e], step[e], undo[e], held[e], classPtr[e], opens[e], stale[e]>>
<1>. USE DEF Types, TypeOK, Advance, SetClassPtr
<1>1. CASE Insmod(d) BY <1>1 DEF Insmod
<1>2. CASE AcquireOk(d) BY <1>2 DEF AcquireOk
<1>3. CASE AcquireFails(d) BY <1>3 DEF AcquireFails
<1>4. CASE AcquireMissed(d) BY <1>4 DEF AcquireMissed
<1>5. CASE GiveBack(d) BY <1>5 DEF GiveBack
<1>6. CASE Rmmod(d) BY <1>6 DEF Rmmod
<1>7. CASE Release(d) BY <1>7 DEF Release
<1>8. CASE Oops(d) BY <1>8 DEF Oops
<1>9. CASE Discard(d) BY <1>9 DEF Discard
<1>10. CASE Open(d) \/ Close(d) BY <1>10 DEF Open, Close
<1>. QED
  BY <1>1, <1>2, <1>3, <1>4, <1>5, <1>6, <1>7, <1>8, <1>9, <1>10 DEF DriverStep, LoaderOf

\* Drivers from elsewhere, and steps of nobody, leave all of them alone.
LEMMA ElsewhereSpares ==
  ASSUME ForeignRegister \/ ForeignUnregister \/ UNCHANGED vars
  PROVE  UNCHANGED <<mod, step, undo, held, classPtr, opens, stale, robbed>>
BY DEF ForeignRegister, ForeignUnregister, vars, envVars

\* A step is a step of one driver, or of the drivers from elsewhere.
LEMMA NextCases ==
  [Next]_vars => \/ \E d \in Drivers : DriverStep(d)
                 \/ ForeignRegister \/ ForeignUnregister \/ UNCHANGED vars
BY DEF Next, DriverStep, LoaderOf

-----------------------------------------------------------------------------
(* What is held and what is left behind *)

\* While init runs it holds what it has come to; from then on, what is ahead of
\* the releases or is residue.  Files can be open in a module that is going
\* away only if its init failed after its cdev or major number was there.
HeldInvOf(d) ==
  /\ mod[d] = "unloaded" => held[d] = {} /\ opens[d] = 0
  /\ mod[d] = "coming"   => /\ held[d] \subseteq Before(InitOf(d), step[d])
                            /\ opens[d] > 0 => held[d] \cap Openable # {}
  /\ mod[d] = "live"     => held[d] \subseteq Ahead(ExitOf(d)) \cup Residue(d)
  /\ Undoing(d)          => held[d] \subseteq Ahead(undo[d]) \cup Residue(d)
  /\ mod[d] = "failing" /\ (opens[d] > 0 \/ held[d] \cap Openable # {}) =>
                               "file" \in Residue(d)
  /\ mod[d] = "going"    => opens[d] = 0
  /\ stale[d] \subseteq Residue(d)
HeldInv == \A d \in Drivers : HeldInvOf(d)

\* What the tables say of the call that init has come to.
LEMMA CallSound ==
  ASSUME Types, NEW d \in Drivers, mod[d] = "coming", HeldInvOf(d)
  PROVE  /\ Sees(Call(d)) =>
              /\ held[d] \subseteq Ahead(Call(d).then) \cup Residue(d)
              /\ held[d] \cap Openable # {} => "file" \in Residue(d)
         /\ Call(d).test = "put" => Call(d).res = "adapter"
         /\ IsLast(d) /\ Call(d).test = "put" =>
              held[d] \ {Call(d).res} \subseteq Ahead(ExitOf(d)) \cup Residue(d)
         /\ IsLast(d) /\ Call(d).test # "put" =>
              held[d] \cup {Call(d).res} \subseteq Ahead(ExitOf(d)) \cup Residue(d)
         /\ ~IsLast(d) =>
              held[d] \cup {Call(d).res} \subseteq Before(InitOf(d), step[d] + 1)
<1>1. /\ WellFormed(InitOf(d), ExitOf(d)) /\ Undone(InitOf(d), ExitOf(d), Residue(d))
      /\ held[d] \subseteq Before(InitOf(d), step[d])
  BY Tables DEF SoundTable, HeldInvOf
<1>2. Before(InitOf(d), step[d] + 1) = Before(InitOf(d), step[d]) \cup {Call(d).res}
  <2>1. step[d] \in Nat /\ step[d] > 0
    BY DEF Types
  <2>2. Before(InitOf(d), step[d] + 1) =
          Before(InitOf(d), step[d]) \cup {InitOf(d)[step[d]].res}
    BY <2>1, BeforeNext
  <2>. QED
    BY <2>2, CallOf
<1>3. Sees(Call(d)) => /\ held[d] \subseteq Ahead(Call(d).then) \cup Residue(d)
                       /\ held[d] \cap Openable # {} => "file" \in Residue(d)
  BY <1>1, CallOf DEF Undone
<1>4. IsLast(d) => Call(d) = InitOf(d)[Len(InitOf(d))] /\ step[d] = Len(InitOf(d))
  BY CallOf
<1>. QED
  BY <1>1, <1>2, <1>3, <1>4, CallOf DEF Undone, WellFormed

\* A step of a driver keeps what is said of what it holds and leaves.
LEMMA HeldStep ==
  ASSUME Types, NEW d \in Drivers, HeldInvOf(d), DriverStep(d)
  PROVE  HeldInvOf(d)'
<1>. USE DEF Types, TypeOK, HeldInvOf, Undoing
<1>1. CASE Insmod(d)
  <2>1. held'[d] = {} /\ opens'[d] = 0 /\ mod'[d] = "coming" /\ stale'[d] = stale[d]
    BY <1>1 DEF Insmod
  <2>. QED
    BY <2>1
<1>2. CASE AcquireOk(d)
  <2>1. /\ held'[d] = held[d] \cup {Call(d).res} /\ opens' = opens /\ stale' = stale
        /\ IsLast(d)  => mod'[d] = "live"
        /\ ~IsLast(d) => mod'[d] = "coming" /\ step'[d] = step[d] + 1
        /\ mod[d] = "coming" /\ Call(d).test # "put"
    BY <1>2 DEF AcquireOk, Advance
  <2>. QED
    BY <2>1, CallSound
<1>3. CASE AcquireFails(d)
  <2>1. /\ mod'[d] = "failing" /\ undo'[d] = Call(d).then /\ mod[d] = "coming"
        /\ Sees(Call(d)) /\ UNCHANGED <<held, opens, stale>>
    BY <1>3 DEF AcquireFails
  <2>. QED
    BY <2>1, CallSound
<1>4. CASE AcquireMissed(d)
  <2>1. /\ UNCHANGED <<held, opens, stale>>
        /\ IsLast(d)  => mod'[d] = "live"
        /\ ~IsLast(d) => mod'[d] = "coming" /\ step'[d] = step[d] + 1
        /\ mod[d] = "coming" /\ Call(d).test # "put"
    BY <1>4 DEF AcquireMissed, Advance
  <2>. QED
    BY <2>1, CallSound
<1>5. CASE GiveBack(d)
  <2>1. /\ held'[d] = held[d] \ {Call(d).res} /\ opens' = opens /\ stale' = stale
        /\ IsLast(d)  => mod'[d] = "live"
        /\ ~IsLast(d) => mod'[d] = "coming" /\ step'[d] = step[d] + 1
        /\ mod[d] = "coming" /\ Call(d).test = "put"
    BY <1>5 DEF GiveBack, Advance
  <2>2. Call(d).res \notin Openable
    BY <2>1, CallSound DEF Openable, Majors
  <2>. QED
    BY <2>1, <2>2, CallSound
<1>6. CASE Rmmod(d)
  <2>1. /\ mod[d] = "live" /\ opens[d] = 0 /\ mod'[d] = "going"
        /\ undo'[d] = ExitOf(d) /\ UNCHANGED <<held, opens, stale>>
    BY <1>6 DEF Rmmod, ExitOf
  <2>. QED
    BY <2>1
<1>7. CASE Release(d)
  <2>1. /\ Undoing(d) /\ undo[d] # <<>> /\ UNCHANGED <<mod, opens, stale>>
        /\ held'[d] = held[d] \ {Head(undo[d])} /\ undo'[d] = Tail(undo[d])
    BY <1>7 DEF Release
  <2>2. Ahead(undo[d]) = {Head(undo[d])} \cup Ahead(Tail(undo[d]))
    BY <2>1, AheadTail
  <2>. QED
    BY <2>1, <2>2
<1>8. CASE Oops(d)
  <2>1. mod'[d] = "wedged" /\ stale' = stale
    BY <1>8 DEF Oops
  <2>. QED
    BY <2>1
<1>9. CASE Discard(d)
  <2>1. /\ Undoing(d) /\ undo[d] = <<>>
        /\ mod'[d] = "unloaded" /\ held'[d] = {} /\ opens'[d] = 0
        /\ stale'[d] = stale[d] \cup held[d] \cup (IF opens[d] > 0 THEN {"file"} ELSE {})
    BY <1>9 DEF Discard
  <2>2. held[d] \subseteq Residue(d)
    BY <2>1 DEF Ahead
  <2>3. opens[d] > 0 => "file" \in Residue(d)
    BY <2>1
  <2>. QED
    BY <2>1, <2>2, <2>3
<1>10. CASE Open(d)
  <2>1. /\ held[d] \cap Openable # {} /\ mod[d] \in {"coming", "failing", "live"}
        /\ UNCHANGED <<mod, step, undo, held, stale>>
    BY <1>10 DEF Open, Openable
  <2>. QED
    BY <2>1
<1>11. CASE Close(d)
  <2>1. /\ UNCHANGED <<mod, step, undo, held, stale>>
        /\ opens[d] > 0 /\ opens'[d] = opens[d] - 1
    BY <1>11 DEF Close
  <2>2. opens[d] \in Nat
    BY LifecycleAssumption
  <2>. QED
    BY <2>1, <2>2
<1>. QED
  BY <1>1, <1>2, <1>3, <1>4, <1>5, <1>6, <1>7, <1>8, <1>9, <1>10, <1>11
     DEF DriverStep, LoaderOf

\* It holds of all drivers always, whatever the others do.
LEMMA AlwaysHeld == Spec => []HeldInv
<1>1. Init => HeldInv
  BY DEF Init, HeldInv, HeldInvOf, Undoing
<1>2. Types /\ HeldInv /\ [Next]_vars => HeldInv'
  <2>. SUFFICES ASSUME Types, HeldInv, [Next]_vars, NEW d \in Drivers PROVE HeldInvOf(d)'
    BY DEF HeldInv
  <2>1. CASE DriverStep(d)
    BY <2>1, HeldStep DEF HeldInv
  <2>2. ASSUME NEW e \in Drivers, e # d, DriverStep(e) PROVE HeldInvOf(d)'
    BY <2>2, OthersStay DEF HeldInv, HeldInvOf, Undoing
  <2>3. CASE ForeignRegister \/ ForeignUnregister \/ UNCHANGED vars
    BY <2>3, ElsewhereSpares DEF HeldInv, HeldInvOf, Undoing
  <2>. QED
    BY <2>1, <2>2, <2>3, NextCases
<1>. QED
  BY <1>1, <1>2, AlwaysTyped, PTL DEF Spec

\* Whichever calls fail, and however loading, failing, unloading and clients
\* interleave, discarded modules leave nothing behind but their residue.
THEOREM LeavesOnly == Spec => []LeavesOnlyResidue
<1>1. HeldInv => LeavesOnlyResidue
  BY DEF HeldInv, HeldInvOf, LeavesOnlyResidue
<1>. QED
  BY <1>1, AlwaysHeld, PTL

-----------------------------------------------------------------------------
(* The first call *)

\* A call whose failure is noticed has succeeded if init has gone on after it.
FirstHeld(d) ==
  Sees(InitOf(d)[1]) /\ (mod[d] = "live" \/ (mod[d] = "coming" /\ step[d] > 1)) =>
    InitOf(d)[1].res \in held[d]

\* Only an adapter is ever given back while init runs, and no init function
\* begins with one.
LEMMA FirstStep ==
  ASSUME Types, NEW d \in Drivers, FirstHeld(d), DriverStep(d)
  PROVE  FirstHeld(d)'
<1>. SUFFICES ASSUME Sees(InitOf(d)[1]),
                     mod'[d] = "live" \/ (mod'[d] = "coming" /\ step'[d] > 1)
              PROVE  InitOf(d)[1].res \in held'[d]
  BY DEF FirstHeld
<1>. USE DEF Types, TypeOK, FirstHeld
<1>1. InitOf(d)[1].res # "adapter" /\ (Call(d).test = "put" => Call(d).res = "adapter")
  BY Tables, CallOf DEF SoundTable, WellFormed
<1>2. step[d] \in Nat \ {0} /\ (step[d] = 1 => Call(d) = InitOf(d)[1])
  BY CallOf
<1>3. CASE Insmod(d) BY <1>3 DEF Insmod
<1>4. CASE AcquireOk(d)
  <2>1. held'[d] = held[d] \cup {Call(d).res} /\ mod[d] = "coming"
    BY <1>4 DEF AcquireOk
  <2>. QED
    BY <1>2, <2>1
<1>5. CASE AcquireFails(d) BY <1>5 DEF AcquireFails
<1>6. CASE AcquireMissed(d)
  <2>1. held'[d] = held[d] /\ mod[d] = "coming" /\ ~Sees(Call(d))
    BY <1>6 DEF AcquireMissed
  <2>. QED
    BY <1>2, <2>1
<1>7. CASE GiveBack(d)
  <2>1. /\ held'[d] = held[d] \ {Call(d).res} /\ mod[d] = "coming"
        /\ Call(d).res = "adapter"
    BY <1>1, <1>7 DEF GiveBack
  <2>. QED
    BY <1>1, <1>2, <2>1
<1>8. CASE Rmmod(d) BY <1>8 DEF Rmmod
<1>9. CASE Release(d) BY <1>9 DEF Release, Undoing
<1>10. CASE Oops(d) BY <1>10 DEF Oops
<1>11. CASE Discard(d) BY <1>11 DEF Discard
<1>12. CASE Open(d) \/ Close(d) BY <1>12 DEF Open, Close
<1>. QED
  BY <1>3, <1>4, <1>5, <1>6, <1>7, <1>8, <1>9, <1>10, <1>11, <1>12
     DEF DriverStep, LoaderOf

FirstInv == \A d \in Drivers : FirstHeld(d)

\* The first call of init has succeeded, if it could have been seen to fail.
LEMMA AlwaysFirst == Spec => []FirstInv
<1>1. Init => FirstInv
  BY DEF Init, FirstInv, FirstHeld
<1>2. Types /\ FirstInv /\ [Next]_vars => FirstInv'
  <2>. SUFFICES ASSUME Types, FirstInv, [Next]_vars, NEW d \in Drivers PROVE FirstHeld(d)'
    BY DEF FirstInv
  <2>1. CASE DriverStep(d)
    BY <2>1, FirstStep DEF FirstInv
  <2>2. ASSUME NEW e \in Drivers, e # d, DriverStep(e) PROVE FirstHeld(d)'
    BY <2>2, OthersStay DEF FirstInv, FirstHeld
  <2>3. CASE ForeignRegister \/ ForeignUnregister \/ UNCHANGED vars
    BY <2>3, ElsewhereSpares DEF FirstInv, FirstHeld
  <2>. QED
    BY <2>1, <2>2, <2>3, NextCases
<1>. QED
  BY <1>1, <1>2, AlwaysTyped, PTL DEF Spec

-----------------------------------------------------------------------------
(* The device number under the cdev *)

\* Where the cdev is, the number is; and the releases still to be made, if the
\* cdev is there, give the number back after it.
NumberInvOf(d) ==
  /\ "cdev" \in held[d]  => held[d] \cap Regions # {}
  /\ "cdev" \in stale[d] => stale[d] \cap Regions # {}
  /\ Undoing(d) /\ "cdev" \in held[d] => Covered(undo[d])
NumberInv == \A d \in Drivers \ {"irq_device_driver"} : NumberInvOf(d)

\* A step of a driver keeps the number under the cdev: it comes first, and the
\* releases that are ahead give it back last.
LEMMA NumberStep ==
  ASSUME Types, NEW d \in Drivers, d # "irq_device_driver", FirstHeld(d), HeldInvOf(d),
         NumberInvOf(d), DriverStep(d)
  PROVE  NumberInvOf(d)'
<1>. USE DEF Types, TypeOK, NumberInvOf, Undoing
<1>0. NumberOutlivesCdev(InitOf(d), ExitOf(d))
  BY NumberTables
<1>1. CASE Insmod(d) BY <1>1 DEF Insmod
<1>2. CASE AcquireOk(d)
  <2>1. /\ held'[d] = held[d] \cup {Call(d).res} /\ stale' = stale
        /\ mod[d] = "coming" /\ mod'[d] \in {"coming", "live"}
    BY <1>2 DEF AcquireOk, Advance
  <2>2. Call(d).res = "cdev" => held[d] \cap Regions # {}
    BY <1>0, <2>1, CallOf DEF NumberOutlivesCdev, FirstHeld
  <2>. QED
    BY <2>1, <2>2
<1>3. CASE AcquireFails(d)
  <2>1. /\ mod[d] = "coming" /\ undo'[d] = Call(d).then /\ Sees(Call(d))
        /\ UNCHANGED <<held, stale>>
    BY <1>3 DEF AcquireFails
  <2>2. /\ step[d] \in DOMAIN InitOf(d) /\ Call(d) = InitOf(d)[step[d]]
        /\ "cdev" \in held[d] => "cdev" \in Before(InitOf(d), step[d])
    <3>1. held[d] \subseteq Before(InitOf(d), step[d])
      BY <2>1 DEF HeldInvOf
    <3>. QED
      BY <3>1, CallOf
  <2>3. "cdev" \in held[d] => Covered(Call(d).then)
    BY <1>0, <2>1, <2>2 DEF NumberOutlivesCdev
  <2>. QED
    BY <2>1, <2>3
<1>4. CASE AcquireMissed(d)
  <2>1. mod'[d] \in {"coming", "live"} /\ UNCHANGED <<held, stale>>
    BY <1>4 DEF AcquireMissed, Advance
  <2>. QED
    BY <2>1
<1>5. CASE GiveBack(d)
  <2>1. /\ mod'[d] \in {"coming", "live"} /\ stale' = stale
        /\ held'[d] = held[d] \ {Call(d).res} /\ mod[d] = "coming" /\ Call(d).test = "put"
    BY <1>5 DEF GiveBack, Advance
  <2>2. Call(d).res \notin Regions
    BY <2>1, CallSound DEF Regions
  <2>. QED
    BY <2>1, <2>2
<1>6. CASE Rmmod(d)
  <2>1. undo'[d] = ExitOf(d) /\ UNCHANGED <<held, stale>>
    BY <1>6 DEF Rmmod, ExitOf
  <2>. QED
    BY <1>0, <2>1 DEF NumberOutlivesCdev
<1>7. CASE Release(d)
  <2>1. /\ Undoing(d) /\ undo[d] # <<>> /\ UNCHANGED <<mod, stale>>
        /\ held'[d] = held[d] \ {Head(undo[d])} /\ undo'[d] = Tail(undo[d])
    BY <1>7 DEF Release
  <2>2. CASE "cdev" \notin held'[d]
    BY <2>1, <2>2
  <2>3. CASE "cdev" \in held'[d]
    <3>1. Head(undo[d]) \notin Regions /\ Covered(Tail(undo[d]))
      BY <2>1, <2>3, CoveredTail
    <3>. QED
      BY <2>1, <3>1
  <2>. QED
    BY <2>2, <2>3
<1>8. CASE Oops(d) BY <1>8 DEF Oops
<1>9. CASE Discard(d)
  <2>1. /\ held'[d] = {}
        /\ stale'[d] = stale[d] \cup held[d] \cup (IF opens[d] > 0 THEN {"file"} ELSE {})
    BY <1>9 DEF Discard
  <2>. QED
    BY <2>1
<1>10. CASE Open(d) \/ Close(d) BY <1>10 DEF Open, Close
<1>. QED
  BY <1>1, <1>2, <1>3, <1>4, <1>5, <1>6, <1>7, <1>8, <1>9, <1>10 DEF DriverStep, LoaderOf

\* For all drivers but irq_device_driver.c: no cdev, in use or left behind, is
\* without a device number of its own, for any set of drivers and open files.
THEOREM NumberCovers == Spec => []NumberCoversCdev
<1>1. Init => NumberInv
  BY DEF Init, NumberInv, NumberInvOf, Undoing
<1>2. Types /\ HeldInv /\ FirstInv /\ NumberInv /\ [Next]_vars => NumberInv'
  <2>. SUFFICES ASSUME Types, HeldInv, FirstInv, NumberInv, [Next]_vars,
                       NEW d \in Drivers, d # "irq_device_driver"
                PROVE  NumberInvOf(d)'
    BY DEF NumberInv
  <2>1. CASE DriverStep(d)
    BY <2>1, NumberStep DEF HeldInv, FirstInv, NumberInv
  <2>2. ASSUME NEW e \in Drivers, e # d, DriverStep(e) PROVE NumberInvOf(d)'
    BY <2>2, OthersStay DEF NumberInv, NumberInvOf, Undoing
  <2>3. CASE ForeignRegister \/ ForeignUnregister \/ UNCHANGED vars
    BY <2>3, ElsewhereSpares DEF NumberInv, NumberInvOf, Undoing
  <2>. QED
    BY <2>1, <2>2, <2>3, NextCases
<1>3. NumberInv => NumberCoversCdev
  BY DEF NumberInv, NumberInvOf, NumberCoversCdev, Regions
<1>. QED
  BY <1>1, <1>2, <1>3, AlwaysTyped, AlwaysHeld, AlwaysFirst, PTL DEF Spec

-----------------------------------------------------------------------------
(* The table of major numbers *)

\* A driver that is about to give 91 back has it, and nobody else can.
MajorInvOf(d) ==
  /\ held[d] \cap foreign = {}
  /\ Undoing(d) => "major280" \notin Ahead(undo[d])
  /\ Undoing(d) /\ "major91" \in Ahead(undo[d]) =>
       undo[d] = <<"major91">> /\ "major91" \in held[d]
MajorInv == /\ robbed \subseteq {"major128", "major240"}
            /\ \A d \in Drivers : MajorInvOf(d)

\* What a step adds to the numbers of others was free.
LEMMA ForeignStays ==
  ASSUME Types, NEW d \in Drivers, DriverStep(d)
  PROVE  foreign' \subseteq foreign
BY DEF DriverStep, LoaderOf, Insmod, AcquireOk, AcquireFails, AcquireMissed, GiveBack,
       Rmmod, Release, Oops, Discard, Open, Close, envVars

\* A step of a driver keeps to its own numbers, and takes none of another but
\* the two that are given back unchecked.
LEMMA MajorStep ==
  ASSUME Types, NEW d \in Drivers, FirstHeld(d), MajorInvOf(d), DriverStep(d)
  PROVE  MajorInvOf(d)' /\ robbed' \subseteq robbed \cup {"major128", "major240"}
<1>. USE DEF Types, TypeOK, MajorInvOf, Undoing, envVars
<1>0. Own91(InitOf(d), ExitOf(d))
  BY Tables DEF SoundTable
<1>1. CASE Insmod(d) BY <1>1 DEF Insmod
<1>2. CASE AcquireOk(d)
  <2>1. /\ held'[d] = held[d] \cup {Call(d).res} /\ mod'[d] \in {"coming", "live"}
        /\ ~Refused(d) /\ foreign' = foreign /\ robbed' = robbed
    BY <1>2 DEF AcquireOk, Advance
  <2>2. Call(d).res \notin foreign
    BY <2>1 DEF Refused, MajorTaken
  <2>. QED
    BY <2>1, <2>2
<1>3. CASE AcquireFails(d)
  <2>1. /\ mod[d] = "coming" /\ undo'[d] = Call(d).then
        /\ UNCHANGED <<held, foreign, robbed>>
    BY <1>3 DEF AcquireFails
  <2>2. {"major91", "major280"} \cap Ahead(Call(d).then) = {}
    <3>1. step[d] \in DOMAIN InitOf(d) /\ Call(d) = InitOf(d)[step[d]]
      BY CallOf
    <3>. QED
      BY <1>0, <3>1 DEF Own91
  <2>. QED
    BY <2>1, <2>2
<1>4. CASE AcquireMissed(d)
  <2>1. mod'[d] \in {"coming", "live"} /\ UNCHANGED <<held, foreign, robbed>>
    BY <1>4 DEF AcquireMissed, Advance
  <2>. QED
    BY <2>1
<1>5. CASE GiveBack(d)
  <2>1. /\ mod'[d] \in {"coming", "live"} /\ UNCHANGED <<foreign, robbed>>
        /\ held'[d] = held[d] \ {Call(d).res}
    BY <1>5 DEF GiveBack, Advance
  <2>. QED
    BY <2>1
<1>6. CASE Rmmod(d)
  <2>1. /\ mod[d] = "live" /\ undo'[d] = ExitOf(d) /\ UNCHANGED <<held, foreign, robbed>>
    BY <1>6 DEF Rmmod, ExitOf
  <2>. QED
    BY <1>0, <2>1 DEF Own91, FirstHeld
<1>7. CASE Release(d)
  <2>1. /\ Undoing(d) /\ undo[d] # <<>> /\ mod' = mod
        /\ held'[d] = held[d] \ {Head(undo[d])} /\ undo'[d] = Tail(undo[d])
        /\ foreign' \subseteq foreign
        /\ robbed' = robbed \cup (foreign \cap {Head(undo[d])})
    BY <1>7 DEF Release
  <2>2. /\ Ahead(undo[d]) = {Head(undo[d])} \cup Ahead(Tail(undo[d]))
        /\ Head(undo[d]) \in Ahead(undo[d])
    BY <2>1, AheadTail
  <2>3. Head(undo[d]) \notin foreign \/ Head(undo[d]) \in {"major128", "major240"}
    BY <2>1, <2>2 DEF Majors
  <2>4. "major91" \notin Ahead(Tail(undo[d]))
    <3>1. Ahead(Tail(<<"major91">>)) = {}
      BY DEF Ahead
    <3>. QED
      BY <2>1, <2>2, <3>1
  <2>. QED
    BY <2>1, <2>2, <2>3, <2>4
<1>8. CASE Oops(d) BY <1>8 DEF Oops
<1>9. CASE Discard(d) BY <1>9 DEF Discard
<1>10. CASE Open(d) \/ Close(d) BY <1>10 DEF Open, Close
<1>. QED
  BY <1>1, <1>2, <1>3, <1>4, <1>5, <1>6, <1>7, <1>8, <1>9, <1>10 DEF DriverStep, LoaderOf

\* Nobody is robbed of a major number but by ex07.c and real_simple, which
\* ignore what register_chrdev says: 91 is safe on both sides.
THEOREM Spares == Spec => []SparesOthers
<1>1. Init => MajorInv
  BY DEF Init, MajorInv, MajorInvOf, Undoing
<1>2. Types /\ FirstInv /\ MajorInv /\ [Next]_vars => MajorInv'
  <2>. SUFFICES ASSUME Types, FirstInv, MajorInv, [Next]_vars PROVE MajorInv'
    OBVIOUS
  <2>1. ASSUME NEW d \in Drivers, DriverStep(d) PROVE MajorInv'
    <3>1. MajorInvOf(d)' /\ robbed' \subseteq {"major128", "major240"}
      BY <2>1, MajorStep DEF FirstInv, MajorInv
    <3>2. ASSUME NEW e \in Drivers, e # d PROVE MajorInvOf(e)'
      BY <2>1, <3>2, OthersStay, ForeignStays DEF MajorInv, MajorInvOf, Undoing
    <3>. QED
      BY <3>1, <3>2 DEF MajorInv
  <2>2. CASE ForeignRegister
    <3>1. \A d \in Drivers : held[d] \cap foreign' = {}
      BY <2>2 DEF ForeignRegister, MajorTaken, MajorInv, MajorInvOf
    <3>. QED
      BY <2>2, <3>1, ElsewhereSpares DEF MajorInv, MajorInvOf, Undoing
  <2>3. CASE ForeignUnregister
    <3>1. foreign' \subseteq foreign
      BY <2>3 DEF ForeignUnregister
    <3>. QED
      BY <2>3, <3>1, ElsewhereSpares DEF MajorInv, MajorInvOf, Undoing
  <2>4. CASE UNCHANGED vars
    BY <2>4 DEF vars, envVars, MajorInv, MajorInvOf, Undoing
  <2>. QED
    BY <2>1, <2>2, <2>3, <2>4, NextCases
<1>3. MajorInv => SparesOthers
  BY DEF MajorInv, SparesOthers
<1>. QED
  BY <1>1, <1>2, <1>3, AlwaysTyped, AlwaysFirst, PTL DEF Spec

-----------------------------------------------------------------------------
(* The class pointer *)

\* In every list of releases the device goes before the class.
Ordered(u) == \A n \in DOMAIN u : u[n] = "device" => \A m \in 1 .. n - 1 : u[m] # "class"

\* All exit functions and labels destroy the device first.
LEMMA ListsOrdered == \A u \in Lists : Ordered(u)
BY DEF Lists, Ordered, simple_driver_exit, irq_driver_exit, driver3_exit, driver4_exit,
       bh1750_exit, detailed_exit, driver2_exit, ex07_exit, real_exit

\* So once the class is given back no device is.
LEMMA OrderedTail ==
  ASSUME NEW u \in Seq(Releases), u # <<>>, Ordered(u)
  PROVE  Ordered(Tail(u)) /\ (Head(u) = "class" => "device" \notin Ahead(Tail(u)))
<1>1. /\ Len(u) \in Nat \ {0} /\ Head(u) = u[1]
      /\ \A n \in 1 .. Len(u) - 1 : Tail(u)[n] = u[n + 1]
      /\ DOMAIN u = 1 .. Len(u) /\ DOMAIN Tail(u) = 1 .. Len(u) - 1
  OBVIOUS
<1>2. ASSUME NEW n \in 1 .. Len(u) - 1, Tail(u)[n] = "device"
      PROVE  u[1] # "class" /\ \A m \in 1 .. n - 1 : Tail(u)[m] # "class"
  <2>1. n + 1 \in 1 .. Len(u) /\ u[n + 1] = "device"
    BY <1>1, <1>2
  <2>2. \A m \in 1 .. n : u[m] # "class"
    BY <1>1, <2>1 DEF Ordered
  <2>3. ASSUME NEW m \in 1 .. n - 1 PROVE Tail(u)[m] = u[m + 1] /\ m + 1 \in 1 .. n
    BY <1>1
  <2>. QED
    BY <2>2, <2>3
<1>. QED
  BY <1>1, <1>2 DEF Ordered, Ahead

\* detailed_init_exit.c sees every failure, and one of class_create takes it to
\* a label that destroys no device.
LEMMA DetailedSees ==
  ASSUME Types, NEW d \in Drivers, d = "detailed"
  PROVE  /\ Sees(Call(d))
         /\ Call(d).res = "class" => "device" \notin Ahead(Call(d).then)
<1>1. InitOf(d) = detailed_init
  BY DEF InitOf, Programs, Program
<1>2. \A n \in DOMAIN detailed_init :
        /\ Sees(detailed_init[n])
        /\ detailed_init[n].res = "class" => "device" \notin Ahead(detailed_init[n].then)
  BY DEF detailed_init, Get, Sees, Convention, Ahead
<1>. QED
  BY <1>1, <1>2, CallOf

\* A class pointer that is set leads to a class as long as a device may still be
\* destroyed through it; and the driver that looks for error pointers keeps none.
ClassInvOf(d) ==
  /\ mod[d] \in {"coming", "live"} /\ classPtr[d] = "ok" => "class" \in held[d]
  /\ Undoing(d) => Ordered(undo[d])
  /\ Undoing(d) /\ "device" \in Ahead(undo[d]) /\ classPtr[d] = "ok" => "class" \in held[d]
  /\ d = "detailed" =>
       /\ mod[d] \in {"coming", "live"} => classPtr[d] # "err"
       /\ Undoing(d) /\ "device" \in Ahead(undo[d]) => classPtr[d] # "err"
  /\ mod[d] = "wedged" => classPtr[d] = "err" /\ d # "detailed"
ClassInv == \A d \in Drivers : ClassInvOf(d)

\* A step of a driver keeps its class as long as it may need it.
LEMMA ClassStep ==
  ASSUME Types, NEW d \in Drivers, ClassInvOf(d), DriverStep(d)
  PROVE  ClassInvOf(d)'
<1>0. /\ Ordered(ExitOf(d)) /\ Ordered(Call(d).then)
      /\ Call(d).test = "put" => Call(d).res = "adapter"
  <2>1. WellFormed(InitOf(d), ExitOf(d))
    BY Tables DEF SoundTable
  <2>2. ExitOf(d) \in Lists /\ Call(d).then \in Lists
    BY <2>1, CallOf DEF WellFormed
  <2>3. Call(d).test = "put" => Call(d).res = "adapter"
    BY <2>1, CallOf DEF WellFormed
  <2>. QED
    BY <2>2, <2>3, ListsOrdered
<1>. USE DEF Types, TypeOK, ClassInvOf, Undoing
<1>1. CASE Insmod(d)
  <2>1. mod'[d] = "coming" /\ classPtr'[d] = "null"
    BY <1>1 DEF Insmod
  <2>. QED
    BY <2>1
<1>2. CASE AcquireOk(d)
  <2>1. /\ held'[d] = held[d] \cup {Call(d).res}
        /\ mod[d] = "coming" /\ mod'[d] \in {"coming", "live"}
        /\ classPtr'[d] = IF Call(d).res = "class" THEN "ok" ELSE classPtr[d]
    BY <1>2 DEF AcquireOk, Advance, SetClassPtr
  <2>. QED
    BY <2>1
<1>3. CASE AcquireFails(d)
  <2>1. /\ mod[d] = "coming" /\ mod'[d] = "failing" /\ undo'[d] = Call(d).then
        /\ held' = held
        /\ classPtr'[d] = IF Call(d).res = "class" THEN "err" ELSE classPtr[d]
    BY <1>3 DEF AcquireFails, SetClassPtr
  <2>. QED
    BY <1>0, <2>1, DetailedSees
<1>4. CASE AcquireMissed(d)
  <2>1. /\ mod[d] = "coming" /\ mod'[d] \in {"coming", "live"} /\ ~Sees(Call(d))
        /\ held' = held
        /\ classPtr'[d] = IF Call(d).res = "class" THEN "err" ELSE classPtr[d]
    BY <1>4 DEF AcquireMissed, Advance, SetClassPtr
  <2>. QED
    BY <2>1, DetailedSees
<1>5. CASE GiveBack(d)
  <2>1. /\ mod[d] = "coming" /\ mod'[d] \in {"coming", "live"} /\ classPtr' = classPtr
        /\ held'[d] = held[d] \ {Call(d).res} /\ Call(d).test = "put"
    BY <1>5 DEF GiveBack, Advance
  <2>. QED
    BY <1>0, <2>1
<1>6. CASE Rmmod(d)
  <2>1. /\ mod[d] = "live" /\ mod'[d] = "going" /\ undo'[d] = ExitOf(d)
        /\ UNCHANGED <<held, classPtr>>
    BY <1>6 DEF Rmmod, ExitOf
  <2>. QED
    BY <1>0, <2>1
<1>7. CASE Release(d)
  <2>1. /\ Undoing(d) /\ undo[d] # <<>> /\ UNCHANGED <<mod, classPtr>>
        /\ held'[d] = held[d] \ {Head(undo[d])} /\ undo'[d] = Tail(undo[d])
    BY <1>7 DEF Release
  <2>2. /\ Ahead(undo[d]) = {Head(undo[d])} \cup Ahead(Tail(undo[d]))
        /\ Ordered(Tail(undo[d]))
        /\ Head(undo[d]) = "class" => "device" \notin Ahead(Tail(undo[d]))
    BY <2>1, AheadTail, OrderedTail
  <2>. QED
    BY <2>1, <2>2
<1>8. CASE Oops(d)
  <2>1. /\ Undoing(d) /\ undo[d] # <<>> /\ Head(undo[d]) = "device" /\ BadClassPtr(d)
        /\ mod'[d] = "wedged" /\ classPtr' = classPtr
    BY <1>8 DEF Oops
  <2>2. "device" \in Ahead(undo[d])
    BY <2>1, AheadTail
  <2>3. classPtr[d] = "err"
    BY <2>1, <2>2 DEF BadClassPtr
  <2>. QED
    BY <2>1, <2>2, <2>3
<1>9. CASE Discard(d)
  <2>1. mod'[d] = "unloaded"
    BY <1>9 DEF Discard
  <2>. QED
    BY <2>1
<1>10. CASE Open(d) \/ Close(d) BY <1>10 DEF Open, Close
<1>. QED
  BY <1>1, <1>2, <1>3, <1>4, <1>5, <1>6, <1>7, <1>8, <1>9, <1>10 DEF DriverStep, LoaderOf

\* The safe half of ComesToRest: a module is stuck only because its class was
\* refused and it did not notice.  No driver follows the pointer of a class that
\* it has destroyed, and detailed_init_exit.c, which looks for error pointers, is
\* never stuck, whatever fails and whichever drivers are loaded with it.
THEOREM StuckByClass ==
  Spec => [](\A d \in Drivers : mod[d] = "wedged" => classPtr[d] = "err" /\ d # "detailed")
<1>1. Init => ClassInv
  BY DEF Init, ClassInv, ClassInvOf, Undoing
<1>2. Types /\ ClassInv /\ [Next]_vars => ClassInv'
  <2>. SUFFICES ASSUME Types, ClassInv, [Next]_vars, NEW d \in Drivers PROVE ClassInvOf(d)'
    BY DEF ClassInv
  <2>1. CASE DriverStep(d)
    BY <2>1, ClassStep DEF ClassInv
  <2>2. ASSUME NEW e \in Drivers, e # d, DriverStep(e) PROVE ClassInvOf(d)'
    BY <2>2, OthersStay DEF ClassInv, ClassInvOf, Undoing
  <2>3. CASE ForeignRegister \/ ForeignUnregister \/ UNCHANGED vars
    BY <2>3, ElsewhereSpares DEF ClassInv, ClassInvOf, Undoing
  <2>. QED
    BY <2>1, <2>2, <2>3, NextCases
<1>3. ClassInv =>
        \A d \in Drivers : mod[d] = "wedged" => classPtr[d] = "err" /\ d # "detailed"
  BY DEF ClassInv, ClassInvOf
<1>. QED
  BY <1>1, <1>2, <1>3, AlwaysTyped, PTL DEF Spec
=============================================================================
