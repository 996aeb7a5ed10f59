# LinuxDrivers: specification, model checking and proofs

This directory holds TLA+ specifications of the drivers in this repository, the
TLC configurations that check them on small instances, and TLAPS proofs of the
properties that matter most for instances of any size. Paths of the code are
relative to the root of the repository and begin with `src/` in `PROJECT.json`.

The repository is a collection of small, separate kernel modules written while
learning to write drivers, with the test programs that exercise them. Many are
copies of one another. There is no system that spans them, but they do meet: in
the kernel's tables of class names and device numbers, in the clients that open
several files at once, and in the interrupt context. What can go wrong lies in
the order of calls and in the failures of single calls, and nearly all the test
programs do is one call after the other with nothing failing.

Contents: [inventory](#inventory), [modules](#modules),
[what is assumed of the kernel](#what-is-assumed-of-the-kernel),
[runs](#runs), [fairness](#fairness), [proofs](#proofs),
[disagreements found](#disagreements-found), [not modelled](#what-is-not-modelled),
[plan](#plan).

## Inventory

| component | files | state | operations |
|---|---|---|---|
| Buffer file operations | `techoGenius/{simple_driver,first,proc_device_driver,irq_device_driver}.c`, `kernel_device_driver/first_driver.c`, `current_driver/basic_driver.c`, `i2c_client_driver/base-driver.c` | `kernel_buffer`, one global pointer for all open files; `val`, one global number | open, read, write, release; in four of the seven (not `first.c`, `basic_driver.c`, `base-driver.c`) ioctl |
| Init and exit ladders | the same, and `letsCodeLinuxDriver/driver3.c`, `driver4.c`, `ssd1306/bh1750.c`, `char_driver/detailed_char_driver/detailed_init_exit.c` | device number, cdev, class, device, proc entry, interrupt, GPIOs, I2C client; the class pointer | init, exit, one kernel call after another, undone by `goto` labels |
| Interrupt and tasklet | `techoGenius/irq_device_driver.c` | the handler's registration, the pointer `tasklet`, its state bits, the counter `i` | init and exit (their part), `irq_handler`, `tasklet_func` |
| Proc entries | `techoGenius/proc_device_driver.c`, `kernel_device_driver/first_driver.c` | `chr_array`, the flag `len`, both global | open, read, write, release |
| I2C client drivers | `i2c_client_driver/i2c_client_driver.c`, `i2cBaseDriver.c` | per device: the data with the cdev inside it, number, class, device; per file: `private_data` | module init and exit, probe, remove, open, read, write, release |
| BH1750 sensor | `ssd1306/bh1750.c` | the client `bh_i2c_client` and the last `value`, both global | init, exit, open, close, ioctl |
| Character buffer | `letsCodeLinuxDriver/driver3.c` | `buffer` and its length `buffer_pointer`, both global | init, exit, read, write |
| GPIO driver | `letsCodeLinuxDriver/driver4.c` | the pins 4 and 36 | init, exit, open, close, read, write |
| Fixed major numbers | `letsCodeLinuxDriver/driver2.c`, `char_driver/ex07_simple_char_drv.c`, `real_simple_char_drv.c` | the kernel's table of major numbers | init, exit |
| USB touchpad | `char_driver2/device_driver.c` | `mouse_t`, its count `open` and its urb | allocation, open, close, disconnect, completion |
| Module exercises | `char_driver/ex01` to `ex06`, `simple-init-exit*.c`, `driver1.c`, `i2c/*.c` | none; one exports a symbol that another uses | init, exit |
| Test programs | `techoGenius/test_app.c`, `test_app_proc.c`, `kernel_device_driver/test_app.c`, `ssd1306/testapp.c` and others | one buffer each | open, read or write or ioctl, close |

How they interact, and what is hard about it:

* **Clients and handlers.** The handlers of different files run at the same
  time and may sleep in `kmalloc` and in the user copies. No driver has a lock.
  What is correct is what the test programs rely on: one file at a time, a
  write can be read back, an ioctl value comes back, and close leaves nothing.
* **The loader and clients.** A device can be opened as soon as `cdev_add`
  returns, while init may still fail; when init fails the kernel discards the
  module whatever is open. What is correct: after a failure, or an unload,
  nothing the kernel can reach leads into the module, and nothing is lost.
* **The loader, the interrupt and the softirq.** Three contexts share the
  tasklet. What is correct: no interrupt meets a tasklet that is not there,
  none is dropped, unloading ends and leaves nothing running.
* **Drivers among themselves.** Seven of them use one of two class names. The
  second to be loaded is refused the name, does not notice, and goes on.
* **The I2C core.** It binds and unbinds devices while files are open on them
  and frees the data that the files lead to.
* **The bus and the pins.** A sensor reading passes through one global for all
  clients, and the client it goes through appears after the device can be
  opened. A pin is set by clients before it is requested, and another driver may
  have it. What is correct: a client is told what its own transfer brought, a
  pin follows its driver's clients while it is the driver's, and is let go low.
* **The USB and input cores.** The urb's handler submits it again, in another
  context, while close or disconnect kills it, and clients may open the device
  up to the moment it is unregistered. What is correct: the urb never outlives
  the mouse, an open device has its urb in flight, and disconnect ends.

`PROJECT.json` lists 40 places where this bites, each with its line and with the
properties that cover it; for one of them none does, and the reason is there.

## Modules

| module | models | notes |
|---|---|---|
| `UserCopy` | `copy_from_user`, `copy_to_user` (external) | a copy may stop early |
| `ScratchDevice` | what the test programs expect of a buffer driver, and when it is void | abstract specification |
| `BufferDriver`, `BufferDriverProofs` | the file operations of the seven buffer drivers | implements `ScratchDevice` |
| `IrqDriver`, `IrqDriverProofs` | interrupt, tasklet, and their part of init and exit | |
| `ProcDriver`, `ProcDriverProofs` | the proc entries and the clients that read them | |
| `CharBuffer`, `CharBufferProofs` | `driver_read` and `driver_write` of `driver3.c` | |
| `Ladder` | the form of an init function: calls, tests, labels | used by the next two |
| `DriverLifecycle`, `DriverLifecycleProofs` | init and exit of fourteen drivers, loaded together | each function is a table |
| `I2cClient`, `I2cClientProofs` | the two I2C client drivers with their core, devices and files | probe and remove are tables |
| `SensorDriver` | the ioctl of `bh1750.c` and its clients | with what they meet of init and exit |
| `GpioDriver` | the writes of `driver4.c` and the pins | with what they meet of init and exit |
| `SensorGpioProofs` | theorems about the last two | |
| `Touchpad`, `TouchpadProofs` | the USB touchpad, its urb and its clients | |
| `MC*` | instances for TLC: values of the constants, symmetry | |

A module `XProofs` holds the theorems about module `X`; `SensorGpioProofs` extends
both `SensorDriver` and `GpioDriver`, hence the names `GpioSpec`, `GpioTypeOK` and
the like in the second.

**BufferDriver.** The seven drivers have the same open, read, write and release up
to the names of the functions, so one module stands for all, and the map in
`PROJECT.json` names a different copy for the two halves of a handler. The ioctl
is that of the four drivers that have one; `first.c`, `basic_driver.c` and
`base-driver.c` are the module without `IoctlWrite`, and `IoctlRoundTrip` says
nothing of them. `kernel_buffer` and
`val` are the drivers' globals; `live` and `mem` the allocator's view. A handler
that loads the pointer, may sleep, and then uses it, is two actions: `OpenAlloc`
is `kmalloc`, `OpenStore` the assignment of its result to `kernel_buffer` and
the test of it; `ReadStart`, `WriteStart` and `ReleaseStart` load the pointer,
`ReadCopy`, `WriteCopy` and `ReleaseFree` use it. The first access through a
null or freed pointer, the first double free and the first write past the block
set `fault` and end the behaviour. `overlapped` and `oversized` are history
variables: they record that clients did what no test program does. `RD_DATA`
changes no state of the driver, so it is no action; what it would return is what
`IoctlRoundTrip` speaks of.

**ScratchDevice.** One open file at a time owns an area; a write changes a prefix
of it, a read returns it, and nothing else does anything to it. The promise binds
both sides: a client that opens a second file, or writes more than the area
holds, makes it `void`, and then the specification says nothing more. So
`BufferDriver` can be shown to implement it in all its behaviours, and not only
in those of a well-behaved client.

**IrqDriver.** `loader` is the kernel call the thread of insmod or rmmod makes
next, from `request_irq` on and until `tasklet_kill` is done. `free_irq` and
`tasklet_kill` are two actions each, for both wait. `handler` is where
`irq_handler` is: entered, tasklet scheduled, idle again. `sched`, `queued` and
`running` are what the kernel keeps of a tasklet.

**ProcDriver.** The read handler tests the flag `len`, flips it and copies:
three actions, since nothing orders them against another read. A client of kind
`Cats` reads until a read returns 0, the others (the test program) read or write
when they like and show their buffer after each read. A write that is longer
than `chr_array` goes on into what the build has put behind it; of the module's
data that can be the flag, so the write leaves any integer of `Spills` in it and
sets `spilled`; the flag is tested only for being 0. `copy_to_user` may stop before
the first byte (the client's buffer keeps what it had) or after some (it is
`Torn`); the result is ignored and the length returned, so the read counts in
`told` as one that has brought the text, and `short` remembers that it has not.

**DriverLifecycle.** For each driver the table of the calls of init gives the
resource that is acquired, the sign of failure that the code tests for, and what
is released from the label it jumps to down to the return; exit is a sequence of
releases. `AcquireOk`, `AcquireFails` (the code notices), `AcquireMissed` (it
does not), `GiveBack`, `Release`, `Oops` and `Discard` interpret the tables one
call at a time. `held` is what the module that is loaded now has, `stale` what
modules that were discarded have left. A resource that has another count when it
is released (`region3` and `region1`, or `major256` for a call of
`unregister_chrdev` with a device number) is another resource, so releasing it
has no effect. `fleet` is the set of drivers that are around in a behaviour.
The three drivers with fixed major numbers are tables of one call; `foreign` is
the numbers that drivers from elsewhere hold, for `register_chrdev` fails if the
number is taken and `unregister_chrdev` releases it whoever holds it.

**CharBuffer.** A read or write is its start (`to_copy`), one step for each byte
copied, and its end. The order of assignments is the code's: a write sets
`buffer_pointer` after its copy, a read uses it before. `msg`, `msgLen` and
`alone` are history variables: the last write that returned, and whether a call
has met a write of another client. That a read pays no attention to its offset
is in the model, since it copies from the start of the buffer; so a client that
reads until the end of the file reads for ever.

**I2cClient.** `pinned` says which of the two drivers it is: they differ in
whether the file operations name their owner. `age` follows what a file's
`private_data` and file operations lead to: live data, freed data, freed code.
No handler sets `client` in the data, so every read and write ends in a null
dereference, or in a use after free once the data is gone; the model keeps both
and ends the behaviour there.

**SensorDriver.** `driver_ioctl` is three actions, with a chance to sleep between
any two: `Transfer` through the client pointer, `Store` into the global `value`,
`Answer` from `value` to the caller (or `NoAnswer`: the copy fails and ioctl
returns 0 all the same). `loader` is the part of init and exit that a call can
meet: `Publish` (the device can be opened from here on), `NewClient` or
`NoAdapter`, `Rmmod`, `Unregister`. `i2c_new_client_device` that fails leaves an
error pointer, which the code's test for NULL takes for a client. Init lets go of
the adapter with `i2c_put_adapter`, so it may be removed while the driver is
loaded (`AdapterGone`): the client is freed with it, `bh_i2c_client` still points
there, the next ioctl follows it, and exit unregisters it a second time
(`UnregisterFreed`). `unplugged` remembers that this has happened. `BH1750_data` is
the arithmetic of the code, with the division of C. `Fault` is a call through a
pointer that is no client or in a module that is gone. `alone` records whether a
client's call has met another.

**GpioDriver.** `latch4` is the level that `gpio_set_value` has put in pin 4,
`dir` the directions of pins 4 and 36, `owner4` who has requested pin 4. A write
is two actions, the copy from the client, which may sleep, and the switch; a
write of no bytes leaves any character in `value`. Another driver requests, sets
and frees pin 4. `order` is what a client last asked for since the pin is the
driver's; `irregular` that two writes have met or one was of no bytes.

**Touchpad.** The file is unfinished, so the functions that have a body are
modelled as they are meant, and of the probe function, which is missing, only
what the others rely on. `memory` is the parts of the mouse that are allocated,
in the order of `mouse_new`; `leaked` those that `touchpad_free` leaves without a
pointer. `urb` is idle, in flight, or in its handler with a good or a bad status;
`killers` the calls of `usb_kill_urb` that are waiting for it. `device` is where
probe or disconnect is: `usb_mouse_disconnect` is `Disconnect`,
`DisconnectKilled`, `Unregister` and `Free`, for it waits in the first and in the
third.

## What is assumed of the kernel

The kernel is not in the repository. The modules assume of it what the drivers
meet:

* `kmalloc` returns memory that is not in use, with any contents, or null.
  `kfree(NULL)` does nothing.
* Calls on one open file follow one another, and `release` comes after the last
  of them; a file whose open failed has no release. Calls on different files
  interleave.
* A failing call reports as in `Ladder!Convention`: `class_create` and
  `device_create` with an error pointer, allocations and `proc_create` with
  null, the others with a negative number. A second class of the same name
  fails, and `device_create` fails for an error pointer. `device_destroy`
  follows the class pointer, and stops the thread if it is an error pointer or
  its class is destroyed; `class_destroy` ignores an error pointer.
* Releasing what is not held has no effect (`free_irq` prints a warning); a
  region is released only with the count it was allocated with.
* A module is discarded when its init fails, even if a file is open. With
  `.owner` set an open file keeps rmmod from starting.
* The interrupt line is masked while its handler runs. `free_irq` detaches the
  handler and waits until it is idle. `tasklet_schedule` queues the tasklet
  unless its SCHED bit is set; the softirq clears the bit and runs the function
  once at a time; `tasklet_kill` waits for the bit, takes it, and waits for the
  function.
* The I2C core probes a device only with the driver registered, never runs probe
  and remove of a device together, unbinds every device before `i2c_del_driver`
  returns, and frees the device-managed data after remove or a failed probe.
  It lets one transfer at a time on the bus; `i2c_unregister_device` ignores an
  error pointer. When an adapter is removed it unregisters and frees the clients
  on it and tells no one who has a pointer to them: `SensorDriver` has this for
  `bh1750.c`; in `DriverLifecycle`, which asks what init and exit leave behind, the
  adapter is assumed to stay while `bh1750.c` is loaded. No error number is as low as -653 (`SensorAssumption`).
* `gpio_set_value` sets the latch of a pin whatever its owner and direction;
  `gpio_request` fails if the pin is taken, and may fail otherwise;
  `gpio_free` gives the pin back at whatever level it is.
* The input core calls open for the first client of a device and close for the
  last, under a lock that it holds as long as the call lasts, and
  `input_unregister_device` calls close if clients still have the device open.
  `usb_kill_urb` has an urb in flight complete with an error, has submissions
  refused while it waits, and returns when the handler has. `usb_deregister`
  disconnects the device. Submitting an urb may fail.

## Runs

Twelve runs. Nine must pass, three must find the violation that they are about.
Every property has a mutant in `PROJECT.json`, a change of one definition of the
model as a bug in the code would change it, under which the property fails.

| run | states | what it shows |
|---|---|---|
| `buffer` | 377,976 | two clients whose calls interleave freely, and the refinement |
| `irq` | 1,665 | interrupts against insmod and rmmod, with liveness |
| `lifecycle` | 59,309 | fourteen drivers loaded and unloaded, any call failing, with liveness |
| `lifecycle_detailed` | - | violation: a region that exit does not release |
| `proc_mixed` | 3,597,286 | readers and writers in any order, writes of any length, copies that stop |
| `proc_shows` | - | violation: a read that shows the old text |
| `char_buffer` | 811,164 | readers and writers of one buffer |
| `i2c` | 201,246 | both I2C drivers, with liveness |
| `sensor` | 260,895 | ioctls against insmod, rmmod, a removed adapter and each other |
| `gpio` | 9,696 | writes against insmod, rmmod and another driver |
| `gpio_output` | - | violation: the pin that is written is no output |
| `touchpad` | 438 | opens and closes against unplugging, with liveness |

**buffer** (`MCBufferDriver.cfg`). Two files, two blocks of two cells, writes of
one, two and three cells, copies that stop anywhere. `ExclusiveUse`: until uses
overlap, the file in use owns the one live block, and sessions that do not overlap
leave none. `FaultNeedsMisuse`: each of the four memory errors needs overlapping
uses or an oversized write, in spite of the pointer that `release` leaves dangling
and of `kmalloc` failing; all four occur in the run. `IoctlRoundTrip`: `val` is
what the only client sent last. `ImplementsScratch` is the specification of
`ScratchDevice` under the refinement mapping: the owner is the file between the
two halves of open and release, the content is the block `kernel_buffer` points
to, and the promise is void from the first overlap or oversized write on. Bounds:
two files give every interleaving of a pair of handlers, and each error and each
leak involves a pair; two blocks are the one in use and one that was freed or is
in dispute; two cells tell a copy that stops in the middle from a complete one,
and three are one too many. The run is reduced by the symmetry of files and
blocks, and stops at a fault (CHECK_DEADLOCK FALSE).

**irq** (`MCIrqDriver.cfg`). Four interrupts over any number of loads, a counter
of size three that wraps. `LoaderInv` ties the place of the loader's thread to
what the handler and the tasklet can be doing. `QuiescentWhenUnloaded`: nothing
is left of the driver when exit has returned, or init has failed.
`FaultNeedsEarlyIrq`: the handler is given a bad tasklet only by an interrupt
before `tasklet_init`. `RunsCoveredByIrqs`: the tasklet never runs more often than
it was asked to. `HandledIrqRuns`: every interrupt is followed by a run that
starts later. `UnloadEnds`: rmmod and a failing insmod end. Four interrupts are
enough for one to run, one to be queued, one to coalesce and one to come while
exit is waiting. A fault ends a behaviour (CHECK_DEADLOCK FALSE).

**lifecycle** (`MCDriverLifecycle.cfg`). Nine fleets, which hold all fourteen
drivers; one open file each. `LeavesOnlyResidue`: what each driver can
leave behind at worst. Six leave nothing; the other eight have a known residue,
listed in `Residue`, each an omission in the code. So nothing leads into discarded
code of drivers that cannot fail after `cdev_add` in a way they notice, have no
proc entry and release the number they registered. This rests on a coincidence
the run brings to light: the drivers publish their device before they are ready,
but miss the failures of `class_create` and `device_create` that come after, so no
init function fails with the device open. `NumberCoversCdev`: what can be opened
has its device number. `SparesOthers`: `driver2.c`, which does not load when its
number is taken, never takes it from another driver; the two drivers that ignore
the failure do. `ComesToRest`: a load ends with the module live or gone; a removal
ends unless the driver was refused its class; and the one driver that tests for
error pointers always ends. Drivers meet only in the class name, where one sees of
the others only whether it is taken, and in the table of major numbers: the fleets
are pairs of drivers with one class name, the pair of `driver2` and `ex07`, and
drivers alone. One open file is enough because the model asks only whether there
is one. A wedged module stays so (CHECK_DEADLOCK FALSE).

**proc_mixed** (`MCProcDriver_mixed.cfg`). Three clients, two that read until the
end, six reads. `Alternates`: until two reads are at once between test and flip,
or a write has run over the array, text and end of file alternate over all clients,
and the flag is as the read found it. `EachSeesTextOnce`: clients that read until
the end, one at a time, are each told exactly once that there is text, have it
unless their own copy stopped, and leave the flag set; a copy that stopped costs
its own client the text, for there is no second read, and no other client
anything. Six reads are three sessions of a client, or two reads of each. What a
write past the array leaves in the flag is 0, 1 or -1, which stands for all
integers that are neither: the code only tests the flag for being 0. The run is
reduced by the symmetry of the two clients that read until the end, and stops at
the bound (CHECK_DEADLOCK FALSE).

**char_buffer** (`MCCharBuffer.cfg`). Three clients, a buffer of two cells, counts
of none, less and more than the buffer; copies stop anywhere. `ReadsOneMessage`: a
read that meets no write copies a prefix of the last message, provided that no
writes overlapped then, and nothing of an older, longer message.
`BufferHoldsMessage`: what makes that inductive. Three clients are a reader and
two writers that disturb each other; two cells are one that has been copied and
one that has not.

**i2c** (`MCI2cClient.cfg`). Two devices, two files, either driver, devices bound
and unbound at any time. `UnboundHoldsNothing`: whatever fails, seen or not, an
unbound device holds nothing; in particular the release of a cdev that was never
added is harmless. `PinnedFilesAreFresh`: with the owner line no file is open on
discarded code, and if moreover devices are unbound only by rmmod, no freed data
is used. `RmmodEnds`: rmmod ends unless a device without its
class is stuck. Two devices are needed for the clash over the class name, two
files for one to close while another is open. A memory error ends the behaviour
(CHECK_DEADLOCK FALSE).

**sensor** (`MCSensorDriver.cfg`). Two clients, five words, two error numbers: the
words lie on both sides of a step of the percentage and of the divisor, the error
numbers are the ends of the range. `IsPercent`: what clients are told is from 0
to 100, although words go above the divisor and failed transfers are divided like
good ones. `AnswersOwn`: a client whose ioctl met no other is told what its own
transfer brought, although the answer passes through a global; with two that meet
it need not be. `FaultNeedsBadInitOrUnplug`: a bad client pointer or freed code is
met only because of an init that has not come to the client yet, could not make
it, or failed with the device published, or because the adapter was removed under
a loaded driver; never because of rmmod. Two clients are enough,
for an answer that is not one's own is one other client's. A fault ends a
behaviour (CHECK_DEADLOCK FALSE).

**gpio** (`MCGpioDriver.cfg`). Two clients, another driver, any direction and level
of the pins to begin with. `PinHasItsOwner`: no path of init or exit frees the
other driver's pin or keeps pin 4 for a module that is gone. `PinFollowsWrites`:
with no write in progress the pin of a live module is at the level last asked for,
whatever it was at when it was requested. `LetsGoLow`: exit frees the pin low; the
error path does not, since clients may have set it by then. Two clients are two
writes that meet.

**touchpad** (`MCTouchpad.cfg`). Two clients: the core asks the driver only about
the first and the last, so a third client would be like the second. `UseHasMouse`:
the urb, its handler and an open device have the whole mouse under them, also when
a client opens between the two steps of disconnect. `OpenDelivers`: a client that
has the device open gets its events until a transfer fails or a submission is
refused; an open that failed does not spoil the next. `LeavesNothing`: disconnect
leaves nothing, and a failed `mouse_new` the mouse and its input device at worst.
`GoesAway`: disconnect and rmmod end, although the handler submits the urb again.

## Fairness

Four modules state liveness: `IrqDriver`, `DriverLifecycle`, `I2cClient` and
`Touchpad`. All fairness but one is weak.

* A thread in init, exit, probe or remove goes on: nothing in these functions
  waits for another party except `free_irq`, `tasklet_kill`, `i2c_del_driver`,
  `usb_kill_urb` and the input core's lock, whose waits are guards. In
  `DriverLifecycle` that is one condition for each driver, for the loader's calls
  of one module follow one another.
* A handler that was entered returns, the softirq runs what is queued, and an urb
  that is killed is given back: the kernel does this without anybody's help.
* When rmmod is under way the cores unbind the devices.
* Strong fairness: `Unregister` waits for the input core's lock, which clients
  take again and again as they close. A mutex of the kernel is handed to the
  longest waiter, so a thread that waits for it again and again gets it.

Nothing makes an interrupt come, a transfer complete, a client call, or an
administrator load, unload, bind, plug or unplug anything. `BufferDriver`,
`ProcDriver`, `CharBuffer`, `SensorDriver` and `GpioDriver` have no fairness and
state no liveness: their handlers wait for nobody, and clients may stop.

## Proofs

TLAPS checks every theorem below for all values of the constants under the
assumptions that stand beside their declaration (`ConstAssumption`,
`IrqAssumption`, `ProcAssumption`, `CharAssumption`, `I2cAssumption`,
`SensorAssumption`, `GpioAssumption`, `LifecycleAssumption`: the null pointer is no
block, a write has at least one byte, the counter has at least one value, a word
has 16 bits, an error number is above -653, the drivers that are loaded are among
the fourteen, and the like).

| theorem | says |
|---|---|
| `BufferDriverProofs!TypeCorrect` | `TypeOK` |
| `BufferDriverProofs!ExclusiveOwnership` | `ExclusiveUse` |
| `BufferDriverProofs!MemorySafety` | `FaultNeedsMisuse` |
| `BufferDriverProofs!NoLeak` | `NoLeakWhenExclusive`, a conjunct of `ExclusiveUse` read by itself |
| `BufferDriverProofs!RoundTrip` | `IoctlRoundTrip` |
| `BufferDriverProofs!Refinement` | `ImplementsScratch`: the driver implements `ScratchDevice` |
| `IrqDriverProofs!TypeCorrect`, `LoaderInvariant` | `TypeOK`, `LoaderInv` |
| `IrqDriverProofs!Quiescent`, `FaultIsEarly` | `QuiescentWhenUnloaded`, `FaultNeedsEarlyIrq` |
| `IrqDriverProofs!RunsCovered` | `RunsCoveredByIrqs` |
| `DriverLifecycleProofs!TypeCorrect`, `LeavesOnly` | `TypeOK`, `LeavesOnlyResidue` |
| `DriverLifecycleProofs!NumberCovers`, `Spares` | `NumberCoversCdev`, `SparesOthers` |
| `DriverLifecycleProofs!StuckByClass` | a wedged module was refused its class, and is not `detailed_init_exit.c`: the safe half of `ComesToRest` |
| `CharBufferProofs!TypeCorrect`, `BufferIsMessage`, `OneMessage` | `TypeOK`, `BufferHoldsMessage`, `ReadsOneMessage` |
| `ProcDriverProofs!TypeCorrect`, `Alternation`, `OneText` | `TypeOK`, `Alternates`, `EachSeesTextOnce` |
| `I2cClientProofs!TypeCorrect`, `NothingHeld`, `Fresh` | `TypeOK`, `UnboundHoldsNothing`, `PinnedFilesAreFresh` |
| `I2cClientProofs!StuckByClass` | a wedged device is `Stuck`: the safe half of `RmmodEnds` |
| `SensorGpioProofs!TypeCorrect`, `Percent` | `TypeOK`, `IsPercent` |
| `SensorGpioProofs!OwnAnswer`, `FaultIsInitOrUnplug` | `AnswersOwn`, `FaultNeedsBadInitOrUnplug` |
| `SensorGpioProofs!PinTypes`, `OwnedRight` | `GpioTypeOK`, `PinHasItsOwner` |
| `SensorGpioProofs!Low`, `Follows` | `LetsGoLow`, `PinFollowsWrites` |
| `TouchpadProofs!TypeCorrect`, `MouseInUse` | `TypeOK`, `UseHasMouse` |
| `TouchpadProofs!NothingLost`, `Delivers` | `LeavesNothing`, `OpenDelivers` |

*Buffer.* `FaultNeedsMisuse` is not inductive: that a release which begins does
not free twice depends on the block being live, which depends on nobody else
having freed it. `ExclusiveUse` is the strengthening: while uses have not
overlapped at most one file is in use, and while it is open `kernel_buffer` is the
one live block and the call in progress works on it. Each action preserves it,
because the only action that takes a second file into use also sets `overlapped`.
`FaultNeedsMisuse` then needs only that an overrun sets `oversized`. The round
trip is inductive together with it.

*Buffer, the refinement.* `ScratchView` says what the mapping shows: no more than
that the promise is void once clients overlap or write too much, and until then
the owner, its call and its buffer, and as content the block `kernel_buffer`
points to. While the promise holds `ExclusiveUse` makes that block the owner's, so
each action is a step of `ScratchDevice` or a stutter (`ProperStep`): an open takes
effect when the pointer is stored, a read or write is a call and then its user copy,
a release takes effect when the block is freed; `kmalloc`, the start of a release
and an ioctl are stutters. The step that overlaps or overruns is `Misuse`,
and after it everything is a stutter, because misuse is for good (`MisuseStays`).

*Interrupt.* That nothing is left after exit depends on where the handler can be
while exit waits. `LoaderInv` says it: after `free_irq` has detached the handler
and seen it idle no one can set the SCHED bit, so `tasklet_kill` finds a tasklet
that can only run out. `RunsCovered` counts: an interrupt pays for at most one
run, and `sched` says whether it has been paid out. It uses that SCHED is clear
when the tasklet is not queued, a conjunct of `LoaderInv`.

*Lifecycle.* What the properties need of the tables is stated about a table
(`SoundTable`, `NumberOutlivesCdev`, `Ordered`) and proved for the ten that differ;
everything else is proved once, for any table that satisfies it. `HeldInv` follows
a load: init holds no more than the calls before the one it has come to, and
whoever is undoing no more than the releases ahead, and the residue; a file is open
in a module that fails only if the residue has a file. `NumberInv` says that where
the cdev is the number is, and that the releases ahead keep this order; it needs
that a first call whose failure is noticed has succeeded (`FirstInv`). It does not
hold of `irq_device_driver.c`, whose error path releases the number and keeps the
cdev. `MajorInv` says that who is about to give 91 back has it, so that no other
driver can. `ClassInv` says that a class pointer that is set leads to a class as
long as a device is still to be destroyed through it, since every list of releases
has the device before the class; so a module is wedged only by the error pointer
of a class it was refused. A step of one driver changes nothing that these say of
another (`OthersStay`).

*Proc.* Nothing is assumed of `Spills` but that its members are integers. That the
flag is 0 or 1 is proved of behaviours without a write past the array, from what
the flips leave in it. `Alternates` is inductive as it stands with `TypeOK`: a read
that is between test and flip is alone there and finds the flag unchanged.
`EachSeesTextOnce` rests on `OneCat`, which says at each point of the only
session how often the client has been told of text, what its buffer then has
(`Got`: the text, unless its copy stopped) and what the flag is.

*Character buffer.* A read copies right bytes only if the buffer holds the last
message, and it does only if nobody was writing meanwhile: `BufferHoldsMessage`
adds what a lone write has put in place so far, and that a read which is alone
excludes writes. The two are inductive together.

*I2C.* `UnboundHoldsNothing` says nothing of the way there. `HeldInv` follows the
tables: probe holds no more than the calls before the one it has come to, a probe
that fails or a remove no more than the releases that are ahead, and the data.
The lemmas `ProbeTable`, `RemoveTable` and `TodoTail` state what it needs of the
tables. `FreshInv` adds the files: with the owner line a file is open only while
the module is loaded, and if only rmmod unbinds devices, only on a device that is
bound, since a cdev is held (`CdevBound`) only by a device that is bound or has
just begun to be removed. `ClassInv` is that of the lifecycle: the device goes
before the class, so no `device_destroy` follows the pointer of a class that this
driver has destroyed.

*Sensor.* `IsPercent` rests on a lemma of arithmetic, `DataIsPercent`: the quotient
of any 16-bit word or any error number lies between 0 and 100. `AnswersOwn` is
strengthened by what `value` holds between the store and the answer of a call that
met no other. For `FaultNeedsBadInitOrUnplug`: while the module is going nobody is
in a call, because an open file keeps rmmod from starting; and `FaultInv` says that
a module that is live or going has its client, or an error pointer, unless the
adapter has gone.

*GPIO.* `PinHasItsOwner` is inductive with `TypeOK`. `LetsGoLow` needs `GoingInv`:
exit runs with no file open, and the pin is not the other driver's. `FollowInv`
adds to `PinFollowsWrites` what the one write in progress is about to do.

*Touchpad.* `UseInv` says who may use the mouse at each place of disconnect: the
urb is in flight only for clients that have the device open or for a close that is
killing it, and until the last close is done disconnect cannot free the mouse.
Every theorem of the module uses it.

Only model-checked: the five liveness properties (`HandledIrqRuns`, `UnloadEnds`,
`ComesToRest`, `RmmodEnds`, `GoesAway`), since fairness and ENABLED are out of reach
of the prover. `ComesToRest` and `RmmodEnds` except what is stuck; the theorems
`StuckByClass` say of what that can be, for any number of drivers and devices.

## Disagreements found

* `gpio_output`. `driver4.c` requests pin 4 (line 120, below the comment `gpio 4
  init`) and writes to pin 4 (lines 51 and 54), but makes pin 36 an output (line
  125), where the message for a failure speaks of GPIO 4. If pin 4 is not an
  output already, no write reaches the LED.
* `lifecycle_detailed`. `detailed_init_exit.c` allocates three minors (line 59)
  and its exit releases one (line 102), which releases none. The right call is at
  line 95 in a comment, and the message at line 103 says all is unregistered.
  `ExitUnregistersAll` is about the removal of a live module only: in the trace a
  load succeeds, rmmod runs exit to its last call, and the region is still held.
* `proc_shows`. `test_app_proc.c` prints its buffer as the data of the entry after
  each read (lines 90 to 92). In the trace a lone program reads, writes a text that
  fits and reads again: the second read finds the flag clear and copies nothing, so
  the program shows the text from before its write. Over-long writes and copies
  that stop are excluded by `ShowsText`.

The residues in `DriverLifecycle!Residue` and the conditions in
`FaultNeedsMisuse`, `FaultNeedsEarlyIrq`, `FaultNeedsBadInitOrUnplug`, `Alternates`,
`PinFollowsWrites`, `RmmodEnds` and `PinnedFilesAreFresh` mark the other places where
the code does less than one would wish; nothing in the repository claims otherwise.

## What is not modelled

* The contents of messages to the log, and the formatting of menus.
* The contents of a proc entry byte by byte: the text is one value, so the
  difference between the length a read reports and the 40 bytes it copies does
  not appear. It concerns only memory of the client.
* The user's memory: a client's buffer that is shorter than `mem_size`.
* `driver_read` of `driver4.c`, and open, read, write and close of
  `detailed_init_exit.c` and of the drivers with fixed major numbers: they print,
  copy a constant or return one, and change no state.
* The events that the touchpad reports, and its probe function, which does not
  exist; the file does not compile as it stands.
* The exercises `ex01` to `ex06`, `simple-init-exit*.c`, `driver1.c` and `i2c/*.c`
  only print. That a module whose symbol another uses cannot be unloaded is the
  kernel's doing.
* `adxl345_i2c_driver.c` has no function with a body; `making.sh` and
  `useful_notes.txt` have no behaviour.

## Plan

Every component with state is modelled, and of the properties of the passing runs
all but the liveness properties are proved. What is left is `ProcDriver` with cells
in place of the text, for the length that a read reports: the one hazard in
`PROJECT.json` that no property covers.
