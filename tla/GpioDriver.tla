----------------------------- MODULE GpioDriver ------------------------------
(***************************************************************************)
(* letsCodeLinuxDriver/driver4.c and the pins it works on: clients write   *)
(* '0' or '1' to the device to set pin 4, while insmod, which publishes    *)
(* the device before it asks for the pin, or rmmod is under way, and while *)
(* another driver may have the pin.                                        *)
(*                                                                         *)
(* gpio_set_value checks nothing: it sets the output latch of a pin that   *)
(* is requested or not, and whatever the direction of the pin; the latch   *)
(* reaches the wire only if the pin is an output.  What init and exit hold *)
(* and leave behind besides the pins is in DriverLifecycle.                *)
(***************************************************************************)
EXTENDS Naturals

CONSTANTS Writers, \* the files clients may open
          NoOrder  \* none of the levels

ASSUME GpioAssumption == NoOrder \notin {0, 1}

VARIABLES
  mod,        \* the module, and where the thread of insmod or rmmod is
  owner4,     \* who has requested pin 4: "none", "driver4" or "other"
  otherHas,   \* the other driver believes that it has pin 4
  latch4,     \* the output latch of pin 4
  dir,        \* dir[p]: the direction of the pin p
  writer,     \* writer[f]: "closed", "open" or "writing"
  char,       \* char[f]: the variable value of the write in progress
  order,      \* history: the level last asked for since the pin was requested
  irregular   \* history: two writes have met, or one was of no bytes

pinVars    == <<owner4, otherHas, latch4, dir>>
writerVars == <<writer, char, irregular>>
gpioVars   == <<mod, pinVars, writerVars, order>>

Chars == {0, 1, 2}   \* '0', '1' and any other character
Pins  == {4, 36}

GpioInit == /\ mod = "unloaded"
            /\ owner4 = "none"
            /\ otherHas = FALSE
            /\ latch4 \in {0, 1}
            /\ dir \in [Pins -> {"in", "out"}]
            /\ writer = [f \in Writers |-> "closed"]
            /\ char = [f \in Writers |-> 2]
            /\ order = NoOrder
            /\ irregular = FALSE

-----------------------------------------------------------------------------
(* insmod and rmmod *)

ModGoes(from, to) == mod = from /\ mod' = to /\ UNCHANGED writerVars

\* ModuleInit, up to the point where the device can be opened.
ModuleInit == /\ ModGoes("unloaded", "published")
              /\ order' = NoOrder
              /\ UNCHANGED pinVars

\* gpio_request(4): refused if the pin is taken; then to addError.
Request == /\ owner4 = "none"
           /\ ModGoes("published", "requested")
           /\ owner4' = "driver4"
           /\ order' = NoOrder
           /\ UNCHANGED <<otherHas, latch4, dir>>

\* Broken variant, for a mutant: a failed request jumps to gpioError.
RequestFailsFree == /\ ModGoes("published", "discarded")
                    /\ owner4' = "none"
                    /\ UNCHANGED <<otherHas, latch4, dir, order>>

RequestFails == ModGoes("published", "discarded") /\ UNCHANGED <<pinVars, order>>

\* gpio_direction_output(36, 1), on a pin that was not requested: pin 4 keeps
\* its direction.
Direct == /\ ModGoes("requested", "live")
          /\ dir' = [dir EXCEPT ![36] = "out"]
          /\ UNCHANGED <<owner4, otherHas, latch4, order>>

\* The label gpioError: pin 4 is freed, at whatever level clients have set it.
DirectFails == /\ ModGoes("requested", "discarded")
               /\ owner4' = "none"
               /\ UNCHANGED <<otherHas, latch4, dir, order>>

\* Broken variant, for a mutant: no owner line, rmmod ignores open files.
ModuleExitUnowned == /\ ModGoes("live", "going")
                     /\ latch4' = 0
                     /\ order' = NoOrder
                     /\ UNCHANGED <<owner4, otherHas, dir>>

\* ModuleExit: the pin is set low ...
ModuleExit == /\ ModGoes("live", "going")
              /\ \A f \in Writers : writer[f] = "closed"
              /\ latch4' = 0
              /\ order' = NoOrder
              /\ UNCHANGED <<owner4, otherHas, dir>>

\* ... and freed, and the rest.
FreePin == /\ ModGoes("going", "unloaded")
           /\ owner4' = "none"
           /\ UNCHANGED <<otherHas, latch4, dir, order>>

-----------------------------------------------------------------------------
(* The other driver *)

OtherRequests == /\ owner4 = "none"
                 /\ owner4' = "other"
                 /\ otherHas' = TRUE
                 /\ dir' \in {[dir EXCEPT ![4] = d] : d \in {"in", "out"}}
                 /\ UNCHANGED <<mod, latch4, writerVars, order>>
OtherSets == /\ otherHas
             /\ latch4' \in {0, 1}
             /\ UNCHANGED <<mod, owner4, otherHas, dir, writerVars, order>>
OtherFrees == /\ otherHas
              /\ owner4' = "none"
              /\ otherHas' = FALSE
              /\ UNCHANGED <<mod, latch4, dir, writerVars, order>>

-----------------------------------------------------------------------------
(* Clients, until a failed init has freed the module under them *)

Writing == {f \in Writers : writer[f] = "writing"}

WriterGoes(f, from, to) == /\ mod # "discarded"
                           /\ writer[f] = from
                           /\ writer' = [writer EXCEPT ![f] = to]

driver_open(f) == /\ mod \in {"published", "requested", "live"}
                  /\ WriterGoes(f, "closed", "open")
                  /\ UNCHANGED <<mod, pinVars, char, order, irregular>>
driver_close(f) == /\ WriterGoes(f, "open", "closed")
                   /\ UNCHANGED <<mod, pinVars, char, order, irregular>>

\* driver_write up to copy_from_user of at most one byte.  A bad address gives
\* a zero; a count of 0 leaves value with whatever the stack holds.
WriteCopy(f) ==
  /\ WriterGoes(f, "open", "writing")
  /\ \E count \in {0, 1}, c \in Chars, good \in BOOLEAN :
       /\ char' = [char EXCEPT ![f] = IF count = 1 /\ ~good THEN 2 ELSE c]
       /\ order' = IF count = 1 /\ good /\ c \in {0, 1} THEN c ELSE order
       /\ irregular' = (irregular \/ Writing # {} \/ count = 0)
  /\ UNCHANGED <<mod, pinVars>>

\* The switch is done: the level of pin 4 is l.
Switched(f, l) == /\ WriterGoes(f, "writing", "open")
                  /\ latch4' = l
                  /\ UNCHANGED <<mod, owner4, otherHas, dir, char, order, irregular>>

\* Broken variants, for mutants: the first case has no break; any character is
\* passed on as a level.
WriteSwitchFalls(f)     == Switched(f, IF char[f] \in {0, 1} THEN 1 ELSE latch4)
WriteSwitchUnchecked(f) == Switched(f, char[f])

\* The switch: gpio_set_value(4, 0), gpio_set_value(4, 1), or nothing.
WriteSwitch(f) == Switched(f, IF char[f] \in {0, 1} THEN char[f] ELSE latch4)

GpioNext == \/ ModuleInit \/ Request \/ RequestFails \/ Direct \/ DirectFails
            \/ ModuleExit \/ FreePin
            \/ OtherRequests \/ OtherSets \/ OtherFrees
            \/ \E f \in Writers : \/ driver_open(f) \/ driver_close(f)
                                  \/ WriteCopy(f) \/ WriteSwitch(f)

GpioSpec == GpioInit /\ [][GpioNext]_gpioVars

-----------------------------------------------------------------------------
(* Properties *)

\* Every variable has its type.
GpioTypeOK ==
  /\ mod \in {"unloaded", "published", "requested", "live", "going", "discarded"}
  /\ owner4 \in {"none", "driver4", "other"}
  /\ otherHas \in BOOLEAN
  /\ latch4 \in {0, 1}
  /\ dir \in [Pins -> {"in", "out"}]
  /\ writer \in [Writers -> {"closed", "open", "writing"}]
  /\ char \in [Writers -> Chars]
  /\ order \in {0, 1, NoOrder}
  /\ irregular \in BOOLEAN

\* No path of init or exit frees the pin of the other driver or keeps pin 4
\* for a module that is gone: it is requested exactly while init has got it
\* and exit has not freed it.
PinHasItsOwner == /\ owner4 = "other" <=> otherHas
                  /\ owner4 = "driver4" <=> mod \in {"requested", "live", "going"}

\* When no write is in progress the pin of a live module is at the level that
\* a client last asked for, whatever was written and by whom the pin was set
\* before the request, as long as no two writes have met and none was of no
\* bytes: that sets the pin to what an earlier call has left on the stack.
PinFollowsWrites ==
  mod = "live" /\ Writing = {} /\ order # NoOrder /\ ~irregular => latch4 = order

\* Exit lets go of the pin with its latch low: no write can set it between
\* gpio_set_value and gpio_free.  (The label gpioError frees it as it is.)
LetsGoLow == [][mod = "going" /\ owner4' = "none" => latch4 = 0]_gpioVars

\* "gpio 4 init", and "Can not set GPIO 4 to output" when that fails: once the
\* module is live, pin 4 should be an output, for the LED to follow it.
PinFourIsOutput == mod = "live" => dir[4] = "out"
=============================================================================
