-------------------------- MODULE SensorGpioProofs --------------------------
(***************************************************************************)
(* Proofs about the two drivers that publish their device before they have *)
(* got the hardware behind it, and let clients in meanwhile: SensorDriver, *)
(* for any number of clients, whatever words the sensor gives and          *)
(* whichever transfers fail, and, below, GpioDriver, for any number of     *)
(* clients and whatever the other user of the pin does.                    *)
(***************************************************************************)
EXTENDS SensorDriver, GpioDriver, TLAPS

\* What BH1750_data makes of a word or of an error number is a percentage: the
\* largest word gives 100, and no error number gives less than 0.
LEMMA DataIsPercent ==
  ASSUME NEW r \in Words \cup Errors \cup {0} PROVE BH1750_data(r) \in 0 .. 100
<1>1. r \in Int /\ -652 <= r /\ r <= MaxWord
  <2>1. CASE r \in Words
    <3>1. r \in 0 .. MaxWord
      BY <2>1, SensorAssumption
    <3>. QED
      BY <3>1
  <2>2. CASE r \in Errors
    <3>1. r \in -652 .. -1
      BY <2>2, SensorAssumption
    <3>. QED
      BY <3>1 DEF MaxWord
  <2>3. CASE r = 0
    BY <2>3 DEF MaxWord
  <2>. QED
    BY <2>1, <2>2, <2>3
<1>2. CASE r >= 0
  <2>1. (r * 100) \div Divisor \in 0 .. 100 /\ r * 100 >= 0
    BY <1>1, <1>2 DEF MaxWord, Divisor
  <2>. QED
    BY <2>1 DEF BH1750_data, Quotient
<1>3. CASE r < 0
  <2>1. r * 100 \in Int /\ ~(r * 100 >= 0)
    BY <1>1, <1>3
  <2>2. (-(r * 100)) \div Divisor = 0
    BY <1>1, <1>3 DEF Divisor
  <2>. QED
    BY <2>1, <2>2 DEF BH1750_data, Quotient
<1>. QED
  BY <1>1, <1>2, <1>3

\* Every variable keeps its type: what a transfer brought is a word, an error
\* number, or the 0 from before the first.
THEOREM TypeCorrect == Spec => []TypeOK
<1>1. Init => TypeOK
  <2>. SUFFICES ASSUME Init PROVE TypeOK
    OBVIOUS
  <2>1. alone \in [Files -> BOOLEAN] /\ unplugged \in BOOLEAN /\ fault \in BOOLEAN
    BY DEF Init
  <2>. QED
    BY <2>1 DEF Init, TypeOK
<1>2. TypeOK /\ [Next]_vars => TypeOK'
  <2>. SUFFICES ASSUME TypeOK, [Next]_vars PROVE TypeOK'
    OBVIOUS
  <2>. USE DEF TypeOK, Load, Goes, modVars
  <2>1. CASE Publish
    <3>1. unplugged' \in BOOLEAN
      BY <2>1 DEF Publish
    <3>. QED
      BY <2>1, <3>1 DEF Publish
  <2>2. CASE NoAdapter BY <2>2 DEF NoAdapter
  <2>3. CASE NewClient BY <2>3 DEF NewClient
  <2>4. CASE Rmmod BY <2>4 DEF Rmmod
  <2>5. CASE Unregister \/ UnregisterFreed \/ AdapterGone
    BY <2>5 DEF Unregister, UnregisterFreed, AdapterGone
  <2>6. ASSUME NEW f \in Files, Open(f) PROVE TypeOK'
    BY <2>6 DEF Open
  <2>7. ASSUME NEW f \in Files, Ioctl(f) PROVE TypeOK'
    BY <2>7 DEF Ioctl
  <2>8. ASSUME NEW f \in Files, Transfer(f) PROVE TypeOK'
    BY <2>8 DEF Transfer
  <2>9. ASSUME NEW f \in Files, Store(f) PROVE TypeOK'
    <3>1. BH1750_data(ret[f]) \in Int
      BY DataIsPercent
    <3>. QED
      BY <2>9, <3>1 DEF Store
  <2>10. ASSUME NEW f \in Files, Answer(f) PROVE TypeOK'
    BY <2>10 DEF Answer
  <2>11. ASSUME NEW f \in Files, NoAnswer(f) \/ Shows(f) \/ Close(f) PROVE TypeOK'
    BY <2>11 DEF NoAnswer, Shows, Close
  <2>12. ASSUME NEW f \in Files, Fault(f) PROVE TypeOK'
    BY <2>12 DEF Fault
  <2>13. CASE UNCHANGED vars BY <2>13 DEF vars
  <2>. QED
    BY <2>1, <2>2, <2>3, <2>4, <2>5, <2>6, <2>7, <2>8, <2>9, <2>10, <2>11, <2>12,
       <2>13 DEF Next
<1>. QED
  BY <1>1, <1>2, PTL DEF Spec

-----------------------------------------------------------------------------

\* What clients are told is between 0 and 100, for every word the sensor may
\* give and every error number of the bus.
THEOREM Percent == Spec => []IsPercent
<1>1. Init => IsPercent
  BY DEF Init, IsPercent
<1>2. TypeOK /\ IsPercent /\ [Next]_vars => IsPercent'
  <2>. SUFFICES ASSUME TypeOK, IsPercent, [Next]_vars PROVE IsPercent'
    OBVIOUS
  <2>. USE DEF TypeOK, IsPercent, Load, Goes, modVars
  <2>1. CASE \/ Publish \/ NoAdapter \/ NewClient \/ AdapterGone
             \/ Rmmod \/ Unregister \/ UnregisterFreed
    BY <2>1 DEF Publish, NoAdapter, NewClient, AdapterGone, Rmmod, Unregister,
                UnregisterFreed
  <2>2. ASSUME NEW f \in Files, Open(f) \/ Answer(f) PROVE IsPercent'
    BY <2>2 DEF Open, Answer
  <2>3. ASSUME NEW f \in Files, Store(f) PROVE IsPercent'
    <3>1. BH1750_data(ret[f]) \in 0 .. 100
      BY DataIsPercent
    <3>. QED
      BY <2>3, <3>1 DEF Store
  <2>4. ASSUME NEW f \in Files,
               Ioctl(f) \/ Transfer(f) \/ NoAnswer(f) \/ Shows(f) \/ Close(f) \/ Fault(f)
        PROVE  IsPercent'
    BY <2>4 DEF Ioctl, Transfer, NoAnswer, Shows, Close, Fault
  <2>5. CASE UNCHANGED vars BY <2>5 DEF vars
  <2>. QED
    BY <2>1, <2>2, <2>3, <2>4, <2>5 DEF Next
<1>. QED
  BY <1>1, <1>2, TypeCorrect, PTL DEF Spec

-----------------------------------------------------------------------------

\* The strengthening of AnswersOwn: a call that has met no other is the only
\* one, and value holds its result from the store to the copy; a module whose
\* data init would overwrite has no files.
LoneCall(f) ==
  alone[f] => /\ f \in InCall => InCall = {f}
              /\ st[f] = "stored" => value = BH1750_data(ret[f])
              /\ st[f] = "answered" => answer[f] = BH1750_data(ret[f])
OwnInv == /\ loader \in {"unloaded", "going"} => \A f \in Files : st[f] = "closed"
          /\ \A f \in Files : LoneCall(f)

\* A client whose call met no other is told what its own transfer brought,
\* for any number of clients that come before and after it.
THEOREM OwnAnswer == Spec => []AnswersOwn
<1>. USE DEF LoneCall
<1>1. Init => OwnInv
  BY DEF Init, OwnInv
<1>2. TypeOK /\ OwnInv /\ [Next]_vars => OwnInv'
  <2>. SUFFICES ASSUME TypeOK, OwnInv, [Next]_vars PROVE OwnInv'
    OBVIOUS
  <2>. USE DEF TypeOK, OwnInv, InCall, modVars
  <2>1. CASE Publish BY <2>1 DEF Publish, Load
  <2>2. CASE NoAdapter \/ NewClient \/ AdapterGone \/ Rmmod \/ Unregister \/ UnregisterFreed
    BY <2>2 DEF NoAdapter, NewClient, AdapterGone, Rmmod, Unregister, UnregisterFreed, Load
  <2>3. ASSUME NEW f \in Files, Open(f) PROVE OwnInv'
    BY <2>3 DEF Open, Goes
  <2>4. ASSUME NEW f \in Files, Ioctl(f) PROVE OwnInv'
    BY <2>4 DEF Ioctl, Goes
  <2>5. ASSUME NEW f \in Files, Transfer(f) PROVE OwnInv'
    BY <2>5 DEF Transfer, Goes
  <2>6. ASSUME NEW f \in Files, Store(f) PROVE OwnInv'
    BY <2>6 DEF Store, Goes
  <2>7. ASSUME NEW f \in Files, Answer(f) PROVE OwnInv'
    BY <2>7 DEF Answer, Goes
  <2>8. ASSUME NEW f \in Files, NoAnswer(f) \/ Shows(f) \/ Close(f) PROVE OwnInv'
    BY <2>8 DEF NoAnswer, Shows, Close, Goes
  <2>9. ASSUME NEW f \in Files, Fault(f) PROVE OwnInv'
    BY <2>9 DEF Fault
  <2>10. CASE UNCHANGED vars BY <2>10 DEF vars
  <2>. QED
    BY <2>1, <2>2, <2>3, <2>4, <2>5, <2>6, <2>7, <2>8, <2>9, <2>10 DEF Next
<1>3. OwnInv => AnswersOwn
  BY DEF OwnInv, AnswersOwn
<1>. QED
  BY <1>1, <1>2, <1>3, TypeCorrect, PTL DEF Spec

-----------------------------------------------------------------------------

\* The strengthening of FaultNeedsBadInitOrUnplug: a module that is live or going
\* has its client or an error pointer unless the adapter has gone, and one that
\* takes its client down has no files.
FaultInv ==
  /\ FaultNeedsBadInitOrUnplug
  /\ loader \in {"live", "going"} => bh_i2c_client \in {"ok", "err"} \/ unplugged
  /\ loader \in {"unloaded", "going"} => \A f \in Files : st[f] = "closed"

\* Only an init that is not done, or that could not make its client, or failed,
\* or an adapter that has gone, lets a call follow a bad pointer or run in freed
\* code; and it takes one of these for rmmod to meet a client that is freed.
THEOREM FaultIsInitOrUnplug == Spec => []FaultNeedsBadInitOrUnplug
<1>. USE DEF FaultInv, FaultNeedsBadInitOrUnplug
<1>1. Init => FaultInv
  BY DEF Init
<1>2. TypeOK /\ FaultInv /\ [Next]_vars => FaultInv'
  <2>. SUFFICES ASSUME TypeOK, FaultInv, [Next]_vars PROVE FaultInv'
    OBVIOUS
  <2>. USE DEF TypeOK, modVars
  <2>0. CASE UNCHANGED vars BY <2>0 DEF vars
  <2>. SUFFICES ASSUME ~fault, Next PROVE FaultInv'
    BY <2>0 DEF Next
  <2>1. CASE \/ Publish \/ NoAdapter \/ NewClient \/ AdapterGone
             \/ Rmmod \/ Unregister \/ UnregisterFreed
    BY <2>1 DEF Publish, NoAdapter, NewClient, AdapterGone, Rmmod, Unregister,
                UnregisterFreed, Load
  <2>2. ASSUME NEW f \in Files,
               \/ Open(f) \/ Ioctl(f) \/ Transfer(f) \/ Store(f) \/ Answer(f)
               \/ NoAnswer(f) \/ Shows(f) \/ Close(f)
        PROVE  FaultInv'
    BY <2>2 DEF Open, Ioctl, Transfer, Store, Answer, NoAnswer, Shows, Close, Goes
  <2>3. ASSUME NEW f \in Files, Fault(f) PROVE FaultInv'
    BY <2>3 DEF Fault, Gone
  <2>. QED
    BY <2>1, <2>2, <2>3 DEF Next
<1>. QED
  BY <1>1, <1>2, TypeCorrect, PTL DEF Spec

-----------------------------------------------------------------------------
(* GpioDriver.  PinHasItsOwner says who has the pin at each place of the      *)
(* loader, and with it at what level the pin is; it is inductive with the     *)
(* types and gives the other properties.                                      *)

ModuleStep == \/ ModuleInit \/ Request \/ RequestFails \/ Direct \/ DirectFails
              \/ ModuleExit \/ FreePin
OtherStep  == OtherRequests \/ OtherSets \/ OtherFrees

\* Every variable keeps its type: no character but '0' and '1' gets to the pin.
THEOREM PinTypes == GpioSpec => []GpioTypeOK
<1>1. GpioInit => GpioTypeOK
  <2>. SUFFICES ASSUME GpioInit PROVE GpioTypeOK
    OBVIOUS
  <2>1. otherHas \in BOOLEAN /\ irregular \in BOOLEAN
    BY DEF GpioInit
  <2>. QED
    BY <2>1 DEF GpioInit, GpioTypeOK, Chars
<1>2. GpioTypeOK /\ [GpioNext]_gpioVars => GpioTypeOK'
  <2>. SUFFICES ASSUME GpioTypeOK, [GpioNext]_gpioVars PROVE GpioTypeOK'
    OBVIOUS
  <2>. USE DEF GpioTypeOK, writerVars, pinVars
  <2>1. CASE ModuleStep
    BY <2>1 DEF ModuleStep, ModuleInit, Request, RequestFails, Direct, DirectFails,
                ModuleExit, FreePin, ModGoes, Pins
  <2>2. CASE OtherStep
    <3>1. dir' \in [Pins -> {"in", "out"}]
      BY <2>2 DEF OtherStep, OtherRequests, OtherSets, OtherFrees, Pins
    <3>2. UNCHANGED <<mod, writer, char, order, irregular>>
      BY <2>2 DEF OtherStep, OtherRequests, OtherSets, OtherFrees
    <3>3. owner4' \in {"none", "driver4", "other"} /\ otherHas' \in BOOLEAN
      BY <2>2 DEF OtherStep, OtherRequests, OtherSets, OtherFrees
    <3>4. latch4' \in {0, 1}
      BY <2>2 DEF OtherStep, OtherRequests, OtherSets, OtherFrees
    <3>. QED
      BY <3>1, <3>2, <3>3, <3>4
  <2>3. ASSUME NEW f \in Writers, driver_open(f) \/ driver_close(f) PROVE GpioTypeOK'
    BY <2>3 DEF driver_open, driver_close, WriterGoes
  <2>4. ASSUME NEW f \in Writers, WriteCopy(f) PROVE GpioTypeOK'
    <3>1. irregular' \in BOOLEAN
      BY <2>4 DEF WriteCopy
    <3>. QED
      BY <2>4, <3>1 DEF WriteCopy, WriterGoes, Chars
  <2>5. ASSUME NEW f \in Writers, WriteSwitch(f) PROVE GpioTypeOK'
    BY <2>5 DEF WriteSwitch, Switched, WriterGoes
  <2>6. CASE UNCHANGED gpioVars BY <2>6 DEF gpioVars
  <2>. QED
    BY <2>1, <2>2, <2>3, <2>4, <2>5, <2>6 DEF GpioNext, ModuleStep, OtherStep
<1>. QED
  BY <1>1, <1>2, PTL DEF GpioSpec

-----------------------------------------------------------------------------

\* The pin is driver4's exactly while init has got it and exit has not freed
\* it, and the other driver has it exactly when it believes so, whichever
\* calls of init fail.
THEOREM OwnedRight == GpioSpec => []PinHasItsOwner
<1>1. GpioInit => PinHasItsOwner
  BY DEF GpioInit, PinHasItsOwner
<1>2. GpioTypeOK /\ PinHasItsOwner /\ [GpioNext]_gpioVars => PinHasItsOwner'
  <2>. SUFFICES ASSUME GpioTypeOK, PinHasItsOwner, [GpioNext]_gpioVars
                PROVE  PinHasItsOwner'
    OBVIOUS
  <2>. USE DEF GpioTypeOK, PinHasItsOwner, pinVars
  <2>1. CASE ModuleStep
    BY <2>1 DEF ModuleStep, ModuleInit, Request, RequestFails, Direct, DirectFails,
                ModuleExit, FreePin, ModGoes
  <2>2. CASE OtherStep
    BY <2>2 DEF OtherStep, OtherRequests, OtherSets, OtherFrees
  <2>3. ASSUME NEW f \in Writers,
               driver_open(f) \/ driver_close(f) \/ WriteCopy(f) \/ WriteSwitch(f)
        PROVE  PinHasItsOwner'
    BY <2>3 DEF driver_open, driver_close, WriteCopy, WriteSwitch, Switched
  <2>4. CASE UNCHANGED gpioVars BY <2>4 DEF gpioVars
  <2>. QED
    BY <2>1, <2>2, <2>3, <2>4 DEF GpioNext, ModuleStep, OtherStep
<1>. QED
  BY <1>1, <1>2, PinTypes, PTL DEF GpioSpec

-----------------------------------------------------------------------------

\* Exit runs with no file open, and with the latch low: only a write, or the
\* other driver, could set it, and the pin is not the other's.
GoingInv == mod = "going" => latch4 = 0 /\ \A f \in Writers : writer[f] = "closed"

\* It needs whose the pin is: an exit under way has the pin to itself.
LEMMA GoingInvariant == GpioSpec => []GoingInv
<1>1. GpioInit => GoingInv
  BY DEF GpioInit, GoingInv
<1>2. GpioTypeOK /\ PinHasItsOwner /\ GoingInv /\ [GpioNext]_gpioVars => GoingInv'
  <2>. SUFFICES ASSUME GpioTypeOK, PinHasItsOwner, GoingInv, [GpioNext]_gpioVars
                PROVE  GoingInv'
    OBVIOUS
  <2>. USE DEF GpioTypeOK, PinHasItsOwner, GoingInv, pinVars, writerVars
  <2>1. CASE ModuleStep
    BY <2>1 DEF ModuleStep, ModuleInit, Request, RequestFails, Direct, DirectFails,
                ModuleExit, FreePin, ModGoes
  <2>2. CASE OtherStep
    BY <2>2 DEF OtherStep, OtherRequests, OtherSets, OtherFrees
  <2>3. ASSUME NEW f \in Writers,
               driver_open(f) \/ driver_close(f) \/ WriteCopy(f) \/ WriteSwitch(f)
        PROVE  GoingInv'
    BY <2>3 DEF driver_open, driver_close, WriteCopy, WriteSwitch, Switched, WriterGoes
  <2>4. CASE UNCHANGED gpioVars BY <2>4 DEF gpioVars
  <2>. QED
    BY <2>1, <2>2, <2>3, <2>4 DEF GpioNext, ModuleStep, OtherStep
<1>. QED
  BY <1>1, <1>2, PinTypes, OwnedRight, PTL DEF GpioSpec

\* Exit lets go of the pin with its latch low, for any number of clients.
THEOREM Low == GpioSpec => LetsGoLow
<1>1. GoingInv => (mod = "going" /\ owner4' = "none" => latch4 = 0)
  BY DEF GoingInv
<1>. QED
  BY <1>1, GoingInvariant, PTL DEF LetsGoLow

-----------------------------------------------------------------------------

\* The strengthening of PinFollowsWrites: regular writes come one at a time,
\* and the one in progress is about to set the pin to the level asked for, or
\* to leave it there.
FollowInv ==
  ~irregular =>
    /\ \A f, g \in Writing : f = g
    /\ mod \in {"requested", "live"} /\ order # NoOrder =>
         /\ Writing = {} => latch4 = order
         /\ \A f \in Writing : order = IF char[f] \in {0, 1} THEN char[f] ELSE latch4

\* The pin is at the level last asked for, whatever happened to it before the
\* module got it, for any number of clients whose writes do not meet.
THEOREM Follows == GpioSpec => []PinFollowsWrites
<1>1. GpioInit => FollowInv
  BY DEF GpioInit, FollowInv, Writing
<1>2. GpioTypeOK /\ PinHasItsOwner /\ FollowInv /\ [GpioNext]_gpioVars => FollowInv'
  <2>. SUFFICES ASSUME GpioTypeOK, PinHasItsOwner, FollowInv, [GpioNext]_gpioVars
                PROVE  FollowInv'
    OBVIOUS
  <2>. USE DEF GpioTypeOK, PinHasItsOwner, FollowInv, pinVars, writerVars, Writing
  <2>1. CASE ModuleStep
    BY <2>1 DEF ModuleStep, ModuleInit, Request, RequestFails, Direct, DirectFails,
                ModuleExit, FreePin, ModGoes
  <2>2. CASE OtherStep
    BY <2>2 DEF OtherStep, OtherRequests, OtherSets, OtherFrees
  <2>3. ASSUME NEW f \in Writers, driver_open(f) \/ driver_close(f) PROVE FollowInv'
    BY <2>3 DEF driver_open, driver_close, WriterGoes
  <2>4. ASSUME NEW f \in Writers, WriteCopy(f) PROVE FollowInv'
    <3>. SUFFICES ASSUME ~irregular' PROVE FollowInv'
      OBVIOUS
    <3>1. PICK count \in {0, 1}, c \in Chars, good \in BOOLEAN :
            /\ char' = [char EXCEPT ![f] = IF count = 1 /\ ~good THEN 2 ELSE c]
            /\ order' = IF count = 1 /\ good /\ c \in {0, 1} THEN c ELSE order
            /\ irregular' = (irregular \/ Writing # {} \/ count = 0)
      BY <2>4, Zenon DEF WriteCopy
    <3>2. ~irregular /\ Writing = {} /\ count = 1
      BY <3>1
    <3>3. Writing' = {f} /\ UNCHANGED <<mod, latch4>>
      BY <2>4, <3>2 DEF WriteCopy, WriterGoes
    <3>4. char'[f] = IF good THEN c ELSE 2
      BY <3>1, <3>2
    <3>5. mod \in {"requested", "live"} /\ order' # NoOrder =>
            order' = IF char'[f] \in {0, 1} THEN char'[f] ELSE latch4
      BY <3>1, <3>2, <3>4 DEF Chars
    <3>. QED
      BY <3>3, <3>5
  <2>5. ASSUME NEW f \in Writers, WriteSwitch(f) PROVE FollowInv'
    BY <2>5 DEF WriteSwitch, Switched, WriterGoes
  <2>6. CASE UNCHANGED gpioVars BY <2>6 DEF gpioVars
  <2>. QED
    BY <2>1, <2>2, <2>3, <2>4, <2>5, <2>6 DEF GpioNext, ModuleStep, OtherStep
<1>3. FollowInv => PinFollowsWrites
  BY DEF FollowInv, PinFollowsWrites
<1>. QED
  BY <1>1, <1>2, <1>3, PinTypes, OwnedRight, PTL DEF GpioSpec
=============================================================================
