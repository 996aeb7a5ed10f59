\* Two clients, and another driver that wants the pin.
SPECIFICATION GpioSpec
CONSTANTS
  Writers = {f1, f2}
  NoOrder = NoOrder
SYMMETRY Symmetry
INVARIANTS
  GpioTypeOK
  PinHasItsOwner
  PinFollowsWrites
PROPERTY
  LetsGoLow
