SPECIFICATION GpioSpec
CONSTANTS
  Writers = {f1}
  NoOrder = NoOrder
INVARIANT
  PinFourIsOutput
