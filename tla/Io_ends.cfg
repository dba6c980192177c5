SPECIFICATION FairSpec
CONSTANTS
  Inputs = {"good", "lost"}
  Switches = {FALSE}
  Topics <- MCArmed
  Calls = {"raw", "failsafe", "disarmed", "always", "safety_on", "safety_off", "mixer"}
  Bits <- MCBits
  MaxEvents = 1
PROPERTIES TerminationStays TerminatedFails LostFmuFails StopsOnSafety OrdersArrive
