SPECIFICATION LiveRelaySpec
CONSTANTS
  own = own
  instruction = instruction
  Launched = {own}
  Interventions = {instruction}
  Target <- MCTarget
  User = User
  NoRequest = NoRequest
  MaxCrashes = 1
  MaxFaults = 1
  MaxPrompts = 2
INVARIANTS DeliveredAsTold NothingSentTwice
PROPERTIES FinalStaysFinal EveryRequestSettles
CHECK_DEADLOCK FALSE
