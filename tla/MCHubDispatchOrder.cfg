\* Is a payload ever without a name when Run looks for it?
SPECIFICATION Spec
CONSTANTS
  Publishers = {p1}
  Channels = {log, alert}
  Cap = 2
  MaxAccepted = 3
INVARIANTS OutOfOrderCannotHappen
CHECK_DEADLOCK FALSE
