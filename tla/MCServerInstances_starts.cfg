SPECIFICATION InstancesFairSpec
CONSTANTS
  Proc = {p1, p2}
  Stop = {s}
  Command = {c}
  MaxFaults = 1
INVARIANTS
  LoneServerIsNamed
  TokensAgree
  AppForgetsNoServer
PROPERTIES
  DoubleStartResolves
CHECK_DEADLOCK FALSE
