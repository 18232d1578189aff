CONSTANTS
  captive = captive
  open = open
  Base = 16
  User = {1, 2}
  PubIp = 3
  PubPorts <- Ports
  Flow <- Flows
  Filter = {captive, open}
  Text <- Texts
  Segments = {{"S"}, {"A", "F"}}
  AddrBits = 4
  PortMax = 15
  ListMax = 3
  ShiftAll = 15
  MaxDnat = 2
  MaxFlight = 2
  Rest = 10
  EchoId = 6
  Router = 15
  Junk = {0, 11}
  Captive = {captive}
  Garden = {5, 9}
  Nothing = Nothing
  Station = {1, 2, 5, 13}
  Local = {5}
  Anywhere = 0
SPECIFICATION PathSpec
INVARIANTS ToItsUser AsAddressed ChecksumsRight Confined
