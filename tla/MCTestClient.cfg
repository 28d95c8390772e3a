SPECIFICATION ClientSpec
CONSTANTS
  p = p
  a = a
  b = b
  c1 = c1
  c2 = c2
  c3 = c3
  c4 = c4
  Servers = {1, 2}
  Ports = {p}
  PortOf <- MCPortOf
  NoServer = 0
  Apps = {a, b}
  NoApp = NoApp
  Clients = {c1, c2, c3, c4}
  AppOf <- MCAppOf
  InProcess <- MCInProcess
  MaxCalls = 3
  Chains <- MCChains
  Routes = {"delegated", "adapter"}
  Handlers = {TRUE, FALSE}
  Faulty = {TRUE, FALSE}
INVARIANTS OneServerPerApp OwnApplication StacksCloseInOrder MiddlewareSeesOpenScope
  RerunOnlyByMiddleware
PROPERTIES SubscribedStops
CHECK_DEADLOCK FALSE
