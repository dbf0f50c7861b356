SPECIFICATION FairSpec
CONSTANTS
  Pages = {p, q}
  Conns = {c1, c2, c3}
  NoConn = NoConn
  Errors = {e1}
  NoError = NoError
  MaxClients = 2
  MaxBuilds = 2
  MaxOpens = 2
  MaxFaults = 1
INVARIANTS
  ClientsSound
  MessagesArrive
PROPERTIES
  EventuallyConnected
