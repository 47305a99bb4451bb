SPECIFICATION ServicesSpec
CONSTANTS
  n1 = n1
  n2 = n2
  n3 = n3
  Nodes <- ThreeNodes
  InitialTerms <- ZeroOrOne
  MaxCampaigns = 2
  c1 = c1
  c2 = c2
  Clients <- TwoClients
  Commands <- SomeCommands
  RawRequests <- SomeRequests
  OtherBytes = {"k", "v"}
  buflen = 26
  MaxRequests = 3
  MaxCuts = 1
SYMMETRY Alike
INVARIANTS TermsAreEarned ParsedAsSent NoForeignBytes
CHECK_DEADLOCK FALSE
