\* Two clients and two concurrent requests of the MCP server; the bounds of
\* the other parts are in MCTools.
SPECIFICATION ToolsSpec
CONSTANTS
  Resting = Resting
  Signatures <- MCSignatures
  Udts <- MCUdts
  Texts <- MCTexts
  Numerals <- MCNumerals
  HexOf <- MCHexOf
  StrKeys <- MCStrKeys
  Muxed <- MCMuxed
  Bits <- MCBits
  Arguments <- MCArguments
  Garbled <- MCGarbled
  Ids = {1, 2, 3, 4, 5}
  Event <- Export
  Strkeys = {"token", "pool", "nft"}
  Lines <- ExportLines
  From = 1
  To = 3
  contract_ids = {}
  batch_size = 2
  Contents = {1, 2}
  MaxPrunes = 1
  MaxRuns = 1
  Holders = {"a", "b"}
  BalanceSymbol = "Balance"
  TokenEvents <- MetEvents
  Templates <- SomeTemplates
  MAX_BATCH_KEYS = 2
  MaxKeyLedger = 2
  MaxKeyFaults = 1
  EventInterfaces <- SomeEventInterfaces
  ParamValues <- SomeValues
  EventKinds = {"contract", "system", "diagnostic"}
  Releases <- SomeInterfaces
  MaxReleases = 3
  Clients = {c1, c2}
  Handlers = {h1, h2}
  auth_token = TRUE
  limit_per_min = 1
  global_limit_per_min = 2
  Window = 2
  MaxNow = 2
  MaxSessions = 2
SYMMETRY Symmetry
INVARIANTS
  
  ValuesRoundTrip
  InterfacesTrue
  McpHonest
CHECK_DEADLOCK FALSE
