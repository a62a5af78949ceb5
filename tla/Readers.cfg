SPECIFICATION RSpec
CONSTANTS
  Broken = Broken
  Null = Null
  Token <- Tokens
  Version <- Files
  MaxServiceCode = 2
  HostsFiles <- Hosts
  Size = 9
  Number <- Ports
  Port <- Radio
  GwCall <- Call1
  MaxEdits = 1
  UsualHosts <- TwoHosts
INVARIANTS ReadersTypeOK RecordFaithful OnePass CompleteEntriesListed
PROPERTIES RightChannel
CHECK_DEADLOCK FALSE
