\* Two channels, whose numbers can be used again, and more data than two windows.
SPECIFICATION FairSpec
CONSTANTS
  End = {"client", "server"}
  WinSize = 2
  MaxWin = 3
  MaxPkt = 2
  FixedEnds = {"client"}
  FixedWin = 1
  Listeners = {"client","server"}
  Id = {1}
  MaxOpens = 2
  Load <- MCLoad
INVARIANTS NoProtocolError WindowsAgree StreamsWhole
PROPERTIES DataArrives ChannelsClose
CHECK_DEADLOCK FALSE
