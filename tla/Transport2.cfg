\* The two ends, with a server that can rekey, one that cannot, and one that needs a filtered KEXINIT.
SPECIFICATION FairSpec
CONSTANTS
  Bugs = {"none", "norekey", "filter"}
  MaxRekeys = 1
  MaxConf = 1
  MaxSent <- MCMaxSent
INVARIANTS NoProtocolError QuietDuringKex
PROPERTIES KexEnds SettingsUsed
CHECK_DEADLOCK FALSE
