SPECIFICATION Spec
CONSTANTS
  Environments <- MCEnvironments
  UpperCase <- MCUpperCase
  IntegerTexts <- MCIntegerTexts
  MaxSafeInteger = 100000
  PluginFiles <- MCPluginFiles
  AtomNames = {"NOOP", "LOGIN"}
  Sockets = {s1, s2}
  Signals = {n1, n2}
PROPERTIES
  AcceptsOnlyWhenServing
  ClientsCannotCrash
  EveryShutdownEnds
CHECK_DEADLOCK FALSE
