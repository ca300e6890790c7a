CONSTANTS
  BS_MAX_CLIENTS = 2
  Fds = {1, 2, 3}
  MaxLosses = 3
  BsModes = {"push"}
  WebChoices = {FALSE}
SPECIFICATION BsSpec
PROPERTY PushReconnects
CHECK_DEADLOCK FALSE
