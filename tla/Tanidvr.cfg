SPECIFICATION TanidvrSpec
CONSTANTS
  ArgLists <- MCArgLists
  Junk <- MCJunk
  INT_MAX = 8388607
  MAX_SA_ENTRIES = 3
  MaxAddresses = 4
  Base = 3
  Cmds <- MCCmds
  Awaited = 1
  Payloads <- MCPayloads
  BufLen = 3
  DISCARD_CHUNK_SIZE = 2
  MaxMsgs = 3
INVARIANTS TypeOK ReachableIsTried AsAsked
PROPERTIES ImplementsChannel
CHECK_DEADLOCK FALSE
