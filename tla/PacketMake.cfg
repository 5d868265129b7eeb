CONSTANTS
  Packets <- MCPackets
  Irregular = Irregular
  Unreadable = Unreadable
  Statuses = {0, 1, 2}
  BaseName <- MCBaseName
  Casefold <- MCCasefold
  MaxChanges = 2
  PacketIds <- MCPacketIds
  AllowedVariables <- MCVariables
  TargetNames <- MCTargetNames
  ExecutableName <- MCBaseName
  Directories <- MCDirectories
  Malformed = Malformed
  HandlerStatuses = {0, 1}
  TargetCalls <- MCTargetCalls
  Ambients <- MCAmbients
  ChildAllowlist = {"HOME"}
SPECIFICATION PacketSpec
INVARIANTS
  RunsTheReadPacket
  AuthorityRechecked
  ExitExplained
  OneRulePerPacket
  HandlersInOrder
  TargetsAsWritten
CHECK_DEADLOCK FALSE
