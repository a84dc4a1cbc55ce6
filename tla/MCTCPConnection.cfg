SPECIFICATION PromptSpec
CONSTANTS
  IO = io
  Senders = {main}
  ChecksOpen = FALSE
  PeerTypes = {"PING", "PONG", "INVALID"}
  MaxRead = 2
  MaxSend = 2
INVARIANTS TypeOK SingleWriter NoStall WriteHasBuffer HandshakeStartsWriter
INVARIANTS ReadLoopIntact OnePongActor
PROPERTIES NoWorkAfterClose PingsAnswered
CHECK_DEADLOCK FALSE
