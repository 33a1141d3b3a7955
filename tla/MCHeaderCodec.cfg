SPECIFICATION Spec
CONSTANTS
  IntMax = 6159
  LowerOf <- MCLowerOf
  Atoms = {"udp", "ack"}
  Kinds = {"contact", "challenge", "auth_info", "via", "retry_after", "warning", "expires", "cseq", "content_type", "mime_version", "alert_info"}
  Alphabet <- MCAlphabet
  MaxLen = 4
  MaxHops = 2
CHECK_DEADLOCK FALSE
INVARIANTS ReadsWhatPeerWrote SurvivesRelay
