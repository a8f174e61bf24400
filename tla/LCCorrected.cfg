SPECIFICATION Spec
CONSTANTS
  Kinds = {"data"}
  Classes = {"VoiceHeader", "VoiceTerminator"}
  Messages <- MCMessages
  Damages <- MCDamages
  Null = Null
  Throws = Throws
CHECK_DEADLOCK FALSE
INVARIANT LCCorrected
