SPECIFICATION Spec
CONSTANTS
  Kinds = {"udp"}
  Classes = {"PIHeader", "VoiceHeader", "VoiceTerminator", "PreCSBK", "CallAlertACK", "CallEmergency", "CSBKRaw", "Unified", "Response", "Unconfirmed", "Confirmed", "ProprietaryCompressed", "Raw"}
  Messages <- MCMessages
  Damages <- MCDamages
  Null = Null
  Throws = Throws
CHECK_DEADLOCK FALSE
INVARIANT RoundTrip
