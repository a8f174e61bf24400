SPECIFICATION Spec
CONSTANTS
  Kinds = {"data", "rate34", "voice", "datagram", "control", "udp"}
  Classes = {"PIHeader", "VoiceHeader", "VoiceTerminator", "PreCSBK", "CallAlertACK", "CallEmergency", "CSBKRaw", "Unified", "Response", "Unconfirmed", "Confirmed", "ProprietaryCompressed", "Raw"}
  Messages <- MCMessages
  Damages <- MCDamages
  Null = Null
  Throws = Throws
CHECK_DEADLOCK FALSE
INVARIANTS
  DataSurvives
  Rate34Survives
  NeverAnother
  VoiceSurvives
  UndamagedArrives
  OnlyDestinationPortLost
