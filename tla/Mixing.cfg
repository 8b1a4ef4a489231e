SPECIFICATION Spec
CONSTANTS
  s1 = s1
  s2 = s2
  Sources = {s1, s2}
  DeviceFormats <- Devices
  Fixed <- Targets
  Duration <- OneHalf
  Values <- Extremes
  Inexact <- RoundedUp
  Short <- OneShort
  MaxExtra = 1
CHECK_DEADLOCK FALSE
INVARIANTS TypeOK ConvertedSound LengthsAgree MixIsAverage
