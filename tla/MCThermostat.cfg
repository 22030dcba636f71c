SPECIFICATION FairThermostatSpec
CONSTANTS
  Nothing = Nothing
  Units <- MCUnits
  Interval <- MCInterval
  Second = 1
  Wrap = 4
  MaxTickerSlots = 4
  MaxStep = 2
  Reading = {19, 23}
  Setting <- MCSetting
  Default <- MCDefault
INVARIANTS CopiesAgree SettingsReachUnit
PROPERTY DeviceFollowsRoom
