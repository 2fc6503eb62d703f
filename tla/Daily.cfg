SPECIFICATION Spec
CONSTANTS
  Day = 6
  Offsets <- Zones
INVARIANTS HostZoneHonoured SameDateHonoured
