CONSTANTS
  Candidates = {c1, c2, c3}
  retry_after = 1
  MaxTime = 2
  MaxProbe = 3
  MaxLate = 2
  MaxFlights <- FlightBound
SPECIFICATION Spec
SYMMETRY Attachments
INVARIANTS
  OneProbeAndItWasSent
  StaleIffRevoked
  ProbesTakeTurns

  
CHECK_DEADLOCK FALSE
