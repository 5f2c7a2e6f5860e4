SPECIFICATION SettingsSpec
CONSTANTS
  Owner = "A"
  Larger = "B"
  Kinds = {"Stream", "Datagram"}
  Nonces = {0, 1}
  Rejections = {"VportNotFound"}
  MaxClaims = 2
  MaxBytes = 1
  Preemption = FALSE
  Timeouts = FALSE
  Closes = FALSE
  EarlyDrop = FALSE
INVARIANTS    ClaimIsNextLease
 
CHECK_DEADLOCK FALSE
