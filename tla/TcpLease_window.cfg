SPECIFICATION Spec
CONSTANTS
  Owner = "A"
  Larger = "B"
  Kinds = {"Stream"}
  Nonces = {0, 1}
  Rejections = {}
  MaxClaims = 2
  MaxBytes = 1
  Preemption = TRUE
  Timeouts = FALSE
  Closes = FALSE
  EarlyDrop = FALSE
INVARIANT OneChannelPerLease
CHECK_DEADLOCK FALSE
