----------------------------- MODULE PunchSchedule -----------------------------
(* When a UDP punch burst sends and when a failed QUIC connect is tried again  *)
(* (the pure functions of networks/quic/listener.rs and network.rs). Durations *)
(* are numbers of one unit.                                                    *)
EXTENDS Integers

CONSTANTS
  Interval,        \* UDP_PUNCH_INTERVAL
  ActiveStart,     \* UDP_PUNCH_ACTIVE_START_OFFSET
  BurstWindow,     \* UDP_PUNCH_EARLY_ERROR_WINDOW
  RetryInterval,   \* UDP_PUNCH_CONNECT_RETRY_INTERVAL
  BaseTimeout      \* QuicTunnelNetwork.timeout

ASSUME DurationsAssumption ==
  /\ Interval \in Nat \ {0} /\ RetryInterval \in Nat \ {0} /\ BaseTimeout \in Nat \ {0}
  /\ ActiveStart \in Nat /\ BurstWindow \in Nat

None == -1   \* Option::None

Least(a, b) == IF a < b THEN a ELSE b
Most(a, b) == IF a < b THEN b ELSE a

\* udp_punch_start_offset: UDP_PUNCH_REVERSE_START_OFFSET is zero
StartOffset(reverse) == IF reverse THEN 0 ELSE ActiveStart

\* udp_punch_next_offset
NextOffset(current, elapsed, max) ==
  LET regular == current + Interval
      overdue == elapsed + Interval - regular
      next == IF regular > elapsed THEN regular
              ELSE regular + Interval * (1 + (overdue - 1) \div Interval)
  IN IF next <= max THEN next ELSE None

\* connect_timeout_for_intent
ConnectTimeout(punch) == IF punch THEN Most(BaseTimeout, BurstWindow) ELSE BaseTimeout

\* udp_punch_retry_delay_after_error
RetryDelay(elapsed, timeout, punch) ==
  LET window == Least(BurstWindow, timeout)
  IN IF ~punch \/ elapsed >= window THEN None ELSE Least(window - elapsed, RetryInterval)
================================================================================
