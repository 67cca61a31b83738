------------------------------ MODULE GatewayCodes ------------------------------
(***************************************************************************)
(* The codes the gateway publishes in its Modbus registers (service.py,    *)
(* lines 19-43) and the two functions every component applies to them:     *)
(* the aggregation of several statuses into one and the 16-bit counters.   *)
(***************************************************************************)
EXTENDS Integers

-----------------------------------------------------------------------------
(* Status of a device, of a line, of the gateway.                          *)
STATUS_OK == 1
STATUS_DEGRADED == 2
STATUS_OFFLINE == 3
STATUS_PROTOCOL_ERROR == 4
STATUS_DISCONNECTED == 5

Status == 1..5

(* What _poll_device can decide about a device.                            *)
DeviceStatus == 1..4

(* Last error code.  Codes 6..10 are declared by the program but no path of *)
(* it ever produces them.                                                  *)
ERROR_NONE == 0
ERROR_TIMEOUT == 1
ERROR_BAD_FLAG == 2
ERROR_HASH_MISMATCH == 3
ERROR_DECODE == 4
ERROR_IO == 5

ErrorCode == 0..5
ProtocolError == {ERROR_BAD_FLAG, ERROR_HASH_MISMATCH, ERROR_DECODE}

(* Channel status.  CHANNEL_RECONNECTING (5) is never produced either.     *)
CHANNEL_DISABLED == 0
CHANNEL_OK == 1
CHANNEL_COMM_ERROR == 2
CHANNEL_PROTOCOL_ERROR == 3
CHANNEL_FAILED == 4

ChannelStatus == 0..4

-----------------------------------------------------------------------------
(* _aggregate_status: only a unanimous answer is passed on.                *)
AggregateStatus(statuses) ==
  IF statuses = {} THEN STATUS_OFFLINE
  ELSE IF statuses = {STATUS_OK} THEN STATUS_OK
  ELSE IF statuses = {STATUS_PROTOCOL_ERROR} THEN STATUS_PROTOCOL_ERROR
  ELSE IF statuses = {STATUS_OFFLINE} THEN STATUS_OFFLINE
  ELSE STATUS_DEGRADED

(* _inc_counter: a counter of `range` values; the registers have 2^16.     *)
IncCounter(value, range) == (value + 1) % range

=============================================================================
