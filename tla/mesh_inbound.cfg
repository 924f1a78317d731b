SPECIFICATION Spec
CONSTANTS
    Nodes = {11}
    Radios = {21, 22}
    BridgeNum = 31
    MAX_NODES = 2
    POSITION_FORWARD_MIN = 2
    TELEMETRY_FORWARD_MIN = 1
    ForwardedKinds = {"POSITION", "TELEMETRY"}
    RxTimes = {3}
INVARIANT OwnRadioNotBridged
PROPERTIES ReportsSpaced ReportsKeepComing
