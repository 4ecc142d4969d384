CONSTANT Reconnects = 1
SPECIFICATION Spec
INVARIANT LLDPMarksSwitchPorts
