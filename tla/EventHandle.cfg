SPECIFICATION Spec
CONSTANTS
  EventHandles = {e1, e2, e3}
  Events = {"FPGA_EVENT_INTERRUPT", "FPGA_EVENT_ERROR", "FPGA_EVENT_POWER_THERMAL"}
  num_uafu_irqs = 2
  MaxFailures = 2
  MaxRegistered = 2
  NoEh = NoEh
SYMMETRY Symmetry
CHECK_DEADLOCK FALSE
 
INVARIANT SilentOnceUnregistered
INVARIANT NotifiedOnce
