CONSTANTS
  N = 3
  xfpga = xfpga
  other = other
  Plugins = {xfpga, other}
  native_plugin <- ThreeRows
  MaxCalls = 2
SPECIFICATION Spec
INVARIANTS
  LoadedIsListed
  ReadyOnceInitialized
CHECK_DEADLOCK FALSE
