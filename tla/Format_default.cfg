\* The attributes of SHMC_ATTR_INITIALIZER and of netshell without options.
CONSTANTS
  Attrs <- MCDefaults
  DebugBuild = FALSE
SPECIFICATION Spec
INVARIANT AcceptedSizesHaveClass
CHECK_DEADLOCK FALSE
