SPECIFICATION ClientSpec
CONSTANT MaxUserEdits = 0
INVARIANT QuietUninstallCompletes
CHECK_DEADLOCK FALSE
