\* All nine examples, fair.
SPECIFICATION FairSpec
CONSTANTS
  Programs = {"wait_queue", "std_timer", "hr_timer", "mutex", "spinlock", "tasklet",
              "shared_wq", "dedicated_wq", "gpio_interrupt"}
  LEN = 7
INVARIANTS
  TypeOK
  DataWhole
  OnlyKnownStrays
  StaleTimerOnlyEscaped
  LeaksOnlyAttr
PROPERTY LoadsAndUnloads
CHECK_DEADLOCK FALSE
