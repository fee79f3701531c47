\* Two alerts, two notifiers, every failure of the post, two faults.
SPECIFICATION FairSpec
CONSTANTS
  OutboxAlert = {a1, a2}
  NoAlert = NoAlert
  Notifier = {n1, n2}
  NoNotifier = NoNotifier
  MaxDeliveryAttempts = 3
  MaxFaults = 2
INVARIANTS ClosedForCause
PROPERTIES OutcomeFinal AlertsResolve
CHECK_DEADLOCK FALSE
