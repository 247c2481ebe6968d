SPECIFICATION Spec
CONSTANTS
    d1 = d1
    app1 = app1
    app2 = app2
    plan = plan
    Upgrades = {1, 2}
    Devices = {d1}
    Tasks = {plan, app1}
    AppTasks = {app1}
    ScheduledTasks = {plan}
    LegacyDevices = {}
    DeviceOf <- AppDeviceOf
    TaskOf <- MixTaskOf
    ChipOf <- AppChipOf
    MaxAttempt = 0
    MaxSends = 1
    MaxWork = 1
INVARIANT
    OneInFlight
