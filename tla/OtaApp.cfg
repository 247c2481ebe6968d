SPECIFICATION AppSpec
CONSTANTS
    d1 = d1
    app1 = app1
    app2 = app2
    plan = plan
    Upgrades = {1, 2}
    Devices = {d1}
    Tasks = {app1, app2}
    AppTasks = {app1, app2}
    ScheduledTasks = {}
    LegacyDevices = {}
    DeviceOf <- AppDeviceOf
    TaskOf <- AppTaskOf
    ChipOf <- AppChipOf
    MaxAttempt = 0
    MaxSends = 1
    MaxWork = 1
INVARIANTS
    OneInFlight
PROPERTY
    TasksEnd
