SPECIFICATION Spec
CONSTANTS
    d1 = d1
    app1 = app1
    app2 = app2
    plan = plan
    Upgrades = {1}
    Devices = {d1}
    Tasks = {plan}
    AppTasks = {}
    ScheduledTasks = {plan}
    LegacyDevices = {}
    DeviceOf <- PlanDeviceOf
    TaskOf <- PlanTaskOf
    ChipOf <- PlanChipOf
    MaxAttempt = 0
    MaxSends = 1
    MaxWork = 1
PROPERTY
    ProgressIsNotFailed
