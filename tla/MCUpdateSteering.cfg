\* An update that fails after it has discarded the steering of a turn that goes on.
SPECIFICATION Spec
CONSTANTS
    MaxTasks = 2
    MaxReleases = 1
CHECK_DEADLOCK FALSE
PROPERTY
    KeepsSteering
