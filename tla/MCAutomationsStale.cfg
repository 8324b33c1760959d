\* A plan edited while the tick starts the plan before it.
SPECIFICATION Spec
CONSTANTS
    t1 = t1
    t2 = t2
    c1 = c1
    Tasks = {t1, t2}
    Definitions <- OneShots
    Callers = {c1}
    BatchSize = 3
    MaxTime = 1
    MaxVersion = 2
    MaxRuns = 2
PROPERTIES
    ScheduledWhenDue
