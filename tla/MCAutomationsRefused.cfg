\* A one-shot that falls due while the scheduler is fenced for an update.
SPECIFICATION Spec
CONSTANTS
    t1 = t1
    t2 = t2
    c1 = c1
    Tasks = {t1}
    Definitions <- OneShots
    Callers = {c1}
    BatchSize = 3
    MaxTime = 1
    MaxVersion = 1
    MaxRuns = 1
PROPERTIES
    RefusalKeepsThePlan
