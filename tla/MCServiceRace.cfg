CONSTANTS
    web = web
    keys = keys
    legacy = legacy
    None = None
    Services = {keys}
    Clis = {c1, c2}
    Pids = {p1, p2}
    MaxGen = 2
    MaxPolls = 1
    Publish <- MCPublish
    Issues <- MCIssuesRace
    Strangers = FALSE
    Reaping = {c2}

SPECIFICATION Spec

PROPERTY EveryCommandEnds
