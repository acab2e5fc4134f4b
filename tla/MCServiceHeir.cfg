CONSTANTS
    web = web
    keys = keys
    legacy = legacy
    None = None
    Services = {keys}
    Clis = {c1}
    Pids = {p1, p2, p3}
    MaxGen = 2
    MaxPolls = 0
    Publish <- MCPublish
    Issues <- MCIssues
    Strangers = TRUE
    Reaping = {}

SPECIFICATION Spec

SYMMETRY PidSymmetry

PROPERTY NobodyElseIsSignalled
