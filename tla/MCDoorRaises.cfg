SPECIFICATION Spec
CONSTANTS
    Routers = {"A", "B"}
    RouterForm <- MCRouterForm
    RouteForms <- MCRouteForms
    IncludeForms <- MCIncludeForms
    MountForms <- MCMountForms
    SubApp <- MCSubApp
    RouteNames <- Seq3
    IncludeNames <- Inc3
    MaxOps = 3
    Reqs = {"q1", "q2"}
    MwKinds = {"tower", "short", "inst", "fn", "deco", "raw", "sentry"}
    MwNames <- MwSeq
    Apps <- MCApps
    LiveForms <- MCLiveForms
    LiveMws = {"short"}
    Aims <- MCAims
    Patched = FALSE
    LiveOps = 1
INVARIANT RaisesItsOwn
CHECK_DEADLOCK FALSE
