SPECIFICATION FairSpec
CONSTANTS
    Slots = {1, 2}
    MaxCalls = 4
    Methods = {"NONE", "EMAIL"}
    Tabs = {1, 2}
    Browsers = {1, 2}
    Nobody = Nobody
INVARIANTS SessionsTypeOK OneLivePerBranch SuspendedIsOut OldPasswordIsOut CodeOpensOneSession CookieIsLive
PROPERTY TabsSettle
CHECK_DEADLOCK FALSE
