SPECIFICATION Spec
CONSTANTS
    Names = {app, proxy, sidecar}
    SidecarName = sidecar
    MaxContainers = 2
    WebhookFailure = "Fail"
    NotAPod = NotAPod
CHECK_DEADLOCK FALSE
INVARIANT InjectedSidecarsRun
