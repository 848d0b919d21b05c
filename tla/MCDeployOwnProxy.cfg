SPECIFICATION Spec
CONSTANT Deployments <- MCDeployments
CHECK_DEADLOCK FALSE
INVARIANT TestsOwnProxy
