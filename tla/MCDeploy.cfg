SPECIFICATION Spec
CONSTANT Deployments <- MCDeployments
CHECK_DEADLOCK FALSE
INVARIANTS
  TypeOK
  FailuresCounted
  Deployed
 
