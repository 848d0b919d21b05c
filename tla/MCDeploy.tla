------------------------------- MODULE MCDeploy -------------------------------
(* Small clusters for Deploy.                                              *)
EXTENDS Deploy

MCDeployments ==
  { [mattermost |-> TRUE,  loadtests |-> FALSE, apps |-> 1, tests |-> 1],
    [mattermost |-> FALSE, loadtests |-> TRUE,  apps |-> 1, tests |-> 2],
    [mattermost |-> TRUE,  loadtests |-> TRUE,  apps |-> 0, tests |-> 1],
    [mattermost |-> TRUE,  loadtests |-> TRUE,  apps |-> 1, tests |-> 0] }
=============================================================================
