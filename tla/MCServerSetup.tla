---------------------------- MODULE MCServerSetup ----------------------------
(* How three agents may find the server: configured, but with nothing      *)
(* imported, and files of one chunk and of three; or with settings to set  *)
(* and a plugin to install.                                                *)
EXTENDS ServerSetup, TLC

MCSettings == <<"EnableOpenServer", "MaxUsersPerTeam">>

MCSituations ==
  { [config |-> {"EnableOpenServer", "MaxUsersPerTeam"}, plugin |-> "none", lines |-> 3],
    [config |-> {}, plugin |-> "none", lines |-> 1],
    [config |-> {"EnableOpenServer", "MaxUsersPerTeam"}, plugin |-> "absent", lines |-> 1],
    [config |-> {"EnableOpenServer", "MaxUsersPerTeam"}, plugin |-> "active", lines |-> 1] }

=============================================================================
