--------------------------- MODULE MCEntityActions ---------------------------
(* Values of the constants of EntityActions for TLC.                        *)
EXTENDS EntityActions

MCChannelsOf ==
  [u \in User |-> CASE u = 0 -> {"public"} [] u = 1 -> {"public", "private"} [] u = 2 -> {"private"}]

=============================================================================
