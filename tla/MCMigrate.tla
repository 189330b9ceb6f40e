----------------------------- MODULE MCMigrate ------------------------------
(* Instances of Migrate for TLC: an older build beside two of the newest. *)
EXTENDS Migrate, TLC

CONSTANTS old, new1, new2

MCServers == {old, new1, new2}
MCFiles == old :> {1, 2} @@ new1 :> {1, 2, 3} @@ new2 :> {1, 2, 3}
=============================================================================
