-------------------------- MODULE MCFileTransfers --------------------------
(* A small instance of FileTransfers for TLC. *)
EXTENDS FileTransfers
CONSTANTS key, pw  \* an agent or key profile, and a password profile

MCProfiles == {key, pw}
MCSecrets == {pw}
=============================================================================
