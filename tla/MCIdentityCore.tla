-------------------------- MODULE MCIdentityCore ---------------------------
(* Sets of install calls for the instances of IdentityCore that TLC checks. *)
EXTENDS IdentityCore

AllHows == CertBearing \cup IdentityOnly
GenerateOnly == {"generate"}
\* One call that stores the certificate first, one the signer first, one it alone.
GenerateOrSignerFirst == {"generate", "remote", "restore"}
=============================================================================
