--------------------------- MODULE MCEnrollment ----------------------------
(* The instance of Enrollment that TLC checks. *)
EXTENDS Enrollment

CallerSet == {"ui", "worker"}
=============================================================================
