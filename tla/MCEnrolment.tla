---------------------------- MODULE MCEnrolment ----------------------------
(* Three exchange calls over two setup tokens and one invite. *)
EXTENDS Enrolment

CONSTANTS k1, k2, k3, t1, t2, v1

=============================================================================
