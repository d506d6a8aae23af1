-------------------------------- MODULE MCMfa --------------------------------
EXTENDS Mfa

(* README.md:81, "Enroll MFA (JWT required)": an enrolment with a valid    *)
(* access token is not answered with a server error.                       *)
EnrollmentAccepted == ~refused
=============================================================================
