------------------------------- MODULE MCJobs -------------------------------
(***************************************************************************)
(* The instance of Jobs that TLC checks.                                   *)
(***************************************************************************)
EXTENDS Jobs

\* A number below every event's (the usual 0 picks no differently), one of an
\* event, and one that no event of the instance has.
MCAfters == {-1, 1, MaxEvents + 3}
=============================================================================
