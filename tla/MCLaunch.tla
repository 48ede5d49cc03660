------------------------------ MODULE MCLaunch ------------------------------
(* The instance of Launch: every way to start the loader, every call may fail. *)
EXTENDS Launch

MCRequests == Request
MCFailures == Calls
=============================================================================
