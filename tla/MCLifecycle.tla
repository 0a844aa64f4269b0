---------------------------- MODULE MCLifecycle -----------------------------
(* Two seconds of blindness are enough to be restarted.  Three failures: a *)
(* second answer, the refusal it hides, and one in what follows.           *)
EXTENDS Lifecycle
=============================================================================
