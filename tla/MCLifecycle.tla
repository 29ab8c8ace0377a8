---------------------------- MODULE MCLifecycle -----------------------------
(* Lifecycle, composed with Document, instantiated for TLC.                *)
EXTENDS Lifecycle

=============================================================================
