---------------------------- MODULE MCLifecycle ----------------------------
(* Instances of Lifecycle: every event and two codes. *)
EXTENDS Lifecycle

TwoCodes == {0, 3}
AllEvents == ProcessEvents
=============================================================================
