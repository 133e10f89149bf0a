---------------------------- MODULE MCLifecycle -----------------------------
(* The packets that browser and peers send in the runs.                    *)
EXTENDS Lifecycle

AnyPacket   == {"DATA", "DIAL"}
OnlyRequest == {"DIAL"}
=============================================================================
