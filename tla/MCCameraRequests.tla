--------------------------- MODULE MCCameraRequests ---------------------------
(***************************************************************************)
(* Instances of CameraRequests for TLC.                                    *)
(***************************************************************************)
EXTENDS CameraRequests, TLC

CONSTANTS r1, r2, r3, s1, s2

\* The lock screen on a connection of its own, as the PAM module and
\* FaceVerifier have one too, and two requests of the settings page, which
\* makes all of its calls on one
SettingsPage == (r1 :> s1) @@ (r2 :> s2) @@ (r3 :> s2)

\* The settings page enrols a face while the list of cameras is made
Methods == (r1 :> {"unlock"}) @@ (r2 :> {"enroll"}) @@ (r3 :> {"probe"})
=============================================================================
