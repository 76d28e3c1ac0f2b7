----------------------------- MODULE MCPamFiles ------------------------------
\* Systems, lines and lock screen files for TLC.
EXTENDS PamFiles

MCWord == STRING

Unix    == Line("auth", "required", "pam_unix.so", "")
Nologin == Line("auth", "requisite", "pam_nologin.so", "")
Access  == Line("auth", "required", "pam_access.so", "")
Preauth == Line("auth", "required", "pam_faillock.so", "preauth")
Tally   == Line("auth", "required", "pam_faillock.so", "authfail")
Fprintd == Line("auth", "sufficient", "pam_fprintd.so", "")
Permit  == Line("auth", "required", "pam_permit.so", "")
Session == Line("session", "required", "pam_unix.so", "")
Sub(n)  == Line("auth", "substack", n, "")
At(n)   == Line("@include", "", n, "")
Theme   == Line("ini", "Greeter", "Theme", "x")

MCAdminLines == {Access, Theme}

StateFile == <<IniLine("[", "Greeter"), IniLine("Theme", "x"), IniLine("[", "Other"),
               IniLine("Authenticator", "y")>>

System(vendor, greeter, manager, choice0) ==
    [vendor |-> vendor, greeter |-> greeter, login_manager |-> manager, choice |-> choice0]

\* A Plasma login manager whose stack includes another, which includes itself.
PlasmaLogin == System(
    [n \in {"plasmalogin", "plasmalogin-autologin", "system-login"} |->
        CASE n = "plasmalogin" -> <<Nologin, Sub("system-login"), Session>>
          [] n = "plasmalogin-autologin" -> <<Unix>>
          [] n = "system-login" -> <<Preauth, Sub("system-login"), Tally>>],
    FALSE, TRUE, <<>>)

\* A lock screen that knows kde-face, with and without a fingerprint stack.
Fingerprints == System(
    [n \in {"kde-fingerprint", "kde"} |->
        IF n = "kde" THEN <<Unix>> ELSE <<Preauth, Fprintd, Permit, Session>>],
    TRUE, FALSE, <<>>)
NoFingerprints ==
    System([n \in {"kde"} |-> <<Nologin, Unix, Session>>], TRUE, FALSE, StateFile)

\* sudo and sudo-i in one target, with a Debian stack they both include; and
\* an older lock screen beside a polkit-1 without any auth line.
Debian == System(
    [n \in {"sudo", "sudo-i", "common-auth"} |->
        IF n = "common-auth" THEN <<Nologin, Unix>> ELSE <<At("common-auth"), Session>>],
    FALSE, FALSE, <<>>)
Older == System(
    [n \in {"sddm", "kde", "polkit-1"} |-> IF n = "polkit-1" THEN <<Session>> ELSE <<Unix>>],
    FALSE, FALSE, <<>>)

MCSystems == {PlasmaLogin, Fingerprints, NoFingerprints, Debian, Older}
MCOneSystem == {PlasmaLogin}
==============================================================================
