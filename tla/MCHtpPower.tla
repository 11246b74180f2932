----------------------------- MODULE MCHtpPower -----------------------------
(***************************************************************************)
(* Small instances of HtpPowerConfigManager: one or two client threads in  *)
(* one or two sessions, and the options their runs are given.              *)
(***************************************************************************)
EXTENDS HtpPowerConfigManager, TLC

CONSTANTS c1, c2, i1, i2

OneClient == c1 :> i1
TwoSessions == c1 :> i1 @@ c2 :> i2

NoModes == [default |-> "Default", dynamic |-> "Default", pre |-> "Default",
            post |-> "Default"]
BurstSession == [NoModes EXCEPT !.default = "Burst"]

BurstRuns == {BurstSession}
SaverAfterRuns == {BurstSession, [BurstSession EXCEPT !.post = "PowerSaver"]}
\* One half of the run has a mode and the other none, or one half needs the
\* timer and the other does not.
OneSidedRuns == {[NoModes EXCEPT !.pre = "Burst"],
                 [NoModes EXCEPT !.post = "Balanced"],
                 [BurstSession EXCEPT !.pre = "Balanced"]}
MixedRuns == SaverAfterRuns \cup OneSidedRuns
             \cup {[BurstSession EXCEPT !.dynamic = "Balanced"]}
=============================================================================
