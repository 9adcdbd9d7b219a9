-------------------------------- MODULE MCDesk --------------------------------
(***************************************************************************)
(* What stands between the engine and its user, for TLC: the settings with *)
(* the gate that reads them, the voice, and the window.  The gate reads    *)
(* the configuration object and nothing else of the settings, so the       *)
(* changes of the settings are played out while the day is quiet, and all  *)
(* but its first notice are judged after them; a restart is one of both.   *)
(* The voice and the window share nothing with them, and a behaviour       *)
(* leaves all but one of the three in an initial state.                    *)
(***************************************************************************)
EXTENDS Gate, Voice, Surface

DeskInit == SettingsInit /\ GateInit /\ VoiceInit /\ SurfaceInit

\* No poll, save or edit is under way or waiting to be seen; bound: a write is
\* left, since the first can bring about whatever the gate may read.
Settled == settingsAt = "idle" /\ mark = stamp /\ lapse = "none" /\ writes < MaxWrites
QuietDay == clock = life /\ ~night /\ ~gaming /\ Len(raised) <= 1

VoiceRest == VoiceInit /\ bargeIn /\ UNCHANGED voiceVars
GateRest == SettingsInit /\ GateInit /\ UNCHANGED <<settingsVars, gateVars>>
SurfaceRest == SurfaceInit /\ UNCHANGED surfaceVars

DeskNext ==
  \/ /\ VoiceRest /\ SurfaceRest
     /\ \/ QuietDay /\ ChangeOfSettings /\ UNCHANGED gateVars
        \/ SettingsRestart /\ GateRestart
        \/ Settled /\ GateNext /\ UNCHANGED settingsVars
  \/ GateRest /\ SurfaceRest /\ VoiceNext
  \/ GateRest /\ VoiceRest /\ SurfaceNext

DeskSpec ==
  /\ DeskInit /\ [][DeskNext]_<<settingsVars, gateVars, voiceVars, surfaceVars>>
  /\ SettingsFairness /\ VoiceFairness /\ SurfaceFairness

\* Every variable keeps its type.
DeskTypeOK == SettingsTypeOK /\ GateTypeOK /\ VoiceTypeOK /\ SurfaceTypeOK
=============================================================================
