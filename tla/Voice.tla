--------------------------------- MODULE Voice ---------------------------------
(***************************************************************************)
(* Who is talking (voice/session.py), and the service that feeds it frames *)
(* of sound, transcripts and the push-to-talk key (voice/__init__.py).     *)
(*                                                                         *)
(* Time is counted in frames of sound.  A moment the session remembers is  *)
(* kept as its age, and ages stop at MaxAge, past every threshold.  A      *)
(* transcript is the number of its pieces.                                 *)
(***************************************************************************)
EXTENDS Integers

CONSTANTS
  BargeIn,      \* barge_in_ms, in frames
  EndOfTurn,    \* end_of_turn_ms
  WakeWindow,   \* wake_window_ms
  MaxAge,       \* bound: where ages stop
  MaxPieces     \* bound: pieces of text heard since waking

ASSUME VoiceAssumption ==
  /\ {BargeIn, EndOfTurn, WakeWindow, MaxPieces} \subseteq Nat \ {0}
  /\ MaxAge \in Nat /\ \A t \in {BargeIn, EndOfTurn, WakeWindow} : t <= MaxAge

None == -1
Ages == None .. MaxAge
Moments == {"speech", "silence", "listening", "turn"}

VARIABLES
  bargeIn,     \* barge_in_enabled, set once from the configuration
  state,       \* VoiceState
  age,         \* of _speech_started_at, _silence_started_at, _listening_since, _turn_started_at
  transcript,  \* pieces in _transcript
  sustained,   \* history: how long speech over GARIS's voice has gone on unbroken
  cutAfter,    \* history: how long it had at the last barge-in
  heardOpen    \* history: pieces that arrived since the session began to listen

voiceVars == <<bargeIn, state, age, transcript, sustained, cutAfter, heardOpen>>

VoiceTypeOK ==
  /\ bargeIn \in BOOLEAN
  /\ state \in {"asleep", "listening", "thinking", "speaking", "paused"}
  /\ age \in [Moments -> Ages]
  /\ {transcript, heardOpen} \subseteq 0 .. MaxPieces
  /\ {sustained, cutAfter} \subseteq Ages

VoiceInit ==
  /\ bargeIn \in BOOLEAN
  /\ state = "asleep" /\ age = [m \in Moments |-> None]
  /\ transcript = 0 /\ heardOpen = 0
  /\ sustained = None /\ cutAfter = MaxAge
-----------------------------------------------------------------------------
Older(t) == IF t \in {None, MaxAge} THEN t ELSE t + 1
Aged == [m \in Moments |-> Older(age[m])]
Noted(t) == IF t = None THEN 0 ELSE t

\* Fault: what was heard before is kept.
WordsKept == transcript
WordsAtWaking == 0

\* The body of wake(): it starts to listen, with nothing heard.
Listen ==
  /\ state' = "listening"
  /\ age' = [m \in Moments |-> IF m = "listening" THEN 0 ELSE None]
  /\ transcript' = WordsAtWaking /\ heardOpen' = 0

\* wake(): the wake word, the key or the hotkey; ignored while the microphone
\* is off.  While GARIS talks it stops the voice first.
Wake == state # "paused" /\ Listen /\ UNCHANGED <<sustained, cutAfter>>

\* pause(), resume(), start_speaking(), stop_speaking() and finished_speaking()
\* say where to be; only the last two ask where the session is.
Enter(there) ==
  /\ state' = there
  /\ UNCHANGED <<transcript, cutAfter, heardOpen>>
Pause  == Enter("paused") /\ UNCHANGED <<age, sustained>>
Resume == Enter("asleep") /\ UNCHANGED <<age, sustained>>

SpeechForgotten == [age EXCEPT !["speech"] = None]

StartSpeaking == Enter("speaking") /\ age' = SpeechForgotten /\ sustained' = None
StopSpeaking == state = "speaking" /\ Enter("asleep") /\ UNCHANGED <<age, sustained>>

\* finished(): VoiceService keeps the floor unless told otherwise, and a pause
\* that came meanwhile is respected by wake() alone.
FinishedSpeaking(keepFloor) ==
  IF keepFloor THEN Wake ELSE Enter("asleep") /\ UNCHANGED <<age, sustained>>

\* speech_started(): the engine's own detector.  Over GARIS's voice it notes
\* the moment, if barge-in is on.
SpeechStarted ==
  /\ state \in {"listening", "thinking"} \/ (state = "speaking" /\ bargeIn)
  /\ IF state = "speaking"
     THEN age' = [age EXCEPT !["speech"] = 0] /\ sustained' = Noted(sustained)
     ELSE /\ age' = [age EXCEPT !["speech"] = 0, !["silence"] = None, !["turn"] = Noted(@)]
          /\ UNCHANGED sustained
  /\ UNCHANGED <<state, transcript, cutAfter, heardOpen>>

\* audio_tick(speaking = True)
SpeechFrame ==
  /\ IF state = "speaking" /\ bargeIn
     THEN /\ sustained' = Noted(Older(sustained))
          /\ IF Aged["speech"] >= BargeIn
             THEN Listen /\ cutAfter' = sustained'
             ELSE /\ age' = [Aged EXCEPT !["speech"] = Noted(@)]
                  /\ UNCHANGED <<state, transcript, cutAfter, heardOpen>>
     ELSE /\ age' = IF state = "listening"
                    THEN [Aged EXCEPT !["silence"] = None, !["turn"] = Noted(@)] ELSE Aged
          /\ UNCHANGED <<state, transcript, sustained, cutAfter, heardOpen>>

SpeechBroken == [Aged EXCEPT !["speech"] = None]

\* Fault: a turn is awaited for ever.
NeverOver == FALSE
WindowIsOver == Aged["turn"] = None /\ Aged["listening"] >= WakeWindow

\* end_turn(): to the agent with what was heard, or back to sleep.
EndTurn ==
  /\ state' = IF transcript = 0 THEN "asleep" ELSE "thinking"
  /\ transcript' = 0

\* audio_tick(speaking = False): enough silence ends the turn, or the window in
\* which nobody spoke.
SilentFrame ==
  /\ sustained' = None /\ UNCHANGED <<cutAfter, heardOpen>>
  /\ \/ /\ state = "speaking"
        /\ age' = SpeechBroken /\ UNCHANGED <<state, transcript>>
     \/ /\ state \notin {"speaking", "listening"}
        /\ age' = Aged /\ UNCHANGED <<state, transcript>>
     \/ /\ state = "listening" /\ age["silence"] = None
        /\ age' = [Aged EXCEPT !["silence"] = 0] /\ UNCHANGED <<state, transcript>>
     \/ /\ state = "listening" /\ age["silence"] # None
        /\ Aged["turn"] # None /\ Aged["silence"] >= EndOfTurn
        /\ EndTurn /\ age' = [Aged EXCEPT !["turn"] = None, !["silence"] = None]
     \/ /\ state = "listening" /\ age["silence"] # None
        /\ ~(Aged["turn"] # None /\ Aged["silence"] >= EndOfTurn)
        /\ state' = IF WindowIsOver THEN "asleep" ELSE state
        /\ age' = Aged /\ UNCHANGED transcript

\* push_to_talk(held = False) -> finish_turn(): the key is let go.
ReleaseKey ==
  /\ state = "listening"
  /\ EndTurn /\ age' = [age EXCEPT !["turn"] = None, !["silence"] = None]
  /\ UNCHANGED <<sustained, cutAfter, heardOpen>>

\* feed_transcript() while it sleeps: only the wake word matters, and what was
\* said after it in the same breath is the first piece of the turn.
WakeWord(more) ==
  /\ state = "asleep"
  /\ state' = "listening"
  /\ age' = [m \in Moments |-> IF m = "listening" THEN 0 ELSE None]
  /\ transcript' = WordsAtWaking + more /\ heardOpen' = more
  /\ UNCHANGED <<sustained, cutAfter>>

\* feed_transcript() while it listens; in any other state the text is dropped.
Heard ==
  /\ state = "listening" /\ heardOpen < MaxPieces
  /\ transcript' = transcript + 1 /\ heardOpen' = heardOpen + 1
  /\ UNCHANGED <<state, age, sustained, cutAfter>>

VoiceStep ==
  \/ Wake \/ Pause \/ Resume
  \/ StartSpeaking \/ StopSpeaking \/ \E k \in BOOLEAN : FinishedSpeaking(k)
  \/ SpeechStarted \/ SpeechFrame \/ SilentFrame \/ ReleaseKey
  \/ \E more \in {0, 1} : WakeWord(more)
  \/ Heard
VoiceNext == VoiceStep /\ UNCHANGED bargeIn

VoiceSpec == VoiceInit /\ [][VoiceNext]_voiceVars

\* The microphone delivers frames.
VoiceFairness == WF_voiceVars(SilentFrame /\ UNCHANGED bargeIn)
-----------------------------------------------------------------------------
\* GARIS is never cut off by a cough: when a frame of sound interrupts it, the
\* speech had gone on for barge_in_ms without a gap, whatever was heard, said or
\* noted before GARIS began to talk (session.py:23-25, 174-190).
CutNeedsSpeech == cutAfter >= BargeIn

\* What the turn will say is all that was heard since the session began to
\* listen, and nothing from an earlier one that was cut off, paused or ended
\* (session.py:136-142, 225-234).
TurnIsOneHearing == state = "listening" => transcript = heardOpen

\* It does not listen to the room for ever: once all that comes is silence, the
\* session stops listening (session.py:31-33, 210-221).
ListeningEnds == <>[][SilentFrame]_voiceVars => []<>(state # "listening")
=============================================================================
