----------------------------- MODULE DeskProofs -----------------------------
(***************************************************************************)
(* Theorems about what stands between the engine and its user: the voice   *)
(* (Voice), for any thresholds and whatever order the detector, the frames *)
(* of sound, the texts, the key and the speaking come in; the window       *)
(* (Surface), for any sizes of the queue and the wire and any number of    *)
(* loops, changes and refreshes; the notification gate (Gate), for any     *)
(* notices, limits and sizes of its memories; the settings (Settings), for *)
(* any number of writes.                                                   *)
(***************************************************************************)
EXTENDS Gate, Voice, Surface, OrderingProofs

\* The session never takes speech over GARIS's voice to be older than it is,
\* and takes no notice of it when barge-in is off.
SpeechIsNotOverrated ==
  state = "speaking" =>
    /\ age["speech"] <= sustained
    /\ ~bargeIn => age["speech"] = None

VoiceInv == VoiceTypeOK /\ TurnIsOneHearing /\ CutNeedsSpeech /\ SpeechIsNotOverrated
-----------------------------------------------------------------------------
LEMMA OlderKeepsOrder ==
  ASSUME NEW s \in Ages, NEW t \in Ages, s <= t
  PROVE  /\ Older(s) \in Ages /\ Noted(s) \in Ages /\ Older(t) \in Ages /\ Noted(t) \in Ages
         /\ Older(s) <= Older(t) /\ Noted(s) <= Noted(t) /\ s <= Noted(t)
BY VoiceAssumption DEF Ages, None, Older, Noted

LEMMA VoiceInitial == VoiceInit => VoiceInv
BY VoiceAssumption DEF VoiceInit, VoiceInv, VoiceTypeOK, TurnIsOneHearing, CutNeedsSpeech,
                       SpeechIsNotOverrated, Ages, None, Moments

LEMMA VoiceInductive == VoiceInv /\ [VoiceNext]_voiceVars => VoiceInv'
<1> SUFFICES ASSUME VoiceInv, [VoiceNext]_voiceVars PROVE VoiceInv'
  OBVIOUS
<1>1. /\ bargeIn \in BOOLEAN /\ bargeIn' = bargeIn
      /\ age \in [Moments -> Ages] /\ sustained \in Ages /\ cutAfter \in Ages
      /\ transcript \in 0 .. MaxPieces /\ heardOpen \in 0 .. MaxPieces
      /\ state \in {"asleep", "listening", "thinking", "speaking", "paused"}
  BY DEF VoiceInv, VoiceTypeOK, VoiceNext, voiceVars
<1>2. \A m \in Moments : age[m] \in Ages /\ Older(age[m]) \in Ages /\ Noted(age[m]) \in Ages
                         /\ Noted(Older(age[m])) \in Ages
  BY <1>1, OlderKeepsOrder DEF Ages
<1>3. Aged \in [Moments -> Ages] /\ \A m \in Moments : Aged[m] = Older(age[m])
  BY <1>2 DEF Aged
<1>4. {"speech", "silence", "listening", "turn"} = Moments /\ None \in Ages /\ 0 \in Ages
  BY VoiceAssumption DEF Moments, None, Ages
<1>5. /\ state = "listening" => transcript = heardOpen
      /\ cutAfter >= BargeIn
      /\ state = "speaking" => age["speech"] <= sustained
      /\ state = "speaking" /\ ~bargeIn => age["speech"] = None
  BY DEF VoiceInv, TurnIsOneHearing, CutNeedsSpeech, SpeechIsNotOverrated
<1> USE DEF VoiceInv, VoiceTypeOK, TurnIsOneHearing, CutNeedsSpeech, SpeechIsNotOverrated
<1>6. ASSUME Listen, sustained' \in Ages, cutAfter' \in Ages, cutAfter' >= BargeIn
      PROVE  VoiceInv'
  <2>1. age' \in [Moments -> Ages] /\ state' = "listening" /\ transcript' = 0 /\ heardOpen' = 0
    BY <1>4, <1>6 DEF Listen, WordsAtWaking
  <2> QED
    BY <1>1, <1>6, <2>1, VoiceAssumption
<1>7. CASE Wake
  BY <1>1, <1>5, <1>6, <1>7 DEF Wake
<1>8. CASE Pause \/ Resume \/ StopSpeaking
  BY <1>1, <1>5, <1>8 DEF Pause, Resume, StopSpeaking, Enter
<1>9. CASE StartSpeaking
  <2>1. age' \in [Moments -> Ages] /\ age'["speech"] = None
    BY <1>1, <1>4, <1>9 DEF StartSpeaking, SpeechForgotten
  <2>2. sustained' = None /\ state' = "speaking" /\ UNCHANGED <<transcript, cutAfter, heardOpen>>
    BY <1>9 DEF StartSpeaking, Enter
  <2>3. None <= None
    BY DEF None
  <2> QED
    BY <1>1, <1>4, <1>5, <2>1, <2>2, <2>3
<1>10. CASE \E k \in BOOLEAN : FinishedSpeaking(k)
  <2>1. CASE Wake
    BY <1>7, <2>1
  <2>2. CASE Enter("asleep") /\ UNCHANGED <<age, sustained>>
    BY <1>1, <1>5, <2>2 DEF Enter
  <2> QED
    BY <1>10, <2>1, <2>2 DEF FinishedSpeaking
<1>11. CASE SpeechStarted
  <2>1. UNCHANGED <<state, transcript, cutAfter, heardOpen>>
    BY <1>11 DEF SpeechStarted
  <2>2. CASE state = "speaking"
    <3>1. bargeIn /\ sustained' = Noted(sustained) /\ age' = [age EXCEPT !["speech"] = 0]
      BY <1>11, <2>2 DEF SpeechStarted
    <3>2. sustained' \in Ages /\ 0 <= sustained'
      BY <1>1, <3>1, VoiceAssumption DEF Noted, Ages, None
    <3>3. age' \in [Moments -> Ages] /\ age'["speech"] = 0
      BY <1>1, <1>4, <3>1
    <3> QED
      BY <1>1, <1>5, <2>1, <3>1, <3>2, <3>3
  <2>3. CASE state # "speaking"
    <3>1. /\ age' = [age EXCEPT !["speech"] = 0, !["silence"] = None, !["turn"] = Noted(@)]
          /\ sustained' = sustained
      BY <1>11, <2>3 DEF SpeechStarted
    <3>2. age' \in [Moments -> Ages]
      BY <1>1, <1>2, <1>4, <3>1
    <3> QED
      BY <1>1, <1>5, <2>1, <2>3, <3>1, <3>2
  <2> QED
    BY <2>2, <2>3
<1>12. CASE SpeechFrame
  <2>1. CASE state = "speaking" /\ bargeIn
    <3>1. sustained' = Noted(Older(sustained)) /\ sustained' \in Ages
      BY <1>1, <1>12, <2>1, OlderKeepsOrder DEF SpeechFrame, Ages
    <3>2. Older(age["speech"]) <= Older(sustained)
      BY <1>1, <1>2, <1>4, <1>5, <2>1, OlderKeepsOrder
    <3>3. /\ Older(age["speech"]) <= sustained'
          /\ Noted(Older(age["speech"])) <= sustained'
      <4> DEFINE s == Older(age["speech"])
                 t == Older(sustained)
      <4>1. s \in Ages /\ t \in Ages /\ s <= t /\ sustained' = Noted(t)
        BY <1>1, <1>2, <1>4, <3>1, <3>2, OlderKeepsOrder DEF Ages
      <4> HIDE DEF s, t
      <4>2. Noted(s) <= Noted(t) /\ s <= Noted(t)
        BY <4>1, OlderKeepsOrder
      <4> QED
        BY <4>1, <4>2 DEF s
    <3>4. CASE Aged["speech"] >= BargeIn
      <4>1. Listen /\ cutAfter' = sustained'
        BY <1>12, <2>1, <3>4 DEF SpeechFrame
      <4>2. cutAfter' >= BargeIn
        <5>1. /\ Older(age["speech"]) \in Int /\ sustained' \in Int /\ BargeIn \in Int
          BY <1>2, <1>4, <3>1, VoiceAssumption DEF Ages, None
        <5> QED
          BY <1>3, <1>4, <3>3, <3>4, <4>1, <5>1
      <4> QED
        BY <1>6, <3>1, <4>1, <4>2
    <3>5. CASE ~(Aged["speech"] >= BargeIn)
      <4>1. /\ age' = [Aged EXCEPT !["speech"] = Noted(@)]
            /\ UNCHANGED <<state, transcript, cutAfter, heardOpen>>
        BY <1>12, <2>1, <3>5 DEF SpeechFrame
      <4>2. age' \in [Moments -> Ages] /\ age'["speech"] = Noted(Older(age["speech"]))
        BY <1>2, <1>3, <1>4, <4>1
      <4> QED
        BY <1>1, <1>5, <2>1, <3>1, <3>3, <4>1, <4>2
    <3> QED
      BY <3>4, <3>5
  <2>2. CASE ~(state = "speaking" /\ bargeIn)
    <3>1. /\ age' = IF state = "listening"
                    THEN [Aged EXCEPT !["silence"] = None, !["turn"] = Noted(@)] ELSE Aged
          /\ UNCHANGED <<state, transcript, sustained, cutAfter, heardOpen>>
      BY <1>12, <2>2 DEF SpeechFrame
    <3>2. age' \in [Moments -> Ages]
      <4>1. Noted(Aged["turn"]) \in Ages
        BY <1>2, <1>3, <1>4
      <4> QED
        BY <1>3, <1>4, <3>1, <4>1
    <3>3. state = "speaking" => age'["speech"] = None
      BY <1>3, <1>4, <1>5, <2>2, <3>1 DEF Older
    <3> QED
      BY <1>1, <1>5, <2>2, <3>1, <3>2, <3>3
  <2> QED
    BY <2>1, <2>2
<1>13. CASE SilentFrame
  <2>1. sustained' = None /\ UNCHANGED <<cutAfter, heardOpen>>
    BY <1>13 DEF SilentFrame
  <2>2. None <= None
    BY DEF None
  <2>3. CASE state = "speaking"
    <3>1. state' = state /\ transcript' = transcript /\ age' = SpeechBroken
      BY <1>13, <2>3 DEF SilentFrame
    <3>2. age' \in [Moments -> Ages] /\ age'["speech"] = None
      BY <1>3, <1>4, <3>1 DEF SpeechBroken
    <3> QED
      BY <1>1, <1>4, <1>5, <2>1, <2>2, <2>3, <3>1, <3>2
  <2>4. CASE state # "speaking"
    <3>1. /\ age' \in {Aged, [Aged EXCEPT !["silence"] = 0],
                       [Aged EXCEPT !["turn"] = None, !["silence"] = None]}
          /\ \/ state' = state /\ transcript' = transcript
             \/ state' \in {"asleep", "thinking"} /\ transcript' \in {0, transcript}
      BY <1>13, <2>4 DEF SilentFrame, EndTurn
    <3>2. age' \in [Moments -> Ages]
      BY <1>3, <1>4, <3>1
    <3> QED
      BY <1>1, <1>4, <1>5, <2>1, <2>4, <3>1, <3>2, VoiceAssumption
  <2> QED
    BY <2>3, <2>4
<1>14. CASE ReleaseKey
  <2>1. age' \in [Moments -> Ages]
    BY <1>1, <1>4, <1>14 DEF ReleaseKey
  <2> QED
    BY <1>1, <1>5, <1>14, <2>1, VoiceAssumption DEF ReleaseKey, EndTurn
<1>15. CASE \E more \in {0, 1} : WakeWord(more)
  <2>1. PICK more \in {0, 1} : WakeWord(more)
    BY <1>15
  <2>2. age' \in [Moments -> Ages]
    BY <1>4, <2>1 DEF WakeWord
  <2> QED
    BY <1>1, <1>5, <2>1, <2>2, VoiceAssumption DEF WakeWord, WordsAtWaking
<1>16. CASE Heard
  BY <1>1, <1>5, <1>16, VoiceAssumption DEF Heard
<1>17. CASE UNCHANGED voiceVars
  BY <1>1, <1>5, <1>17 DEF voiceVars
<1> QED
  BY <1>7, <1>8, <1>9, <1>10, <1>11, <1>12, <1>13, <1>14, <1>15, <1>16, <1>17
     DEF VoiceNext, VoiceStep
-----------------------------------------------------------------------------
LEMMA VoiceInvariant == VoiceSpec => []VoiceInv
BY VoiceInitial, VoiceInductive, PTL DEF VoiceSpec

\* The session's state and its moments have the form the code gives them.
THEOREM VoiceTypeCorrect == VoiceSpec => []VoiceTypeOK
<1>1. VoiceInv => VoiceTypeOK
  BY DEF VoiceInv
<1> QED
  BY VoiceInvariant, <1>1, PTL

\* For any barge_in_ms, a frame of sound cuts GARIS off only after that much
\* unbroken speech over its voice (session.py:174-190).
THEOREM CutsNeedSpeech == VoiceSpec => []CutNeedsSpeech
<1>1. VoiceInv => CutNeedsSpeech
  BY DEF VoiceInv
<1> QED
  BY VoiceInvariant, <1>1, PTL

\* Whatever is cut off, paused, ended or woken in between, the turn under way
\* holds exactly what was heard since the session began to listen.
THEOREM TurnsAreOneHearing == VoiceSpec => []TurnIsOneHearing
<1>1. VoiceInv => TurnIsOneHearing
  BY DEF VoiceInv
<1> QED
  BY VoiceInvariant, <1>1, PTL
-----------------------------------------------------------------------------
\* Without a stream nothing waits for it; what a broken one still carries is
\* gone before the window dials again.
LinkIsClean ==
  /\ link # "open" => queue = <<>>
  /\ link \in {"down", "dialed"} => wire = <<>>

\* While the stream is open, a change is behind the window or its news is on
\* the way: an event that makes it ask, a refresh that will count as missed, or
\* a last refresh that has read nothing old.
QueuedNews     == \E i \in DOMAIN queue : queue[i].topic = "rows"
WiredNews      == \E i \in DOMAIN wire : wire[i].topic \in AsksAgain
OvertakenWaits == \E i \in DOMAIN refreshes : refreshes[i].overtaken
LastIsFresh ==
  /\ refreshes # <<>>
  /\ \A p \in Parts : refreshes[Len(refreshes)].read[p] \in {Unread, version}
UpToDate == refreshes = <<>> /\ ShowsWhatIs

NewsIsOnTheWay ==
  link = "open" /\ ~missed =>
    QueuedNews \/ WiredNews \/ OvertakenWaits \/ LastIsFresh \/ UpToDate

SurfaceInv == SurfaceTypeOK /\ LinkIsClean /\ NewsIsOnTheWay

EventFrames == [topic : Topics, version : {0}]
Refreshes == [read : [Parts -> Versions \cup {Unread}], overtaken : BOOLEAN]

LEMMA SurfaceInitial == SurfaceInit => SurfaceInv
<1>1. /\ QueueSize \in Nat \ {0} /\ WireSize \in Nat \ {0} /\ MaxVersions \in Nat \ {0}
      /\ MaxLoops \in Nat \ {0} /\ MaxRefreshes \in Nat \ {0}
  BY SurfaceAssumption
<1>2. SurfaceInit => SurfaceTypeOK
  <2> SUFFICES ASSUME SurfaceInit PROVE SurfaceTypeOK
    OBVIOUS
  <2>1. /\ queue \in Seq(EventFrames) /\ Len(queue) <= QueueSize
        /\ wire \in Seq(Frames) /\ Len(wire) <= WireSize + 1
        /\ refreshes \in Seq(Refreshes) /\ Len(refreshes) <= MaxRefreshes
    BY <1>1 DEF SurfaceInit
  <2>2. shown \in [Parts -> Versions] /\ version \in Versions
    BY <1>1 DEF SurfaceInit, Blank, Versions
  <2>3. command \in BOOLEAN /\ missed \in BOOLEAN
    BY Zenon DEF SurfaceInit
  <2>4. /\ loops \in 0 .. MaxLoops
        /\ orb \in Moods \cup {"idle"}
        /\ link \in {"down", "dialed", "open", "cut"}
        /\ opened \in {"closed", "health", "first", "on"}
    BY <1>1 DEF SurfaceInit, Moods
  <2> QED
    BY <2>1, <2>2, <2>3, <2>4 DEF SurfaceTypeOK, EventFrames, Refreshes
<1>3. SurfaceInit => LinkIsClean /\ NewsIsOnTheWay
  BY DEF SurfaceInit, LinkIsClean, NewsIsOnTheWay
<1> QED
  BY <1>2, <1>3 DEF SurfaceInv

\* Events of rows reach the queue of an open stream, or are counted as missed.
LEMMA Emitting ==
  ASSUME SurfaceTypeOK, NEW events \in Seq(EventFrames), Emit(events)
  PROVE  /\ queue' \in Seq(EventFrames) /\ Len(queue') <= QueueSize /\ missed' \in BOOLEAN
         /\ missed => missed'
         /\ link # "open" => queue' = queue
         /\ link = "open" /\ (\E i \in DOMAIN events : events[i].topic = "rows") =>
              missed' \/ \E i \in DOMAIN queue' : queue'[i].topic = "rows"
<1> DEFINE all == queue \o events
<1>1. /\ queue \in Seq(EventFrames) /\ Len(queue) \in Nat /\ Len(queue) <= QueueSize
      /\ Len(events) \in Nat /\ QueueSize \in Nat \ {0} /\ missed \in BOOLEAN
  BY SurfaceAssumption DEF SurfaceTypeOK, EventFrames
<1>2. /\ all \in Seq(EventFrames) /\ Len(all) = Len(queue) + Len(events)
      /\ \A i \in 1 .. Len(events) : all[Len(queue) + i] = events[i]
  BY <1>1
<1> HIDE DEF all
<1>3. CASE link # "open"
  BY <1>1, <1>3 DEF Emit
<1>4. CASE link = "open"
  <2>1. /\ queue' = IF Len(all) > QueueSize
                    THEN SubSeq(all, Len(all) - QueueSize + 1, Len(all)) ELSE all
        /\ missed' \in BOOLEAN /\ (missed => missed')
        /\ \A i \in 1 .. Len(queue) + Len(events) - QueueSize :
             all[i].topic = "rows" => missed'
    <3>1. queue' = Kept(events)
          /\ missed' = (missed \/ \E i \in 1 .. Len(queue) + Len(events) - QueueSize :
                                    (queue \o events)[i].topic = "rows")
      BY <1>4 DEF Emit
    <3>2. Kept(events) = IF Len(all) > QueueSize
                         THEN SubSeq(all, Len(all) - QueueSize + 1, Len(all)) ELSE all
      BY DEF Kept, all
    <3>3. /\ missed' \in BOOLEAN /\ (missed => missed')
          /\ \A i \in 1 .. Len(queue) + Len(events) - QueueSize :
               all[i].topic = "rows" => missed'
      BY <1>1, <3>1, Zenon DEF all
    <3> QED
      BY <3>1, <3>2, <3>3
  <2>2. CASE Len(all) > QueueSize
    <3> DEFINE m == Len(all) - QueueSize + 1
    <3>0. /\ queue' = SubSeq(all, m, Len(all)) /\ m \in 1 .. Len(all) /\ Len(all) \in Nat
          /\ m - 1 = Len(all) - QueueSize /\ Len(all) - m + 1 = QueueSize
      BY <1>1, <1>2, <2>1, <2>2
    <3> HIDE DEF m
    <3>1. /\ queue' \in Seq(EventFrames) /\ Len(queue') = QueueSize
          /\ \A i \in 1 .. QueueSize : queue'[i] = all[Len(all) - QueueSize + i]
      <4>1. /\ queue' \in Seq(EventFrames) /\ Len(queue') = QueueSize
            /\ \A i \in 1 .. QueueSize : queue'[i] = all[m - 1 + i]
        BY <1>1, <1>2, <3>0
      <4> QED
        BY <3>0, <4>1
    <3>2. ASSUME NEW i \in DOMAIN events, events[i].topic = "rows"
          PROVE  missed' \/ \E k \in DOMAIN queue' : queue'[k].topic = "rows"
      <4>1. i \in 1 .. Len(events) /\ Len(queue) + i \in 1 .. Len(all)
            /\ all[Len(queue) + i].topic = "rows"
        BY <1>1, <1>2, <3>2
      <4>2. CASE Len(queue) + i <= Len(all) - QueueSize
        <5>1. Len(queue) + i \in 1 .. Len(queue) + Len(events) - QueueSize
          BY <1>1, <1>2, <4>1, <4>2
        <5> QED
          BY <2>1, <4>1, <5>1
      <4>3. CASE Len(queue) + i > Len(all) - QueueSize
        <5> DEFINE k == Len(queue) + i - (Len(all) - QueueSize)
        <5>1. k \in 1 .. QueueSize /\ Len(all) - QueueSize + k = Len(queue) + i
          BY <1>1, <1>2, <4>1, <4>3
        <5> HIDE DEF k
        <5>2. queue'[k].topic = "rows" /\ k \in DOMAIN queue'
          BY <3>1, <4>1, <5>1
        <5> QED
          BY <5>2
      <4> QED
        BY <1>1, <1>2, <4>1, <4>2, <4>3
    <3>3. Len(queue') <= QueueSize
      BY <1>1, <3>1
    <3> QED
      BY <1>4, <2>1, <3>1, <3>2, <3>3, Zenon
  <2>3. CASE ~(Len(all) > QueueSize)
    <3>1. \A i \in DOMAIN events : Len(queue) + i \in DOMAIN all
                                   /\ all[Len(queue) + i] = events[i]
      BY <1>1, <1>2
    <3> QED
      BY <1>1, <1>2, <1>4, <2>1, <2>3, <3>1
  <2> QED
    BY <2>2, <2>3
<1> QED
  BY <1>3, <1>4

LEMMA Asking ==
  ASSUME SurfaceTypeOK, Ask(refreshes)
  PROVE  /\ refreshes' \in Seq(Refreshes) /\ Len(refreshes') <= MaxRefreshes
         /\ missed' \in BOOLEAN /\ ~missed' /\ LastIsFresh'
<1> DEFINE call == [read |-> [p \in Parts |-> Unread], overtaken |-> FALSE]
<1>1. call \in Refreshes /\ \A p \in Parts : call.read[p] = Unread
  BY DEF Refreshes
<1>2. /\ refreshes \in Seq(Refreshes) /\ Len(refreshes) \in Nat /\ MaxRefreshes \in Nat
  BY SurfaceAssumption DEF SurfaceTypeOK, Refreshes
<1>3. Len(refreshes) < MaxRefreshes /\ refreshes' = Append(refreshes, call) /\ missed' = FALSE
  BY DEF Ask
<1> HIDE DEF call
<1>4. /\ refreshes' \in Seq(Refreshes) /\ Len(refreshes') = Len(refreshes) + 1
      /\ refreshes'[Len(refreshes) + 1] = call
  BY <1>1, <1>2, <1>3
<1>5. LastIsFresh'
  BY <1>1, <1>2, <1>4 DEF LastIsFresh, Unread
<1>6. missed' \in BOOLEAN /\ ~missed'
  BY <1>3, Zenon
<1>7. Len(refreshes') <= MaxRefreshes
  BY <1>2, <1>3, <1>4
<1> QED
  BY <1>4, <1>5, <1>6, <1>7

LEMMA SurfaceInductive == SurfaceInv /\ [SurfaceNext]_surfaceVars => SurfaceInv'
<1> SUFFICES ASSUME SurfaceInv, [SurfaceNext]_surfaceVars PROVE SurfaceInv'
  OBVIOUS
<1>0. SurfaceTypeOK /\ LinkIsClean /\ NewsIsOnTheWay
  BY DEF SurfaceInv
<1>1. /\ QueueSize \in Nat \ {0} /\ WireSize \in Nat \ {0} /\ MaxVersions \in Nat \ {0}
      /\ MaxLoops \in Nat \ {0} /\ MaxRefreshes \in Nat \ {0}
  BY SurfaceAssumption
<1>2. /\ version \in Versions /\ version \in Nat /\ loops \in 0 .. MaxLoops
      /\ link \in {"down", "dialed", "open", "cut"}
      /\ queue \in Seq(EventFrames) /\ Len(queue) <= QueueSize /\ Len(queue) \in Nat
      /\ wire \in Seq(Frames) /\ Len(wire) <= WireSize + 1 /\ Len(wire) \in Nat
      /\ opened \in {"closed", "health", "first", "on"}
      /\ refreshes \in Seq(Refreshes) /\ Len(refreshes) <= MaxRefreshes /\ Len(refreshes) \in Nat
      /\ command \in BOOLEAN
      /\ shown \in [Parts -> Versions] /\ orb \in Moods \cup {"idle"} /\ missed \in BOOLEAN
  BY <1>0 DEF SurfaceTypeOK, EventFrames, Refreshes, Versions
<1> DEFINE Typed ==
      /\ version \in Versions /\ loops \in 0 .. MaxLoops
      /\ link \in {"down", "dialed", "open", "cut"}
      /\ queue \in Seq(EventFrames) /\ Len(queue) <= QueueSize
      /\ wire \in Seq(Frames) /\ Len(wire) <= WireSize + 1
      /\ opened \in {"closed", "health", "first", "on"}
      /\ refreshes \in Seq(Refreshes) /\ Len(refreshes) <= MaxRefreshes
      /\ command \in BOOLEAN
      /\ shown \in [Parts -> Versions] /\ orb \in Moods \cup {"idle"} /\ missed \in BOOLEAN
<1>3. Typed' => SurfaceTypeOK'
  BY DEF SurfaceTypeOK, EventFrames, Refreshes
<1>4. EventFrames \subseteq Frames
  BY DEF EventFrames, Frames
\* The engine writes a row, and says so or does not.
<1>5. ASSUME NEW events \in Seq(EventFrames), \E i \in DOMAIN events : events[i].topic = "rows",
             Grow, Emit(events), loops' \in 0 .. MaxLoops,
             command' \in BOOLEAN, UNCHANGED <<link, wire, opened, refreshes, shown, orb>>
      PROVE  SurfaceInv'
  <2>1. /\ queue' \in Seq(EventFrames) /\ Len(queue') <= QueueSize /\ missed' \in BOOLEAN
        /\ link # "open" => queue' = queue
        /\ link = "open" => missed' \/ QueuedNews'
    BY <1>0, <1>5, Emitting DEF QueuedNews
  <2>2. version' \in Versions
    BY <1>1, <1>2, <1>5 DEF Grow, Versions
  <2>3. Typed'
    BY <1>2, <1>5, <2>1, <2>2
  <2>4. LinkIsClean'
    BY <1>0, <1>5, <2>1 DEF LinkIsClean
  <2>5. NewsIsOnTheWay'
    BY <1>5, <2>1 DEF NewsIsOnTheWay
  <2> QED
    BY <1>3, <2>3, <2>4, <2>5 DEF SurfaceInv
<1>6. CASE Change
  <2>1. <<Event("rows")>> \in Seq(EventFrames) /\ <<Event("rows")>>[1].topic = "rows"
        /\ 1 \in DOMAIN <<Event("rows")>>
    BY DEF Event, EventFrames, Topics
  <2> QED
    BY <1>2, <1>5, <1>6, <2>1 DEF Change, windowVars
<1>7. CASE LoopBegins
  <2> DEFINE words == <<Event("rows"), Event("busy")>>
  <2>1. words \in Seq(EventFrames) /\ words[1].topic = "rows" /\ 1 \in DOMAIN words
    BY DEF Event, EventFrames, Topics, Moods
  <2>2. /\ Grow /\ Emit(words) /\ loops' \in 0 .. MaxLoops
        /\ UNCHANGED <<link, wire, opened, refreshes, command, shown, orb>>
    BY <1>1, <1>2, <1>7 DEF LoopBegins, windowVars
  <2> HIDE DEF words
  <2> QED
    BY <1>2, <1>5, <2>1, <2>2
<1>8. ASSUME NEW words \in { <<>>, <<Event("over")>>, <<Event("blocked")>> }, LoopEnds(words)
      PROVE  SurfaceInv'
  <2> DEFINE events == Append(words, Event("rows"))
  <2>1. /\ words \in Seq(EventFrames)
        /\ Event("rows") \in EventFrames /\ Event("rows").topic = "rows"
    <3>1. \A t \in Topics : Event(t) \in EventFrames /\ Event(t).topic = t
      BY DEF Event, EventFrames
    <3>2. Event("over") \in EventFrames /\ Event("blocked") \in EventFrames
          /\ Event("rows") \in EventFrames /\ Event("rows").topic = "rows"
      BY <3>1 DEF Topics, Moods
    <3>3. <<>> \in Seq(EventFrames) /\ <<Event("over")>> \in Seq(EventFrames)
          /\ <<Event("blocked")>> \in Seq(EventFrames)
      BY <3>2
    <3> QED
      BY <1>8, <3>2, <3>3
  <2>2. events \in Seq(EventFrames) /\ Len(words) + 1 \in DOMAIN events
        /\ events[Len(words) + 1].topic = "rows"
    BY <2>1
  <2>3. /\ Grow /\ Emit(events) /\ loops' \in 0 .. MaxLoops
        /\ UNCHANGED <<link, wire, opened, refreshes, command, shown, orb>>
    BY <1>1, <1>2, <1>8 DEF LoopEnds, windowVars
  <2> HIDE DEF events
  <2> QED
    BY <1>2, <1>5, <2>2, <2>3
<1>9. ASSUME NEW told \in BOOLEAN, CommandIsDone(told) PROVE SurfaceInv'
  <2>1. CASE told
    <3>1. <<Event("rows")>> \in Seq(EventFrames) /\ <<Event("rows")>>[1].topic = "rows"
          /\ 1 \in DOMAIN <<Event("rows")>>
      BY DEF Event, EventFrames, Topics
    <3> QED
      BY <1>2, <1>5, <1>9, <2>1, <3>1 DEF CommandIsDone
  <2>2. CASE ~told
    <3>1. /\ version' \in Versions /\ missed' = TRUE /\ command' = TRUE
          /\ UNCHANGED <<queue, loops, link, wire, opened, refreshes, shown, orb>>
      BY <1>1, <1>2, <1>9, <2>2 DEF CommandIsDone, Grow, Versions
    <3>2. Typed'
      BY <1>2, <3>1
    <3>3. LinkIsClean' /\ NewsIsOnTheWay'
      BY <1>0, <3>1 DEF LinkIsClean, NewsIsOnTheWay
    <3> QED
      BY <1>3, <3>2, <3>3 DEF SurfaceInv
  <2> QED
    BY <2>1, <2>2
<1>10. CASE ChangeUntold
  <2>1. /\ version' \in Versions /\ missed' = TRUE
        /\ UNCHANGED <<queue, loops, link, wire, opened, refreshes, command, shown, orb>>
    BY <1>1, <1>2, <1>10 DEF ChangeUntold, Grow, Versions, windowVars
  <2>2. Typed'
    BY <1>2, <2>1
  <2>3. LinkIsClean' /\ NewsIsOnTheWay'
    BY <1>0, <2>1 DEF LinkIsClean, NewsIsOnTheWay
  <2> QED
    BY <1>3, <2>2, <2>3 DEF SurfaceInv
\* The stream: only Upgrade opens it, with the first frame on the wire.
<1>11. CASE Upgrade
  <2>1. /\ link = "dialed" /\ wire = <<>> /\ link' = "open" /\ queue' = <<>>
        /\ UNCHANGED <<version, loops, opened, refreshes, command, shown, orb, missed>>
    BY <1>0, <1>11 DEF Upgrade, LinkIsClean, windowVars
  <2> DEFINE first == [topic |-> "state", version |-> version]
  <2>2. first \in Frames /\ first.topic = "state"
    BY <1>2 DEF Frames
  <2>3. wire' = <<>> \o <<first>>
    BY <1>11, <2>1 DEF Upgrade, FirstFrame
  <2> HIDE DEF first
  <2>4. wire' \in Seq(Frames) /\ Len(wire') = 1 /\ wire'[1] = first
    BY <2>2, <2>3
  <2>5. WiredNews'
    BY <2>2, <2>4 DEF WiredNews, AsksAgain
  <2>6. Typed'
    BY <1>1, <1>2, <2>1, <2>4
  <2> QED
    BY <1>3, <2>1, <2>5, <2>6 DEF SurfaceInv, LinkIsClean, NewsIsOnTheWay
<1>12. CASE Pump
  <2>1. /\ link = "open" /\ queue # <<>> /\ Len(wire) < WireSize
        /\ wire' = Append(wire, Head(queue)) /\ queue' = Tail(queue)
        /\ UNCHANGED <<version, loops, link, opened, refreshes, command, shown, orb, missed>>
    BY <1>12 DEF Pump, windowVars
  <2>2. Head(queue) = queue[1] /\ queue[1] \in Frames
        /\ queue' \in Seq(EventFrames) /\ Len(queue') = Len(queue) - 1
        /\ \A i \in DOMAIN queue : i # 1 => i - 1 \in DOMAIN queue' /\ queue'[i - 1] = queue[i]
    BY <1>2, <1>4, <2>1
  <2>3. /\ wire' \in Seq(Frames) /\ Len(wire') = Len(wire) + 1 /\ Len(wire) + 1 \in DOMAIN wire'
        /\ wire'[Len(wire) + 1] = queue[1]
        /\ \A i \in DOMAIN wire : i \in DOMAIN wire' /\ wire'[i] = wire[i]
    BY <1>2, <2>1, <2>2
  <2>4. WiredNews => WiredNews'
    BY <2>3 DEF WiredNews
  <2>5. QueuedNews => QueuedNews' \/ WiredNews'
    <3>1. queue[1].topic = "rows" => WiredNews'
      BY <2>3 DEF WiredNews, AsksAgain
    <3>2. ASSUME NEW i \in DOMAIN queue, i # 1, queue[i].topic = "rows" PROVE QueuedNews'
      BY <2>2, <3>2 DEF QueuedNews
    <3> QED
      BY <3>1, <3>2 DEF QueuedNews
  <2>6. NewsIsOnTheWay'
    BY <1>0, <2>1, <2>4, <2>5 DEF NewsIsOnTheWay, OvertakenWaits, LastIsFresh, UpToDate, ShowsWhatIs
  <2>7. Typed'
    BY <1>1, <1>2, <2>1, <2>2, <2>3
  <2> QED
    BY <1>3, <2>1, <2>6, <2>7 DEF SurfaceInv, LinkIsClean
<1>13. CASE Cut
  <2>1. PICK n \in 0 .. Len(wire) : wire' = SubSeq(wire, 1, n)
    BY <1>13 DEF Cut
  <2>2. wire' \in Seq(Frames) /\ Len(wire') <= WireSize + 1
    BY <1>1, <1>2, <2>1
  <2>3. /\ link' = "cut" /\ queue' = <<>>
        /\ UNCHANGED <<version, loops, opened, refreshes, command, shown, orb, missed>>
    BY <1>13 DEF Cut, windowVars
  <2>4. Typed'
    BY <1>1, <1>2, <2>2, <2>3
  <2> QED
    BY <1>3, <2>3, <2>4 DEF SurfaceInv, LinkIsClean, NewsIsOnTheWay
<1>14. CASE Dial \/ NoticesCut
  <2>1. /\ link # "open" /\ link' \in {"dialed", "down"} /\ wire = <<>>
        /\ UNCHANGED <<version, loops, queue, wire, opened, refreshes, command, shown, orb, missed>>
    BY <1>0, <1>14 DEF Dial, NoticesCut, LinkIsClean, windowVars
  <2>2. Typed'
    BY <1>2, <2>1
  <2> QED
    BY <1>0, <1>3, <2>1, <2>2 DEF SurfaceInv, LinkIsClean, NewsIsOnTheWay
\* The window: it asks ...
<1>15. CASE Receive
  <2> DEFINE frame == wire[1]
  <2>1. /\ wire # <<>> /\ wire' = Tail(wire) /\ Head(wire) = frame /\ frame \in Frames
        /\ UNCHANGED <<version, loops, link, queue, opened, command>>
    BY <1>2, <1>15 DEF Receive
  <2>2. /\ wire' \in Seq(Frames) /\ Len(wire') = Len(wire) - 1
        /\ \A i \in DOMAIN wire : i # 1 => i - 1 \in DOMAIN wire' /\ wire'[i - 1] = wire[i]
    BY <1>2, <2>1
  <2>3. /\ shown' = IF frame.topic = "state"
                    THEN [shown EXCEPT !["tasks"] = frame.version] ELSE shown
        /\ orb' = IF frame.topic \in Moods THEN frame.topic ELSE orb
        /\ IF frame.topic \in AsksAgain THEN Ask(refreshes) ELSE UNCHANGED <<refreshes, missed>>
    BY <1>15, <2>1 DEF Receive
  <2>4. frame.topic = "state" => frame.version \in Versions
    BY <2>1 DEF Frames, Topics, Moods
  <2> HIDE DEF frame
  <2>5. shown' \in [Parts -> Versions] /\ orb' \in Moods \cup {"idle"}
    BY <1>2, <2>3, <2>4
  <2>6. LinkIsClean'
    BY <1>0, <2>1, <2>2 DEF LinkIsClean
  <2>7. CASE frame.topic \in AsksAgain
    <3>1. Ask(refreshes)
      BY <2>3, <2>7
    <3>2. /\ refreshes' \in Seq(Refreshes) /\ Len(refreshes') <= MaxRefreshes
          /\ missed' \in BOOLEAN /\ ~missed' /\ LastIsFresh'
      BY <1>0, <3>1, Asking
    <3>3. Typed'
      BY <1>1, <1>2, <2>1, <2>2, <2>5, <3>2
    <3> QED
      BY <1>3, <2>6, <3>2, <3>3 DEF SurfaceInv, NewsIsOnTheWay
  <2>8. CASE frame.topic \notin AsksAgain
    <3>1. UNCHANGED <<refreshes, missed, shown>>
      BY <2>3, <2>8 DEF AsksAgain
    <3>2. WiredNews => WiredNews'
      <4>1. ASSUME NEW i \in DOMAIN wire, wire[i].topic \in AsksAgain PROVE WiredNews'
        <5>1. i # 1
          BY <2>8, <4>1 DEF frame
        <5> QED
          BY <2>2, <4>1, <5>1 DEF WiredNews
      <4> QED
        BY <4>1 DEF WiredNews
    <3>3. NewsIsOnTheWay'
      BY <1>0, <2>1, <3>1, <3>2 DEF NewsIsOnTheWay, QueuedNews, OvertakenWaits, LastIsFresh,
                                    UpToDate, ShowsWhatIs
    <3>4. Typed'
      BY <1>1, <1>2, <2>1, <2>2, <2>5, <3>1
    <3> QED
      BY <1>3, <2>6, <3>3, <3>4 DEF SurfaceInv
  <2> QED
    BY <2>7, <2>8
<1>16. CASE HealthAnswers \/ CommandAnswers
  <2>1. /\ Ask(refreshes) /\ opened' \in {"closed", "health", "first", "on"} /\ command' \in BOOLEAN
        /\ UNCHANGED <<version, loops, link, queue, wire, shown, orb>>
    BY <1>2, <1>16 DEF HealthAnswers, CommandAnswers
  <2>2. /\ refreshes' \in Seq(Refreshes) /\ Len(refreshes') <= MaxRefreshes
        /\ missed' \in BOOLEAN /\ ~missed' /\ LastIsFresh'
    BY <1>0, <2>1, Asking
  <2>3. Typed'
    BY <1>1, <1>2, <2>1, <2>2
  <2> QED
    BY <1>0, <1>3, <2>1, <2>2, <2>3 DEF SurfaceInv, LinkIsClean, NewsIsOnTheWay
\* ... is answered ...
<1>17. ASSUME NEW i \in 1 .. Len(refreshes), NEW part \in Parts, Serve(i, part) PROVE SurfaceInv'
  <2>1. /\ refreshes' = [refreshes EXCEPT ![i].read[part] = version]
        /\ UNCHANGED <<version, loops, link, queue, wire, opened, command, shown, orb, missed>>
    BY <1>17 DEF Serve
  <2>2. /\ refreshes[i] \in Refreshes /\ refreshes[i].read \in [Parts -> Versions \cup {Unread}]
        /\ DOMAIN refreshes = 1 .. Len(refreshes)
    <3>1. refreshes[i] \in Refreshes /\ DOMAIN refreshes = 1 .. Len(refreshes)
      BY <1>2
    <3> QED
      BY <3>1 DEF Refreshes
  <2>3. /\ refreshes' = [refreshes EXCEPT ![i] = [refreshes[i] EXCEPT !.read =
                           [refreshes[i].read EXCEPT ![part] = version]]]
        /\ [refreshes[i] EXCEPT !.read = [refreshes[i].read EXCEPT ![part] = version]] \in Refreshes
    BY <1>2, <2>1, <2>2 DEF Refreshes
  <2> DEFINE served == [refreshes[i] EXCEPT !.read = [refreshes[i].read EXCEPT ![part] = version]]
  <2>4. /\ refreshes' \in Seq(Refreshes) /\ Len(refreshes') = Len(refreshes)
        /\ \A j \in 1 .. Len(refreshes) :
             /\ refreshes'[j].overtaken = refreshes[j].overtaken
             /\ \A p \in Parts : refreshes'[j].read[p] \in {refreshes[j].read[p], version}
    <3>1. /\ served.overtaken = refreshes[i].overtaken
          /\ \A p \in Parts : served.read[p] \in {refreshes[i].read[p], version}
      BY <2>2 DEF Refreshes
    <3>2. refreshes' = [refreshes EXCEPT ![i] = served] /\ served \in Refreshes
      BY <2>3
    <3> HIDE DEF served
    <3> QED
      BY <1>2, <2>2, <3>1, <3>2
  <2>5. /\ OvertakenWaits => OvertakenWaits'
        /\ LastIsFresh => LastIsFresh'
        /\ ~UpToDate
    BY <1>2, <1>17, <2>1, <2>2, <2>4 DEF OvertakenWaits, LastIsFresh, UpToDate, Unread
  <2>6. NewsIsOnTheWay'
    BY <1>0, <2>1, <2>5 DEF NewsIsOnTheWay, QueuedNews, WiredNews
  <2>7. Typed'
    BY <1>2, <2>1, <2>4
  <2> QED
    BY <1>0, <1>3, <2>1, <2>6, <2>7 DEF SurfaceInv, LinkIsClean
<1>18. ASSUME NEW i \in 1 .. Len(refreshes), Show(i) PROVE SurfaceInv'
  <2>1. /\ \A p \in Parts : refreshes[i].read[p] # Unread
        /\ shown' = refreshes[i].read
        /\ refreshes' = [j \in 1 .. Len(refreshes) - 1 |->
             IF j < i THEN [refreshes[j] EXCEPT !.overtaken = TRUE] ELSE refreshes[j + 1]]
        /\ UNCHANGED <<version, loops, link, queue, wire, opened, command, orb>>
    BY <1>18 DEF Show
  <2>2. \A j \in 1 .. Len(refreshes) :
          /\ refreshes[j] \in Refreshes /\ refreshes[j].overtaken \in BOOLEAN
          /\ refreshes[j].read \in [Parts -> Versions \cup {Unread}]
          /\ [refreshes[j] EXCEPT !.overtaken = TRUE] \in Refreshes
          /\ [refreshes[j] EXCEPT !.overtaken = TRUE].overtaken
    <3>1. \A j \in 1 .. Len(refreshes) : refreshes[j] \in Refreshes
      BY <1>2
    <3> QED
      BY <3>1 DEF Refreshes
  <2>3. /\ refreshes' \in Seq(Refreshes) /\ Len(refreshes') = Len(refreshes) - 1
        /\ DOMAIN refreshes' = 1 .. Len(refreshes) - 1
    <3>1. \A j \in 1 .. Len(refreshes) - 1 : j \in 1 .. Len(refreshes) /\ j + 1 \in 1 .. Len(refreshes)
      BY <1>2
    <3>2. \A j \in 1 .. Len(refreshes) - 1 :
            (IF j < i THEN [refreshes[j] EXCEPT !.overtaken = TRUE] ELSE refreshes[j + 1]) \in Refreshes
      BY <2>2, <3>1
    <3>3. Len(refreshes) - 1 \in Nat
      BY <1>2
    <3> QED
      BY <2>1, <3>2, <3>3
  <2>4. /\ \A j \in 1 .. Len(refreshes) - 1 : j < i => refreshes'[j].overtaken
        /\ \A j \in 1 .. Len(refreshes) - 1 : j >= i => refreshes'[j] = refreshes[j + 1]
    <3>1. \A j \in 1 .. Len(refreshes) - 1 : j \in 1 .. Len(refreshes)
      BY <1>2
    <3>2. \A j \in 1 .. Len(refreshes) - 1 : j >= i => ~(j < i)
      BY <1>2
    <3> QED
      BY <2>1, <2>2, <3>1, <3>2
  <2>5. missed' \in BOOLEAN /\ (~missed' => ~missed /\ ~refreshes[i].overtaken)
    BY <1>2, <1>18, <2>2, Zenon DEF Show
  <2>6. shown' \in [Parts -> Versions]
    BY <2>1, <2>2
  <2>7. Typed'
    <3>1. Len(refreshes') <= MaxRefreshes
      BY <1>1, <1>2, <2>3
    <3> QED
      BY <1>2, <2>1, <2>3, <2>5, <2>6, <3>1
  <2>8. ASSUME ~missed', OvertakenWaits PROVE OvertakenWaits'
    <3>1. PICK k \in 1 .. Len(refreshes) : refreshes[k].overtaken
      BY <1>2, <2>8 DEF OvertakenWaits
    <3>2. k # i
      BY <2>5, <2>8, <3>1
    <3>3. CASE k < i
      <4>1. k \in 1 .. Len(refreshes) - 1
        BY <1>2, <3>3
      <4> QED
        BY <2>3, <2>4, <3>3, <4>1 DEF OvertakenWaits
    <3>4. CASE k > i
      <4>1. k - 1 \in 1 .. Len(refreshes) - 1 /\ k - 1 >= i /\ k - 1 + 1 = k
        BY <1>2, <3>4
      <4>2. refreshes'[k - 1] = refreshes[k]
        BY <2>4, <4>1
      <4> QED
        BY <2>3, <3>1, <4>1, <4>2 DEF OvertakenWaits
    <3> QED
      BY <1>2, <3>2, <3>3, <3>4
  <2>9. ASSUME LastIsFresh PROVE OvertakenWaits' \/ LastIsFresh' \/ UpToDate'
    <3>1. \A p \in Parts : refreshes[Len(refreshes)].read[p] \in {Unread, version}
      BY <2>9 DEF LastIsFresh
    <3>2. CASE i # Len(refreshes)
      <4>1. /\ Len(refreshes) - 1 \in 1 .. Len(refreshes) - 1 /\ Len(refreshes) - 1 >= i
            /\ Len(refreshes) - 1 + 1 = Len(refreshes)
        BY <1>2, <1>18, <3>2
      <4>2. refreshes'[Len(refreshes')] = refreshes[Len(refreshes)] /\ refreshes' # <<>>
        BY <2>3, <2>4, <4>1
      <4> QED
        BY <2>1, <3>1, <4>2 DEF LastIsFresh, Unread
    <3>3. CASE i = Len(refreshes) /\ i > 1
      <4>1. 1 \in 1 .. Len(refreshes) - 1 /\ 1 < i
        BY <1>2, <3>3
      <4> QED
        BY <2>3, <2>4, <4>1 DEF OvertakenWaits
    <3>4. CASE i = Len(refreshes) /\ i = 1
      <4>1. refreshes' = <<>>
        BY <2>3, <3>4
      <4>2. \A p \in Parts : shown'[p] = version'
        BY <2>1, <3>1, <3>4
      <4> QED
        BY <4>1, <4>2 DEF UpToDate, ShowsWhatIs
    <3> QED
      BY <1>2, <3>2, <3>3, <3>4
  <2>10. ~UpToDate
    BY <1>2, <1>18 DEF UpToDate
  <2>11. NewsIsOnTheWay'
    BY <1>0, <2>1, <2>5, <2>8, <2>9, <2>10 DEF NewsIsOnTheWay, QueuedNews, WiredNews
  <2> QED
    BY <1>0, <1>3, <2>1, <2>7, <2>11 DEF SurfaceInv, LinkIsClean
\* ... or fails to be.
<1>19. ASSUME NEW i \in 1 .. Len(refreshes), RefreshFails(i) PROVE SurfaceInv'
  <2>1. /\ refreshes' = SubSeq(refreshes, 1, i - 1) \o SubSeq(refreshes, i + 1, Len(refreshes))
        /\ UNCHANGED <<version, loops, link, queue, wire, opened, command, shown, orb>>
    BY <1>19 DEF RefreshFails, RemoveAt
  <2>0. missed' \in BOOLEAN /\ missed'
    BY <1>19, Zenon DEF RefreshFails
  <2>2. /\ SubSeq(refreshes, 1, i - 1) \in Seq(Refreshes)
        /\ Len(SubSeq(refreshes, 1, i - 1)) = i - 1
        /\ SubSeq(refreshes, i + 1, Len(refreshes)) \in Seq(Refreshes)
        /\ Len(SubSeq(refreshes, i + 1, Len(refreshes))) = Len(refreshes) - i
    BY <1>2, <1>19
  <2>3. refreshes' \in Seq(Refreshes) /\ Len(refreshes') <= MaxRefreshes
    <3>1. Len(refreshes') = Len(SubSeq(refreshes, 1, i - 1))
                              + Len(SubSeq(refreshes, i + 1, Len(refreshes)))
          /\ refreshes' \in Seq(Refreshes)
      BY <2>1, <2>2
    <3>2. Len(refreshes') = (i - 1) + (Len(refreshes) - i)
      BY <2>2, <3>1
    <3>3. Len(refreshes') = Len(refreshes) - 1
      BY <1>2, <3>2
    <3>4. Len(refreshes') <= MaxRefreshes
      BY <1>1, <1>2, <3>3
    <3> QED
      BY <3>1, <3>4
  <2>4. Typed'
    BY <1>1, <1>2, <2>0, <2>1, <2>3
  <2> QED
    BY <1>0, <1>3, <2>0, <2>1, <2>4 DEF SurfaceInv, LinkIsClean, NewsIsOnTheWay
<1>20. CASE OrbSettles \/ Open \/ HealthFails \/ FirstRefreshEnds \/ CommandFails
  <2>1. /\ opened' \in {"closed", "health", "first", "on"} /\ orb' \in Moods \cup {"idle"}
        /\ command' \in BOOLEAN
        /\ UNCHANGED <<version, loops, link, queue, wire, refreshes, shown, missed>>
    BY <1>2, <1>20 DEF OrbSettles, Open, HealthFails, FirstRefreshEnds, CommandFails
  <2>2. Typed'
    BY <1>2, <2>1
  <2> QED
    BY <1>0, <1>3, <2>1, <2>2 DEF SurfaceInv, LinkIsClean, NewsIsOnTheWay, QueuedNews, WiredNews,
                                  OvertakenWaits, LastIsFresh, UpToDate, ShowsWhatIs
<1>21. CASE Close
  <2>1. /\ opened' = "closed" /\ link' = "down" /\ queue' = <<>> /\ wire' = <<>>
        /\ refreshes' = <<>> /\ shown' = Blank /\ orb' = "idle"
        /\ UNCHANGED <<version, loops>>
    BY <1>21 DEF Close
  <2>0. command' \in BOOLEAN /\ missed' \in BOOLEAN
    BY <1>21, Zenon DEF Close
  <2>2. shown' \in [Parts -> Versions]
    BY <1>1, <2>1 DEF Blank, Versions
  <2>3. Typed'
    BY <1>1, <1>2, <2>0, <2>1, <2>2
  <2> QED
    BY <1>3, <2>1, <2>3 DEF SurfaceInv, LinkIsClean, NewsIsOnTheWay
<1>22. CASE EngineRestarts
  <2>1. /\ loops' = 0 /\ queue' = <<>> /\ link' \in {"down", "cut"} /\ (link' = "down" => link = "down")
        /\ refreshes' = <<>>
        /\ UNCHANGED <<version, wire, opened, shown, orb>>
    BY <1>22 DEF EngineRestarts
  <2>2. command' \in BOOLEAN /\ missed' \in BOOLEAN
    <3>1. command' = FALSE /\ missed' = (missed \/ refreshes # <<>>)
      BY <1>22 DEF EngineRestarts
    <3> QED
      BY <1>2, <3>1, Zenon
  <2>3. Typed'
    BY <1>1, <1>2, <2>1, <2>2
  <2> QED
    BY <1>0, <1>3, <2>1, <2>3 DEF SurfaceInv, LinkIsClean, NewsIsOnTheWay
<1>23. CASE UNCHANGED surfaceVars
  <2>1. UNCHANGED <<version, loops, link, queue, wire, opened, refreshes, command, shown, orb, missed>>
    BY <1>23 DEF surfaceVars
  <2>2. Typed'
    BY <1>2, <2>1
  <2> QED
    BY <1>0, <1>3, <2>1, <2>2 DEF SurfaceInv, LinkIsClean, NewsIsOnTheWay, QueuedNews, WiredNews,
                                  OvertakenWaits, LastIsFresh, UpToDate, ShowsWhatIs
<1> QED
  BY <1>6, <1>7, <1>8, <1>9, <1>10, <1>11, <1>12, <1>13, <1>14, <1>15, <1>16, <1>17, <1>18, <1>19,
     <1>20, <1>21, <1>22, <1>23 DEF SurfaceNext

LEMMA SurfaceInvariant == SurfaceSpec => []SurfaceInv
<1> QED
  BY SurfaceInitial, SurfaceInductive, PTL DEF SurfaceSpec

\* Every variable of the window and its stream keeps its type.
THEOREM SurfaceTypeCorrect == SurfaceSpec => []SurfaceTypeOK
<1>1. SurfaceInv => SurfaceTypeOK
  BY DEF SurfaceInv
<1> QED
  BY <1>1, SurfaceInvariant, PTL

\* "The engine is the source of truth": whatever is cut, restarted or asked for
\* twice, a window that waits for nothing, and missed nothing since it last
\* asked, shows all that the engine keeps (store.ts, api/websocket.py).
THEOREM QuietWindowsAreTrue == SurfaceSpec => []QuietWindowIsTrue
<1>1. SurfaceInv => QuietWindowIsTrue
  BY DEF SurfaceInv, NewsIsOnTheWay, QuietWindowIsTrue, NothingOnTheWay, QueuedNews, WiredNews,
         OvertakenWaits, LastIsFresh, UpToDate
<1> QED
  BY <1>1, SurfaceInvariant, PTL
-----------------------------------------------------------------------------
\* The gate's deque of deliveries is the end of what the user was told, all of it
\* in this life of the engine, and what it has no room for is all that this life
\* told besides; times only grow.
Told(j) == heard[j].when
TimesGrow ==
  /\ \A j \in DOMAIN heard : Told(j) <= clock /\ heard[j].life <= life
  /\ \A i, j \in DOMAIN heard : i <= j => Told(i) <= Told(j)
Before == Len(heard) - Len(delivered)
DeliveredIsTheLast ==
  /\ Len(delivered) <= Len(heard)
  /\ \A i \in DOMAIN delivered : delivered[i] = Told(Before + i)
  /\ Len(delivered) < DeliveredSize => \A j \in 1 .. Before : heard[j].life # life

LimitInv == GateTypeOK /\ TimesGrow /\ DeliveredIsTheLast /\ WithinTheLimit

\* The order in which held notices are released leaves no two in one place.
LEMMA SoonerOrders ==
  ASSUME held \in Seq(Notices)
  PROVE  StrictlyOrders(Sooner, DOMAIN held)
<1> DEFINE imp(i) == held[i].importance
           at(i) == held[i].at
<1>1. \A i \in DOMAIN held : i \in Nat /\ imp(i) \in Nat /\ at(i) \in Nat
  <2>1. \A i \in DOMAIN held : i \in Nat /\ held[i] \in Notices
    OBVIOUS
  <2> QED
    BY <2>1, GateAssumption DEF Notices, Importances
<1>2. \A i, j \in DOMAIN held :
        <<i, j>> \in Sooner <=> \/ imp(i) > imp(j) \/ (imp(i) = imp(j) /\ at(i) < at(j))
                                \/ imp(i) = imp(j) /\ at(i) = at(j) /\ i < j
  BY <1>1 DEF Sooner, MoreUrgent
<1> HIDE DEF imp, at
<1>3. \A i \in DOMAIN held : <<i, i>> \notin Sooner
  BY <1>1, <1>2
<1>4. ASSUME NEW i \in DOMAIN held, NEW j \in DOMAIN held, NEW k \in DOMAIN held,
             <<i, j>> \in Sooner, <<j, k>> \in Sooner
      PROVE  <<i, k>> \in Sooner
  BY <1>1, <1>2, <1>4
<1>5. ASSUME NEW i \in DOMAIN held, NEW j \in DOMAIN held
      PROVE  i = j \/ <<i, j>> \in Sooner \/ <<j, i>> \in Sooner
  <2>1. /\ i \in Nat /\ imp(i) \in Nat /\ at(i) \in Nat
        /\ j \in Nat /\ imp(j) \in Nat /\ at(j) \in Nat
    BY <1>1
  <2>2. \/ imp(i) > imp(j) \/ imp(j) > imp(i)
        \/ imp(i) = imp(j) /\ (at(i) < at(j) \/ at(j) < at(i))
        \/ imp(i) = imp(j) /\ at(i) = at(j) /\ (i < j \/ j < i \/ i = j)
    BY <2>1
  <2> QED
    BY <1>2, <2>2
<1> QED
  BY <1>3, <1>4, <1>5 DEF StrictlyOrders

\* What is released is held, no position twice.
LEMMA UrgentIsHeld ==
  ASSUME held \in Seq(Notices)
  PROVE  /\ Urgent \in Seq(Notices) /\ Len(Urgent) \in Nat
         /\ \E place \in Seq(DOMAIN held) :
              /\ DOMAIN Urgent \subseteq DOMAIN place
              /\ \A q, r \in DOMAIN Urgent : place[q] = place[r] => q = r
              /\ \A r \in DOMAIN Urgent : Urgent[r] = held[place[r]]
<1> DEFINE S == DOMAIN held
           place == InOrder(S, Sooner)
           n == IF Len(place) < ReleaseLimit THEN Len(place) ELSE ReleaseLimit
<1>1. Len(held) \in Nat /\ S = 1 .. Len(held) /\ ReleaseLimit \in Nat
  BY GateAssumption
<1>2. IsFiniteSet(S)
  BY <1>1, FS_Interval
<1>3. StrictlyOrders(Sooner, S)
  BY SoonerOrders
<1>4. /\ place \in Seq(S) /\ \A q, r \in DOMAIN place : q < r <=> <<place[q], place[r]>> \in Sooner
  BY <1>2, <1>3, OrderIsKept
<1>5. Urgent = [r \in {q \in DOMAIN place : q <= ReleaseLimit} |-> held[place[r]]]
  BY DEF Urgent
<1> HIDE DEF place
<1>6. Len(place) \in Nat /\ DOMAIN place = 1 .. Len(place) /\ n \in Nat
      /\ {q \in DOMAIN place : q <= ReleaseLimit} = 1 .. n
  BY <1>1, <1>4
<1>7. \A r \in DOMAIN place : place[r] \in S
  BY <1>4
<1>8. \A i \in S : held[i] \in Notices
  OBVIOUS
<1>9. \A r \in 1 .. n : r \in DOMAIN place /\ held[place[r]] \in Notices
  BY <1>1, <1>6, <1>7, <1>8
<1> HIDE DEF n
<1>10. Urgent \in Seq(Notices) /\ Len(Urgent) = n /\ DOMAIN Urgent = 1 .. n
       /\ \A r \in 1 .. n : Urgent[r] = held[place[r]]
  <2>1. Urgent = [r \in 1 .. n |-> held[place[r]]]
    BY <1>5, <1>6
  <2> QED
    BY <1>6, <1>9, <2>1
<1>11. ASSUME NEW q \in 1 .. n, NEW r \in 1 .. n, place[q] = place[r] PROVE q = r
  <2>1. q \in DOMAIN place /\ r \in DOMAIN place /\ q \in Nat /\ r \in Nat /\ place[q] \in S
    BY <1>6, <1>7, <1>9
  <2>2. <<place[q], place[r]>> \notin Sooner /\ <<place[r], place[q]>> \notin Sooner
    BY <1>3, <1>11, <2>1 DEF StrictlyOrders
  <2>3. ~(q < r) /\ ~(r < q)
    BY <1>4, <2>1, <2>2
  <2> QED
    BY <2>1, <2>3
<1>12. 1 .. n \subseteq DOMAIN place
  BY <1>9
<1>13. /\ place \in Seq(DOMAIN held) /\ DOMAIN Urgent \subseteq DOMAIN place
       /\ \A q, r \in DOMAIN Urgent : place[q] = place[r] => q = r
       /\ \A r \in DOMAIN Urgent : Urgent[r] = held[place[r]]
  BY <1>4, <1>10, <1>11, <1>12
<1> QED
  BY <1>6, <1>10, <1>13

Hearings == [notice : Notices, late : BOOLEAN, when : 0 .. MaxClock, life : 0 .. MaxClock]

\* The user is told more, now.
TellsNow(more) ==
  /\ more \in Seq(Hearings)
  /\ \A i \in DOMAIN more : more[i].when = clock /\ more[i].life = life
  /\ clock' = clock /\ life' = life /\ heard' = heard \o more
  /\ delivered' = LastOf(delivered \o [i \in DOMAIN more |-> clock], DeliveredSize)

\* More that the user is told now is more that the deque ends with.
LEMMA HeardGrows ==
  ASSUME GateTypeOK, TimesGrow, DeliveredIsTheLast, NEW more, TellsNow(more)
  PROVE  /\ heard' \in Seq(Hearings) /\ Len(heard') = Len(heard) + Len(more)
         /\ delivered' \in Seq(0 .. MaxClock) /\ Len(delivered') <= DeliveredSize
         /\ TimesGrow' /\ DeliveredIsTheLast'
         /\ \A j \in 1 .. Len(heard) : heard'[j] = heard[j]
         /\ \A i \in 1 .. Len(more) : heard'[Len(heard) + i] = more[i]
<1> DEFINE Times == 0 .. MaxClock
           now == [i \in DOMAIN more |-> clock]
           all == delivered \o now
<1>0. clock' = clock /\ life' = life
      /\ \A i \in DOMAIN more : more[i].when = clock /\ more[i].life = life
  BY DEF TellsNow
<1>1. /\ heard \in Seq(Hearings) /\ Len(heard) \in Nat /\ DOMAIN heard = 1 .. Len(heard)
      /\ more \in Seq(Hearings)
      /\ delivered \in Seq(Times) /\ Len(delivered) \in Nat
      /\ DOMAIN delivered = 1 .. Len(delivered)
      /\ Len(more) \in Nat /\ DOMAIN more = 1 .. Len(more)
      /\ clock \in Times /\ clock \in Nat /\ life \in Nat /\ DeliveredSize \in Nat
  BY GateAssumption DEF GateTypeOK, Hearings, TellsNow
<1>2. \A j \in DOMAIN heard : heard[j].when \in Nat
  <2>1. \A j \in DOMAIN heard : heard[j] \in Hearings
    BY <1>1
  <2> QED
    BY <2>1, GateAssumption DEF Hearings
<1>3. /\ heard' \in Seq(Hearings) /\ Len(heard') = Len(heard) + Len(more)
      /\ DOMAIN heard' = 1 .. (Len(heard) + Len(more))
      /\ \A j \in 1 .. Len(heard) : heard'[j] = heard[j]
      /\ \A i \in 1 .. Len(more) : heard'[Len(heard) + i] = more[i]
  <2>1. heard' = heard \o more
    BY DEF TellsNow
  <2> QED
    BY <1>1, <2>1
<1>4. \A j \in DOMAIN heard' :
        /\ heard'[j].when \in Nat /\ heard'[j].when <= clock /\ heard'[j].life <= life
        /\ j \notin 1 .. Len(heard) => heard'[j].when = clock
  <2>1. ASSUME NEW j \in DOMAIN heard', j \notin 1 .. Len(heard)
        PROVE  heard'[j].when = clock /\ heard'[j].life <= life
    <3>1. j - Len(heard) \in 1 .. Len(more) /\ Len(heard) + (j - Len(heard)) = j
      BY <1>1, <1>3, <2>1
    <3> QED
      BY <1>0, <1>1, <1>3, <3>1
  <2>2. ASSUME NEW j \in 1 .. Len(heard)
        PROVE  heard'[j].when \in Nat /\ heard'[j].when <= clock /\ heard'[j].life <= life
    BY <1>1, <1>2, <1>3, <2>2 DEF TimesGrow, Told
  <2> QED
    BY <1>1, <2>1, <2>2
<1>5. TimesGrow'
  <2>1. ASSUME NEW i \in DOMAIN heard', NEW j \in DOMAIN heard', i <= j
        PROVE  heard'[i].when <= heard'[j].when
    <3>1. CASE j \in 1 .. Len(heard)
      <4>1. i \in 1 .. Len(heard)
        BY <1>1, <1>3, <2>1, <3>1
      <4> QED
        BY <1>1, <1>3, <2>1, <3>1, <4>1 DEF TimesGrow, Told
    <3>2. CASE j \notin 1 .. Len(heard)
      <4>1. heard'[j].when = clock /\ heard'[i].when <= clock
        BY <1>4, <3>2
      <4> QED
        BY <4>1
    <3> QED
      BY <3>1, <3>2
  <2>2. \A j \in DOMAIN heard' : heard'[j].when <= clock' /\ heard'[j].life <= life'
    BY <1>0, <1>4
  <2> QED
    BY <2>1, <2>2 DEF TimesGrow, Told
<1>11. delivered' = LastOf(all, DeliveredSize)
  BY DEF TellsNow
<1>6. /\ all \in Seq(Times) /\ Len(all) = Len(delivered) + Len(more)
      /\ \A i \in 1 .. Len(delivered) : all[i] = delivered[i]
      /\ \A i \in 1 .. Len(all) : i \notin 1 .. Len(delivered) => all[i] = clock
  <2> HIDE DEF Times
  <2>1. now \in Seq(Times) /\ Len(now) = Len(more) /\ \A i \in 1 .. Len(more) : now[i] = clock
    BY <1>1
  <2> HIDE DEF now
  <2>2. /\ all \in Seq(Times) /\ Len(all) = Len(delivered) + Len(more)
        /\ \A i \in 1 .. Len(delivered) : all[i] = delivered[i]
    <3>1. delivered \in Seq(Times) /\ now \in Seq(Times)
      BY <1>1, <2>1
    <3>2. /\ all \in Seq(Times) /\ Len(all) = Len(delivered) + Len(now)
          /\ \A i \in 1 .. Len(delivered) : all[i] = delivered[i]
      BY <3>1
    <3> QED
      BY <2>1, <3>2
  <2>3. ASSUME NEW i \in 1 .. Len(all), i \notin 1 .. Len(delivered) PROVE all[i] = clock
    <3>1. i - Len(delivered) \in 1 .. Len(now) /\ all[i] = now[i - Len(delivered)]
      BY <1>1, <2>1, <2>2, <2>3
    <3> QED
      BY <2>1, <3>1
  <2> QED
    BY <2>2, <2>3
<1> HIDE DEF all, Times
<1>7. /\ delivered' \in Seq(Times)
      /\ Len(delivered') = IF Len(all) > DeliveredSize THEN DeliveredSize ELSE Len(all)
      /\ \A i \in 1 .. Len(delivered') : /\ Len(all) - Len(delivered') + i \in 1 .. Len(all)
                                         /\ delivered'[i] = all[Len(all) - Len(delivered') + i]
  BY <1>1, <1>6, <1>11, TheLastOnes
<1>8. /\ Len(delivered') \in Nat /\ Len(delivered') <= DeliveredSize
      /\ Len(delivered') <= Len(heard')
      /\ Len(delivered') < DeliveredSize =>
           Len(delivered) < DeliveredSize /\ Len(heard') - Len(delivered') = Before
  <2>1. Len(delivered) <= Len(heard)
    BY DEF DeliveredIsTheLast
  <2>2. Len(all) = Len(delivered) + Len(more) /\ Len(heard') = Len(heard) + Len(more)
        /\ Len(delivered') = IF Len(all) > DeliveredSize THEN DeliveredSize ELSE Len(all)
    BY <1>3, <1>6, <1>7
  <2> QED
    BY <1>1, <2>1, <2>2 DEF Before
<1>9. ASSUME NEW i \in 1 .. Len(delivered')
      PROVE  delivered'[i] = heard'[Len(heard') - Len(delivered') + i].when
  <2> DEFINE k == Len(all) - Len(delivered') + i
             h == Len(heard') - Len(delivered') + i
  <2>1. k \in 1 .. Len(all) /\ delivered'[i] = all[k]
    BY <1>7
  <2>2. h \in 1 .. Len(heard') /\ h - Len(heard) = k - Len(delivered)
    BY <1>1, <1>3, <1>6, <1>7, <1>8, <2>1
  <2> HIDE DEF k, h
  <2>3. CASE k \in 1 .. Len(delivered)
    <3>1. h = Len(heard) - Len(delivered) + k /\ h \in 1 .. Len(heard)
      <4>1. h \in Nat /\ h >= 1 /\ k \in Nat /\ k <= Len(delivered)
            /\ Len(heard) \in Nat /\ Len(delivered) \in Nat
        BY <1>1, <1>3, <2>2, <2>3
      <4> QED
        BY <2>2, <4>1
    <3>2. all[k] = heard[h].when
      BY <1>1, <1>6, <2>3, <3>1 DEF DeliveredIsTheLast, Told, Before
    <3> QED
      BY <1>3, <2>1, <3>1, <3>2 DEF h
  <2>4. CASE k \notin 1 .. Len(delivered)
    <3>1. h \in DOMAIN heard' /\ h \notin 1 .. Len(heard)
      BY <1>1, <1>3, <2>1, <2>2, <2>4
    <3> QED
      BY <1>4, <1>6, <2>1, <2>4, <3>1 DEF h
  <2> QED
    BY <2>3, <2>4
<1>10. DeliveredIsTheLast'
  <2>1. DOMAIN delivered' = 1 .. Len(delivered')
    BY <1>7
  <2>2. ASSUME Len(delivered') < DeliveredSize, NEW j \in 1 .. (Len(heard') - Len(delivered'))
        PROVE  heard'[j].life # life'
    <3>1. j \in 1 .. Before /\ j \in 1 .. Len(heard) /\ Len(delivered) < DeliveredSize
      BY <1>1, <1>8, <2>2 DEF Before, DeliveredIsTheLast
    <3> QED
      BY <1>0, <1>3, <3>1 DEF DeliveredIsTheLast
  <2> QED
    BY <1>8, <1>9, <2>1, <2>2 DEF DeliveredIsTheLast, Told, Before
<1> QED
  BY <1>3, <1>5, <1>7, <1>8, <1>10 DEF Times

Recently(h, j) == {i \in 1 .. j : h[i].when + Hour >= h[j].when /\ h[i].life = h[j].life}

\* What the deque counts is what this life told within the hour, as long as there
\* is room in it for as many as the limit.
LEMMA FewWithinTheHour ==
  ASSUME GateTypeOK, TimesGrow, DeliveredIsTheLast, Cap \in 1 .. DeliveredSize,
         ~OverRateLimit(clock)
  PROVE  LET A == {i \in DOMAIN heard : heard[i].when + Hour >= clock /\ heard[i].life = life} IN
         IsFiniteSet(A) /\ Cardinality(A) \in Nat /\ Cardinality(A) < Cap
<1> DEFINE A == {i \in DOMAIN heard : heard[i].when + Hour >= clock /\ heard[i].life = life}
           B == {i \in DOMAIN delivered : delivered[i] + Hour >= clock}
           off == Len(heard) - Len(delivered)
<1>1. /\ heard \in Seq(Hearings) /\ Len(heard) \in Nat /\ DOMAIN heard = 1 .. Len(heard)
      /\ Len(delivered) \in Nat /\ DOMAIN delivered = 1 .. Len(delivered)
      /\ clock \in Nat /\ DeliveredSize \in Nat /\ Hour \in Nat /\ Cap \in Nat /\ MaxClock \in Nat
  BY GateAssumption DEF GateTypeOK, Hearings
<1>2. \A j \in DOMAIN heard : heard[j].when \in Nat
  <2>1. \A j \in DOMAIN heard : heard[j] \in Hearings
    BY <1>1
  <2> QED
    BY <2>1, <1>1 DEF Hearings
<1>3. IsFiniteSet(1 .. Len(heard)) /\ IsFiniteSet(1 .. Len(delivered))
  BY <1>1, FS_Interval
<1>4. IsFiniteSet(A) /\ IsFiniteSet(B)
  BY <1>1, <1>3, FS_Subset
<1>5. Cardinality(A) \in Nat /\ Cardinality(B) \in Nat
  BY <1>4, FS_CardinalityType
<1>6. Cardinality(B) < Cap
  BY <1>1, <1>5 DEF OverRateLimit
<1>7. off \in Nat /\ \A i \in DOMAIN delivered : /\ off + i \in DOMAIN heard
                                                 /\ delivered[i] = heard[off + i].when
  BY <1>1 DEF DeliveredIsTheLast, Told, Before
<1> HIDE DEF off
<1>8. ASSUME NEW a \in A, a <= off PROVE FALSE
  <2>0. a \in Nat /\ a >= 1
    BY <1>1
  <2>1. Len(delivered) = DeliveredSize
    <3>1. a \in 1 .. Before /\ heard[a].life = life
      BY <1>7, <1>8, <2>0 DEF Before, off
    <3>2. ~(Len(delivered) < DeliveredSize)
      BY <3>1 DEF DeliveredIsTheLast
    <3>3. Len(delivered) <= DeliveredSize
      BY DEF GateTypeOK
    <3>4. Len(delivered) \in Nat /\ DeliveredSize \in Nat
      BY <1>1
    <3> HIDE DEF A, B
    <3> QED
      BY <3>2, <3>3, <3>4
  <2>2. ASSUME NEW i \in DOMAIN delivered PROVE i \in B
    <3>1. a <= off + i /\ off + i \in DOMAIN heard /\ a \in DOMAIN heard
      <4>1. i \in Nat /\ off \in Nat /\ off + i \in DOMAIN heard /\ a \in DOMAIN heard
        BY <1>1, <1>7
      <4> QED
        BY <1>8, <2>0, <4>1
    <3>2. heard[a].when <= heard[off + i].when
      BY <3>1 DEF TimesGrow, Told
    <3> QED
      BY <1>1, <1>2, <1>7, <3>1, <3>2
  <2>3. B = 1 .. DeliveredSize
    BY <1>1, <2>1, <2>2
  <2>4. Cardinality(B) = DeliveredSize
    <3>1. Cardinality(1 .. DeliveredSize) = DeliveredSize
      BY <1>1, FS_Interval
    <3> QED
      BY <2>3, <3>1
  <2> HIDE DEF B
  <2> QED
    BY <1>1, <1>6, <2>4
<1>9. ASSUME NEW a \in A PROVE a - off \in B
  <2>1. a \in 1 .. Len(heard) /\ a > off
    BY <1>1, <1>7, <1>8
  <2>2. a - off \in DOMAIN delivered /\ off + (a - off) = a
    BY <1>1, <1>7, <2>1 DEF off
  <2> QED
    BY <1>7, <2>2
<1> DEFINE f == [a \in A |-> a - off]
<1>10. f \in [A -> B]
  BY <1>9
<1>11. ASSUME NEW a \in A, NEW b \in A, f[a] = f[b] PROVE a = b
  BY <1>1, <1>7, <1>11
<1>12. f \in Injection(A, B)
  BY <1>10, <1>11 DEF Injection, IsInjective
<1>13. Cardinality(A) <= Cardinality(B)
  BY <1>4, <1>12, FS_Injection
<1> QED
  BY <1>1, <1>4, <1>5, <1>6, <1>13

\* What is told now leaves the limit kept, if it is late or critical or if it is
\* one notice and the hour is not full.
LEMMA LimitKept ==
  ASSUME LimitInv, NEW more, TellsNow(more),
         \A i \in DOMAIN more :
           \/ more[i].late \/ more[i].notice.importance >= Critical
           \/ Len(more) = 1 /\ ~OverRateLimit(clock)
  PROVE  WithinTheLimit'
<1>1. /\ heard' \in Seq(Hearings) /\ Len(heard') = Len(heard) + Len(more)
      /\ \A j \in 1 .. Len(heard) : heard'[j] = heard[j]
      /\ \A i \in 1 .. Len(more) : heard'[Len(heard) + i] = more[i]
      /\ TimesGrow' /\ clock' = clock /\ life' = life
  BY HeardGrows DEF LimitInv, TellsNow
<1>2. /\ Len(heard) \in Nat /\ Len(more) \in Nat /\ DOMAIN more = 1 .. Len(more)
      /\ DOMAIN heard = 1 .. Len(heard) /\ DOMAIN heard' = 1 .. (Len(heard) + Len(more))
      /\ Len(heard') \in Nat /\ more \in Seq(Hearings)
  BY <1>1 DEF LimitInv, GateTypeOK, TellsNow
<1>3. SUFFICES ASSUME NEW j \in 1 .. (Len(heard) + Len(more)), Cap \in 1 .. DeliveredSize,
                      ~heard'[j].late, heard'[j].notice.importance < Critical
               PROVE  Cardinality(Recently(heard', j)) <= Cap
  BY <1>2 DEF WithinTheLimit, Recently
<1>4. CASE j \in 1 .. Len(heard)
  <2>1. heard'[j] = heard[j] /\ \A i \in 1 .. j : heard'[i] = heard[i]
    BY <1>1, <1>2, <1>4
  <2>2. Recently(heard', j) = Recently(heard, j)
    BY <2>1 DEF Recently
  <2>3. Cardinality(Recently(heard, j)) <= Cap
    BY <1>2, <1>3, <1>4, <2>1 DEF LimitInv, WithinTheLimit, Recently
  <2> QED
    BY <2>2, <2>3
<1>5. CASE j \notin 1 .. Len(heard)
  <2> DEFINE A == {i \in DOMAIN heard : heard[i].when + Hour >= clock /\ heard[i].life = life}
  <2>1. j - Len(heard) \in 1 .. Len(more) /\ Len(heard) + (j - Len(heard)) = j
    BY <1>2, <1>5
  <2>2. heard'[j] = more[j - Len(heard)]
    BY <1>1, <2>1
  <2>3. heard'[j].when = clock /\ heard'[j].life = life
    BY <1>2, <2>1, <2>2 DEF TellsNow
  <2>4. more[j - Len(heard)] \in Hearings
    BY <1>2, <2>1
  <2>5. heard'[j].notice.importance \in Nat
    BY <2>2, <2>4 DEF Hearings, Notices, Importances
  <2>6. Len(more) = 1 /\ ~OverRateLimit(clock)
    BY <1>2, <1>3, <2>1, <2>2, <2>5 DEF Critical
  <2>7. j = Len(heard) + 1
    BY <1>2, <1>5, <2>6
  <2>8. Recently(heard', j) \subseteq A \cup {j}
    BY <1>1, <1>2, <2>3, <2>7 DEF Recently
  <2>9. IsFiniteSet(A) /\ Cardinality(A) \in Nat /\ Cardinality(A) < Cap
    BY <1>3, <2>6, FewWithinTheHour DEF LimitInv
  <2>10. /\ IsFiniteSet(A \cup {j})
         /\ Cardinality(A \cup {j}) = IF j \in A THEN Cardinality(A) ELSE Cardinality(A) + 1
    BY <2>9, FS_AddElement
  <2> HIDE DEF A
  <2>11. IsFiniteSet(Recently(heard', j)) /\ Cardinality(Recently(heard', j)) \in Nat
         /\ Cardinality(Recently(heard', j)) <= Cardinality(A \cup {j})
    BY <2>8, <2>10, FS_Subset, FS_CardinalityType
  <2>12. Cap \in Nat
    BY GateAssumption
  <2> QED
    BY <2>9, <2>10, <2>11, <2>12
<1> QED
  BY <1>4, <1>5

\* Telling nothing, while time may pass, changes none of it.
LEMMA LimitStays ==
  ASSUME LimitInv, GateTypeOK', UNCHANGED <<life, heard, delivered>>,
         clock' \in {clock, clock + 1}
  PROVE  LimitInv'
<1>1. clock \in Nat /\ clock' \in Nat /\ clock <= clock'
  BY GateAssumption DEF LimitInv, GateTypeOK
<1>2. heard \in Seq(Hearings)
  BY DEF LimitInv, GateTypeOK, Hearings
<1>3. \A j \in DOMAIN heard : Told(j) \in Nat /\ Told(j)' = Told(j)
  <2>1. \A j \in DOMAIN heard : heard[j] \in Hearings
    BY <1>2
  <2> QED
    BY <2>1, GateAssumption DEF Hearings, Told
<1>4. TimesGrow'
  BY <1>1, <1>3 DEF LimitInv, TimesGrow
<1>5. DeliveredIsTheLast'
  BY DEF LimitInv, DeliveredIsTheLast, Told, Before
<1>6. WithinTheLimit'
  BY DEF LimitInv, WithinTheLimit
<1> QED
  BY <1>4, <1>5, <1>6 DEF LimitInv

LEMMA LimitInitial == GateInit => LimitInv
<1> SUFFICES ASSUME GateInit PROVE LimitInv
  OBVIOUS
<1>1. GateTypeOK
  <2>1. /\ clock = 0 /\ recent = <<>> /\ delivered = <<>> /\ held = <<>>
        /\ pump = "running" /\ life = 0 /\ raised = <<>> /\ heard = <<>>
        /\ dropped = {} /\ lost = {}
    BY DEF GateInit
  <2>2. night \in BOOLEAN /\ gaming \in BOOLEAN
    BY Zenon DEF GateInit
  <2>3. 0 \in 0 .. MaxClock /\ RecentSize \in Nat /\ DeliveredSize \in Nat
    BY GateAssumption
  <2> QED
    BY <2>1, <2>2, <2>3 DEF GateTypeOK
<1>2. TimesGrow /\ WithinTheLimit
  BY DEF GateInit, TimesGrow, WithinTheLimit
<1>3. DeliveredIsTheLast
  BY GateAssumption DEF GateInit, DeliveredIsTheLast, Before
<1> QED
  BY <1>1, <1>2, <1>3 DEF LimitInv

\* A notice judged now: remembered or not, delivered or held or neither.
LEMMA LimitConsidered ==
  ASSUME LimitInv, NEW m \in Messages, NEW k \in Importances, NEW n,
         n = [message |-> m, importance |-> k, at |-> clock], Consider(n)
  PROVE  LimitInv'
<1> DEFINE v == Decide(n)
           hearing == Hearing(n, FALSE)
<1>1. GateTypeOK /\ n \in Notices /\ n.at = clock /\ hearing \in Hearings
      /\ hearing.when = clock /\ hearing.life = life
      /\ n.importance \in Nat /\ clock \in 0 .. MaxClock
  BY GateAssumption DEF LimitInv, GateTypeOK, Notices, Hearings, Importances, Hearing
<1>2. v \in Verdicts /\ (v = "deliver" => n.importance >= Critical \/ ~OverRateLimit(clock))
  BY <1>1 DEF Decide, Verdicts
<1>3. /\ recent' = IF Remembers(v) THEN LastOf(Append(recent, n), RecentSize) ELSE recent
      /\ raised' = Append(raised, [notice |-> n, verdict |-> v])
      /\ held' = IF v = "hold" THEN Append(held, n) ELSE held
      /\ UNCHANGED <<clock, night, gaming, pump, life, dropped, lost>>
      /\ v = "deliver" => /\ delivered' = LastOf(Append(delivered, clock), DeliveredSize)
                          /\ heard' = Append(heard, hearing)
      /\ v # "deliver" => UNCHANGED <<heard, delivered>>
  BY <1>1 DEF Consider, Push
<1> HIDE DEF v, hearing
<1>4. recent' \in Seq(Notices) /\ Len(recent') <= RecentSize
  <2>1. recent \in Seq(Notices) /\ Len(recent) <= RecentSize /\ RecentSize \in Nat
    BY <1>1, GateAssumption DEF GateTypeOK
  <2>2. Append(recent, n) \in Seq(Notices)
    BY <1>1, <2>1
  <2>3. LET last == LastOf(Append(recent, n), RecentSize) IN
        last \in Seq(Notices)
        /\ Len(last) = IF Len(Append(recent, n)) > RecentSize THEN RecentSize
                       ELSE Len(Append(recent, n))
    BY <2>1, <2>2, TheLastOnes
  <2>4. Len(Append(recent, n)) \in Nat
    BY <2>2
  <2> QED
    BY <1>3, <2>1, <2>3, <2>4
<1>5. held' \in Seq(Notices)
  BY <1>1, <1>3 DEF GateTypeOK
<1>6. raised' \in Seq([notice : Notices, verdict : Verdicts])
  BY <1>1, <1>2, <1>3 DEF GateTypeOK
<1>7. CASE v = "deliver"
  <2> DEFINE more == <<hearing>>
  <2>1. more \in Seq(Hearings) /\ Len(more) = 1 /\ DOMAIN more = 1 .. 1 /\ more[1] = hearing
    BY <1>1
  <2>2. [i \in DOMAIN more |-> clock] = <<clock>>
    BY <2>1
  <2>3. heard \o more = Append(heard, hearing) /\ delivered \o <<clock>> = Append(delivered, clock)
    BY <1>1 DEF GateTypeOK
  <2>4. TellsNow(more)
    <3>1. \A i \in DOMAIN more : more[i].when = clock /\ more[i].life = life
      BY <1>1, <2>1
    <3>2. heard' = heard \o more /\ clock' = clock /\ life' = life
      BY <1>3, <1>7, <2>3
    <3>3. delivered' = LastOf(delivered \o [i \in DOMAIN more |-> clock], DeliveredSize)
      BY <1>3, <1>7, <2>2, <2>3
    <3> HIDE DEF more
    <3> QED
      BY <2>1, <3>1, <3>2, <3>3 DEF TellsNow
  <2> HIDE DEF more
  <2>5. /\ heard' \in Seq(Hearings) /\ delivered' \in Seq(0 .. MaxClock)
        /\ Len(delivered') <= DeliveredSize /\ TimesGrow' /\ DeliveredIsTheLast'
    BY <2>4, HeardGrows DEF LimitInv
  <2>6. GateTypeOK'
    BY <1>1, <1>3, <1>4, <1>5, <1>6, <2>5 DEF GateTypeOK, Hearings
  <2>7. WithinTheLimit'
    <3>1. hearing.notice = n
      BY DEF hearing, Hearing
    <3> QED
      BY <1>1, <1>2, <1>7, <2>1, <2>4, <3>1, LimitKept
  <2> QED
    BY <2>5, <2>6, <2>7 DEF LimitInv
<1>8. CASE v # "deliver"
  <2>1. GateTypeOK'
    BY <1>1, <1>3, <1>4, <1>5, <1>6, <1>8 DEF GateTypeOK
  <2> QED
    BY <1>3, <1>8, <2>1, LimitStays
<1> QED
  BY <1>7, <1>8

\* What is released is late: it does not count against the limit it waited for.
LEMMA LimitReleased ==
  ASSUME LimitInv, Release
  PROVE  LimitInv'
<1> DEFINE more == [i \in DOMAIN Urgent |-> Hearing(Urgent[i], TRUE)]
           kept == {i \in DOMAIN held : held[i] \notin Range(Urgent)}
<1>1. GateTypeOK /\ held \in Seq(Notices) /\ clock \in 0 .. MaxClock /\ life \in 0 .. MaxClock
  BY GateAssumption DEF LimitInv, GateTypeOK
<1>2. Urgent \in Seq(Notices) /\ Len(Urgent) \in Nat /\ DOMAIN Urgent = 1 .. Len(Urgent)
  BY <1>1, UrgentIsHeld
<1>3. \A i \in 1 .. Len(Urgent) : Urgent[i] \in Notices
  BY <1>2
<1>4. /\ held' = Picked(held, kept)
      /\ heard' = heard \o more
      /\ delivered' = LastOf(delivered \o [i \in DOMAIN Urgent |-> clock], DeliveredSize)
      /\ UNCHANGED <<clock, night, gaming, recent, pump, life, raised, dropped, lost>>
  BY DEF Release, Rest
<1>5. more \in Seq(Hearings) /\ DOMAIN more = DOMAIN Urgent
      /\ \A i \in DOMAIN more : more[i].late /\ more[i].when = clock /\ more[i].life = life
  <2> DEFINE late(i) == Hearing(Urgent[i], TRUE)
  <2>1. \A i \in 1 .. Len(Urgent) :
          late(i) \in Hearings /\ late(i).late /\ late(i).when = clock /\ late(i).life = life
    BY <1>1, <1>3 DEF Hearings, Hearing
  <2>2. more = [i \in 1 .. Len(Urgent) |-> late(i)]
    BY <1>2
  <2> HIDE DEF Hearings, late, more
  <2> QED
    BY <1>2, <2>1, <2>2
<1> HIDE DEF more
<1>6. TellsNow(more)
  <2>1. [i \in DOMAIN Urgent |-> clock] = [i \in DOMAIN more |-> clock]
    BY <1>5
  <2> QED
    BY <1>4, <1>5, <2>1 DEF TellsNow
<1>7. held' \in Seq(Notices)
  <2>1. kept \in SUBSET (1 .. Len(held))
    BY <1>1
  <2> HIDE DEF kept
  <2> QED
    BY <1>1, <1>4, <2>1, PartsKeepOrder
<1>8. /\ heard' \in Seq(Hearings) /\ delivered' \in Seq(0 .. MaxClock)
      /\ Len(delivered') <= DeliveredSize /\ TimesGrow' /\ DeliveredIsTheLast'
  BY <1>6, HeardGrows DEF LimitInv
<1>9. GateTypeOK'
  BY <1>1, <1>4, <1>7, <1>8 DEF GateTypeOK, Hearings
<1>10. WithinTheLimit'
  BY <1>5, <1>6, LimitKept
<1> QED
  BY <1>8, <1>9, <1>10 DEF LimitInv

LEMMA LimitInductive == LimitInv /\ [GateNext \/ GateRestart]_gateVars => LimitInv'
<1> SUFFICES ASSUME LimitInv, [GateNext \/ GateRestart]_gateVars PROVE LimitInv'
  OBVIOUS
<1>1. GateTypeOK /\ clock \in Nat /\ MaxClock \in Nat
  BY GateAssumption DEF LimitInv, GateTypeOK
<1>2. ASSUME NEW m \in Messages, NEW k \in Importances,
             LET n == [message |-> m, importance |-> k, at |-> clock] IN
             Consider(n) \/ PumpEnds(n)
      PROVE  LimitInv'
  <2> DEFINE n == [message |-> m, importance |-> k, at |-> clock]
  <2>1. CASE Consider(n)
    BY <2>1, LimitConsidered
  <2>2. CASE PumpEnds(n)
    <3>1. GateTypeOK' /\ UNCHANGED <<life, heard, delivered, clock>>
      BY <1>1, <2>2 DEF PumpEnds, GateTypeOK
    <3> QED
      BY <3>1, LimitStays
  <2> QED
    BY <1>2, <2>1, <2>2
<1>3. CASE Release
  BY <1>3, LimitReleased
<1>4. CASE DropHeld
  <2>1. dropped' \subseteq Notices
    BY <1>1, <1>4 DEF DropHeld, ToSet, GateTypeOK
  <2>2. GateTypeOK' /\ UNCHANGED <<life, heard, delivered, clock>>
    BY <1>1, <1>4, <2>1 DEF DropHeld, GateTypeOK
  <2> QED
    BY <2>2, LimitStays
<1>5. CASE Tick
  <2>1. UNCHANGED <<night, gaming, gateOwn>> /\ clock' = clock + 1 /\ clock' \in 0 .. MaxClock
    BY <1>1, <1>5 DEF Tick
  <2>2. GateTypeOK'
    BY <1>1, <2>1 DEF GateTypeOK, gateOwn
  <2> QED
    BY <2>1, <2>2, LimitStays DEF gateOwn
<1>6. CASE Dusk
  <2>1. night' \in BOOLEAN /\ UNCHANGED <<clock, gaming, gateOwn>>
    BY <1>6, Zenon DEF Dusk
  <2>2. GateTypeOK'
    BY <1>1, <2>1 DEF GateTypeOK, gateOwn
  <2> QED
    BY <2>1, <2>2, LimitStays DEF gateOwn
<1>7. CASE SetGaming
  <2>1. gaming' \in BOOLEAN /\ UNCHANGED <<clock, night, gateOwn>>
    BY <1>7, Zenon DEF SetGaming
  <2>2. GateTypeOK'
    BY <1>1, <2>1 DEF GateTypeOK, gateOwn
  <2> QED
    BY <2>1, <2>2, LimitStays DEF gateOwn
<1>8. CASE GateRestart
  <2>1. /\ recent' = <<>> /\ delivered' = <<>> /\ held' = <<>> /\ pump' = "running"
        /\ gaming' = FALSE /\ UNCHANGED <<night, raised, heard, dropped>>
        /\ clock' = clock + 1 /\ clock' \in 0 .. MaxClock /\ life' = life + 1
        /\ lost' = lost \cup ToSet(held)
    BY <1>1, <1>8 DEF GateRestart
  <2>2. gaming' \in BOOLEAN
    BY <2>1, Zenon
  <2>3. ToSet(held) \subseteq Notices
    BY <1>1 DEF ToSet, GateTypeOK
  <2>4. GateTypeOK'
    <3>1. life \in 0 .. clock /\ lost \subseteq Notices
      BY <1>1 DEF GateTypeOK
    <3>2. life' \in 0 .. clock' /\ lost' \subseteq Notices
      BY <1>1, <2>1, <2>3, <3>1
    <3> QED
      BY <1>1, <2>1, <2>2, <3>2, GateAssumption DEF GateTypeOK
  <2>5. \A j \in DOMAIN heard : heard[j].life \in Nat /\ Told(j) \in Nat /\ Told(j)' = Told(j)
    <3>1. heard \in Seq(Hearings)
      BY <1>1 DEF GateTypeOK, Hearings
    <3>2. \A j \in DOMAIN heard : heard[j] \in Hearings
      BY <3>1
    <3> QED
      BY <1>1, <2>1, <3>2 DEF Hearings, Told
  <2>6. life \in Nat
    BY <1>1 DEF GateTypeOK
  <2>7. TimesGrow' /\ WithinTheLimit'
    BY <1>1, <2>1, <2>5, <2>6 DEF LimitInv, TimesGrow, WithinTheLimit
  <2>8. DeliveredIsTheLast'
    <3>1. Len(heard) \in Nat /\ DOMAIN heard = 1 .. Len(heard)
      BY <1>1 DEF GateTypeOK
    <3>2. Len(delivered') = 0 /\ DOMAIN delivered' = {} /\ Before' = Len(heard)
      BY <2>1, <3>1 DEF Before
    <3>3. \A j \in 1 .. Len(heard) : heard[j].life # life + 1
      BY <2>5, <2>6, <3>1 DEF LimitInv, TimesGrow
    <3> QED
      BY <2>1, <3>1, <3>2, <3>3 DEF DeliveredIsTheLast
  <2> QED
    BY <2>4, <2>7, <2>8 DEF LimitInv
<1>9. CASE UNCHANGED gateVars
  <2>1. GateTypeOK' /\ UNCHANGED <<life, heard, delivered, clock>>
    BY <1>1, <1>9 DEF gateVars, GateTypeOK
  <2> QED
    BY <2>1, LimitStays
<1> QED
  BY <1>2, <1>3, <1>4, <1>5, <1>6, <1>7, <1>8, <1>9 DEF GateNext

LEMMA LimitInvariant == GateSpec => []LimitInv
<1> QED
  BY LimitInitial, LimitInductive, PTL DEF GateSpec

\* Every variable of the gate keeps its type.
THEOREM GateTypeCorrect == GateSpec => []GateTypeOK
<1>1. LimitInv => GateTypeOK
  BY DEF LimitInv
<1> QED
  BY <1>1, LimitInvariant, PTL

\* However notices arrive, nights fall, held ones are released and the engine is
\* restarted, what one life of it tells the user without being asked stays within
\* the hourly limit, except for what is critical, as long as the deque has room
\* for that many (notifications.py:95, 149-150, 166-167).
THEOREM TheHourIsNotExceeded == GateSpec => []WithinTheLimit
<1>1. LimitInv => WithinTheLimit
  BY DEF LimitInv
<1> QED
  BY <1>1, LimitInvariant, PTL
-----------------------------------------------------------------------------
\* No two notices the gate accepted are alike to the last field.
AcceptedDiffer ==
  \A i, j \in Accepted : raised[i].notice = raised[j].notice => i = j

AcceptedNotices == {raised[i].notice : i \in Accepted}
ToldNotices == {heard[j].notice : j \in DOMAIN heard}
HeldNotices == {held[j] : j \in DOMAIN held}

\* Every accepted notice is in one place and there once.
OnePlaceEach ==
  /\ \A i, j \in DOMAIN held : held[i] = held[j] => i = j
  /\ \A i, j \in DOMAIN heard : heard[i].notice = heard[j].notice => i = j
  /\ ToldNotices \cap HeldNotices = {}
  /\ dropped \cap (ToldNotices \cup HeldNotices) = {}
  /\ lost \cap (ToldNotices \cup HeldNotices \cup dropped) = {}
  /\ AcceptedNotices = ToldNotices \cup HeldNotices \cup dropped \cup lost

\* One place each, counted.
LEMMA PlacesAreCounted ==
  ASSUME OnePlaceEach
  PROVE  OnlyRestartsLose
<1> SUFFICES ASSUME NEW i \in Accepted
             PROVE  LET n == raised[i].notice
                        spoken == {j \in DOMAIN heard : heard[j].notice = n}
                        kept == {j \in DOMAIN held : held[j] = n}
                        gone == dropped \cap {n}
                        forgotten == lost \cap {n}
                    IN  Cardinality(spoken) + Cardinality(kept) + Cardinality(gone)
                          + Cardinality(forgotten) = 1
  BY DEF OnlyRestartsLose
<1> DEFINE n == raised[i].notice
           spoken == {j \in DOMAIN heard : heard[j].notice = n}
           kept == {j \in DOMAIN held : held[j] = n}
           gone == dropped \cap {n}
           forgotten == lost \cap {n}
<1>1. n \in AcceptedNotices
  BY DEF AcceptedNotices
<1> HIDE DEF n
<1>2. /\ n \in ToldNotices => /\ \E j : spoken = {j}
                               /\ kept = {} /\ gone = {} /\ forgotten = {}
      /\ n \in HeldNotices => /\ spoken = {} /\ gone = {} /\ forgotten = {}
                               /\ \E j : kept = {j}
      /\ n \in dropped => spoken = {} /\ kept = {} /\ gone = {n} /\ forgotten = {}
      /\ n \in lost => spoken = {} /\ kept = {} /\ gone = {} /\ forgotten = {n}
  <2>1. n \in ToldNotices => \E j : spoken = {j}
    BY DEF OnePlaceEach, ToldNotices
  <2>2. n \in HeldNotices => \E j : kept = {j}
    BY DEF OnePlaceEach, HeldNotices
  <2>3. n \notin ToldNotices => spoken = {}
    BY DEF ToldNotices
  <2>4. n \notin HeldNotices => kept = {}
    BY DEF HeldNotices
  <2>5. /\ n \in ToldNotices => n \notin HeldNotices /\ n \notin dropped /\ n \notin lost
        /\ n \in HeldNotices => n \notin ToldNotices /\ n \notin dropped /\ n \notin lost
        /\ n \in dropped => n \notin ToldNotices /\ n \notin HeldNotices /\ n \notin lost
        /\ n \in lost => n \notin ToldNotices /\ n \notin HeldNotices /\ n \notin dropped
    BY DEF OnePlaceEach
  <2> QED
    BY <2>1, <2>2, <2>3, <2>4, <2>5
<1>3. n \in ToldNotices \/ n \in HeldNotices \/ n \in dropped \/ n \in lost
  BY <1>1 DEF OnePlaceEach
<1>4. Cardinality({}) = 0 /\ \A j : Cardinality({j}) = 1
  BY FS_EmptySet, FS_Singleton
<1> HIDE DEF spoken, kept, gone, forgotten
<1>5. CASE n \in ToldNotices
  <2>1. /\ Cardinality(spoken) = 1 /\ Cardinality(kept) = 0
        /\ Cardinality(gone) = 0 /\ Cardinality(forgotten) = 0
    BY <1>2, <1>4, <1>5
  <2> QED
    BY <2>1 DEF n, spoken, kept, gone, forgotten
<1>6. CASE n \in HeldNotices
  <2>1. /\ Cardinality(spoken) = 0 /\ Cardinality(kept) = 1
        /\ Cardinality(gone) = 0 /\ Cardinality(forgotten) = 0
    BY <1>2, <1>4, <1>6
  <2> QED
    BY <2>1 DEF n, spoken, kept, gone, forgotten
<1>7. CASE n \in dropped
  <2>1. /\ Cardinality(spoken) = 0 /\ Cardinality(kept) = 0
        /\ Cardinality(gone) = 1 /\ Cardinality(forgotten) = 0
    BY <1>2, <1>4, <1>7
  <2> QED
    BY <2>1 DEF n, spoken, kept, gone, forgotten
<1>8. CASE n \in lost
  <2>1. /\ Cardinality(spoken) = 0 /\ Cardinality(kept) = 0
        /\ Cardinality(gone) = 0 /\ Cardinality(forgotten) = 1
    BY <1>2, <1>4, <1>8
  <2> QED
    BY <2>1 DEF n, spoken, kept, gone, forgotten
<1> QED
  BY <1>3, <1>5, <1>6, <1>7, <1>8

LEMMA PlaceStays ==
  ASSUME OnePlaceEach, UNCHANGED <<held, raised, heard, dropped, lost>>
  PROVE  OnePlaceEach'
<1>1. /\ ToldNotices' = ToldNotices /\ HeldNotices' = HeldNotices
      /\ AcceptedNotices' = AcceptedNotices
  BY DEF AcceptedNotices, Accepted, ToldNotices, HeldNotices
<1> QED
  BY <1>1 DEF OnePlaceEach

\* A notice more is judged.
LEMMA PlaceConsidered ==
  ASSUME LimitInv, OnePlaceEach, AcceptedDiffer',
         NEW m \in Messages, NEW k \in Importances, NEW n,
         n = [message |-> m, importance |-> k, at |-> clock], Consider(n)
  PROVE  OnePlaceEach'
<1> DEFINE v == Decide(n)
           entry == [notice |-> n, verdict |-> v]
           hearing == Hearing(n, FALSE)
<1>1. GateTypeOK
  BY DEF LimitInv
<1>2. /\ raised' = Append(raised, entry)
      /\ held' = IF v = "hold" THEN Append(held, n) ELSE held
      /\ heard' = IF v = "deliver" THEN Append(heard, hearing) ELSE heard
      /\ dropped' = dropped /\ lost' = lost
  BY DEF Consider
<1> HIDE DEF v
<1>3. /\ Len(raised) \in Nat /\ DOMAIN raised = 1 .. Len(raised)
      /\ Len(held) \in Nat /\ DOMAIN held = 1 .. Len(held)
      /\ Len(heard) \in Nat /\ DOMAIN heard = 1 .. Len(heard)
  BY <1>1 DEF GateTypeOK
<1>4. /\ DOMAIN raised' = 1 .. (Len(raised) + 1)
      /\ \A i \in 1 .. Len(raised) : raised'[i] = raised[i]
      /\ raised'[Len(raised) + 1].notice = n /\ raised'[Len(raised) + 1].verdict = v
  <2>1. raised'[Len(raised) + 1] = entry
    BY <1>1, <1>2, <1>3 DEF GateTypeOK
  <2>2. DOMAIN raised' = 1 .. (Len(raised) + 1)
        /\ \A i \in 1 .. Len(raised) : raised'[i] = raised[i]
    BY <1>1, <1>2, <1>3 DEF GateTypeOK
  <2> QED
    BY <2>1, <2>2
<1>5. /\ Accepted \subseteq 1 .. Len(raised)
      /\ Accepted' = IF v \in {"deliver", "hold"} THEN Accepted \cup {Len(raised) + 1} ELSE Accepted
  BY <1>3, <1>4 DEF Accepted
<1>6. /\ \A i \in Accepted : raised'[i] = raised[i]
      /\ v \in {"deliver", "hold"} => n \notin AcceptedNotices
      /\ AcceptedNotices' = IF v \in {"deliver", "hold"} THEN AcceptedNotices \cup {n}
                            ELSE AcceptedNotices
  <2>1. \A i \in Accepted : i \in 1 .. Len(raised) /\ i # Len(raised) + 1
    BY <1>3, <1>5
  <2>2. \A i \in Accepted : raised'[i] = raised[i]
    BY <1>4, <2>1
  <2>3. ASSUME v \in {"deliver", "hold"}, n \in AcceptedNotices PROVE FALSE
    <3>1. PICK i \in Accepted : raised[i].notice = n
      BY <2>3 DEF AcceptedNotices
    <3>2. i \in Accepted' /\ Len(raised) + 1 \in Accepted'
          /\ raised'[i].notice = raised'[Len(raised) + 1].notice
      BY <1>4, <1>5, <2>2, <2>3, <3>1
    <3> QED
      BY <2>1, <3>2 DEF AcceptedDiffer
  <2>4. AcceptedNotices' = IF v \in {"deliver", "hold"} THEN AcceptedNotices \cup {n}
                           ELSE AcceptedNotices
    BY <1>4, <1>5, <2>2 DEF AcceptedNotices
  <2> QED
    BY <2>2, <2>3, <2>4
<1>7. CASE v = "deliver"
  <2>1. /\ DOMAIN heard' = 1 .. (Len(heard) + 1)
        /\ \A j \in 1 .. Len(heard) : heard'[j] = heard[j]
        /\ heard'[Len(heard) + 1].notice = n
    <3>1. heard' = Append(heard, hearing)
      BY <1>2, <1>7
    <3>2. hearing.notice = n
      BY DEF Hearing
    <3> HIDE DEF hearing
    <3>3. heard'[Len(heard) + 1] = hearing
      BY <1>1, <1>3, <3>1 DEF GateTypeOK
    <3>4. DOMAIN heard' = 1 .. (Len(heard) + 1) /\ \A j \in 1 .. Len(heard) : heard'[j] = heard[j]
      BY <1>1, <1>3, <3>1 DEF GateTypeOK
    <3> QED
      BY <3>2, <3>3, <3>4
  <2>2. ToldNotices' = ToldNotices \cup {n}
    <3>1. 1 .. (Len(heard) + 1) = (1 .. Len(heard)) \cup {Len(heard) + 1}
      BY <1>3
    <3> QED
      BY <1>3, <2>1, <3>1 DEF ToldNotices
  <2>3. held' = held /\ HeldNotices' = HeldNotices
    BY <1>2, <1>7 DEF HeldNotices
  <2>4. n \notin AcceptedNotices /\ AcceptedNotices' = AcceptedNotices \cup {n}
    BY <1>6, <1>7
  <2>5. ASSUME NEW i \in DOMAIN heard', NEW j \in DOMAIN heard', heard'[i].notice = heard'[j].notice
        PROVE  i = j
    <3>1. \A h \in 1 .. Len(heard) : heard[h].notice \in AcceptedNotices
      BY <1>3 DEF OnePlaceEach, ToldNotices
    <3>2. \A h \in DOMAIN heard' : h \in 1 .. Len(heard) \/ h = Len(heard) + 1
      BY <1>3, <2>1
    <3>3. CASE i \in 1 .. Len(heard) /\ j \in 1 .. Len(heard)
      BY <1>3, <2>1, <2>5, <3>3 DEF OnePlaceEach
    <3> QED
      BY <2>1, <2>4, <2>5, <3>1, <3>2, <3>3
  <2>6. /\ ToldNotices' \cap HeldNotices' = {}
        /\ dropped' \cap (ToldNotices' \cup HeldNotices') = {}
        /\ lost' \cap (ToldNotices' \cup HeldNotices' \cup dropped') = {}
        /\ AcceptedNotices' = ToldNotices' \cup HeldNotices' \cup dropped' \cup lost'
    BY <1>2, <2>2, <2>3, <2>4 DEF OnePlaceEach
  <2>7. \A i, j \in DOMAIN held' : held'[i] = held'[j] => i = j
    BY <2>3 DEF OnePlaceEach
  <2> QED
    BY <2>5, <2>6, <2>7 DEF OnePlaceEach
<1>8. CASE v = "hold"
  <2>1. /\ DOMAIN held' = 1 .. (Len(held) + 1)
        /\ \A j \in 1 .. Len(held) : held'[j] = held[j]
        /\ held'[Len(held) + 1] = n
    BY <1>1, <1>2, <1>3, <1>8 DEF GateTypeOK
  <2>2. HeldNotices' = HeldNotices \cup {n}
    <3>1. 1 .. (Len(held) + 1) = (1 .. Len(held)) \cup {Len(held) + 1}
      BY <1>3
    <3> QED
      BY <1>3, <2>1, <3>1 DEF HeldNotices
  <2>3. heard' = heard /\ ToldNotices' = ToldNotices
    BY <1>2, <1>8 DEF ToldNotices
  <2>4. n \notin AcceptedNotices /\ AcceptedNotices' = AcceptedNotices \cup {n}
    BY <1>6, <1>8
  <2>5. ASSUME NEW i \in DOMAIN held', NEW j \in DOMAIN held', held'[i] = held'[j]
        PROVE  i = j
    <3>1. \A h \in 1 .. Len(held) : held[h] \in AcceptedNotices
      BY <1>3 DEF OnePlaceEach, HeldNotices
    <3>2. \A h \in DOMAIN held' : h \in 1 .. Len(held) \/ h = Len(held) + 1
      BY <1>3, <2>1
    <3>3. CASE i \in 1 .. Len(held) /\ j \in 1 .. Len(held)
      BY <1>3, <2>1, <2>5, <3>3 DEF OnePlaceEach
    <3> QED
      BY <2>1, <2>4, <2>5, <3>1, <3>2, <3>3
  <2>6. /\ ToldNotices' \cap HeldNotices' = {}
        /\ dropped' \cap (ToldNotices' \cup HeldNotices') = {}
        /\ lost' \cap (ToldNotices' \cup HeldNotices' \cup dropped') = {}
        /\ AcceptedNotices' = ToldNotices' \cup HeldNotices' \cup dropped' \cup lost'
    BY <1>2, <2>2, <2>3, <2>4 DEF OnePlaceEach
  <2>7. \A i, j \in DOMAIN heard' : heard'[i].notice = heard'[j].notice => i = j
    BY <2>3 DEF OnePlaceEach
  <2> QED
    BY <2>5, <2>6, <2>7 DEF OnePlaceEach
<1>9. CASE v \notin {"deliver", "hold"}
  <2>1. UNCHANGED <<held, heard, dropped, lost>> /\ AcceptedNotices' = AcceptedNotices
    BY <1>2, <1>6, <1>9
  <2> QED
    BY <2>1 DEF OnePlaceEach, ToldNotices, HeldNotices
<1> QED
  BY <1>7, <1>8, <1>9

\* What is released was held, and is held no more.
LEMMA PlaceReleased ==
  ASSUME LimitInv, OnePlaceEach, Release
  PROVE  OnePlaceEach'
<1> DEFINE more == [i \in DOMAIN Urgent |-> Hearing(Urgent[i], TRUE)]
           kept == {i \in DOMAIN held : held[i] \notin Range(Urgent)}
           out == {Urgent[r] : r \in DOMAIN Urgent}
<1>1. GateTypeOK /\ held \in Seq(Notices) /\ Len(held) \in Nat /\ DOMAIN held = 1 .. Len(held)
      /\ Len(heard) \in Nat /\ DOMAIN heard = 1 .. Len(heard)
      /\ clock \in 0 .. MaxClock /\ life \in 0 .. MaxClock /\ heard \in Seq(Hearings)
  BY GateAssumption DEF LimitInv, GateTypeOK, Hearings
<1>2. Urgent \in Seq(Notices) /\ Len(Urgent) \in Nat /\ DOMAIN Urgent = 1 .. Len(Urgent)
  BY <1>1, UrgentIsHeld
<1>3. PICK place \in Seq(DOMAIN held) :
        /\ DOMAIN Urgent \subseteq DOMAIN place
        /\ \A q, r \in DOMAIN Urgent : place[q] = place[r] => q = r
        /\ \A r \in DOMAIN Urgent : Urgent[r] = held[place[r]]
  BY <1>1, UrgentIsHeld
<1>4. \A r \in DOMAIN Urgent : place[r] \in DOMAIN held
  BY <1>3
<1>5. /\ \A q, r \in DOMAIN Urgent : Urgent[q] = Urgent[r] => q = r
      /\ out \subseteq HeldNotices
  BY <1>3, <1>4 DEF OnePlaceEach, HeldNotices
<1>6. Range(Urgent) = out
  BY DEF Range
<1>7. /\ held' = Picked(held, kept) /\ heard' = heard \o more
      /\ dropped' = dropped /\ lost' = lost /\ raised' = raised
  BY DEF Release, Rest
<1>8. /\ \A i, j \in DOMAIN held' : held'[i] = held'[j] => i = j
      /\ HeldNotices' = HeldNotices \ out
  <2> DEFINE p == Ascending(kept)
  <2>1. kept \in SUBSET (1 .. Len(held))
    BY <1>1
  <2>2. \A i \in kept : i \in DOMAIN held /\ held[i] \notin out
    BY <1>6
  <2>3. \A i \in DOMAIN held : held[i] \notin out => i \in kept
    BY <1>6
  <2> HIDE DEF kept
  <2>4. /\ held' \in Seq(Notices) /\ Len(held') = Len(p) /\ p \in Seq(kept)
        /\ \A q, r \in DOMAIN p : q < r <=> p[q] < p[r]
        /\ \A i \in kept : \E r \in DOMAIN p : p[r] = i
        /\ \A r \in DOMAIN p : held'[r] = held[p[r]]
    BY <1>1, <1>7, <2>1, PartsKeepOrder
  <2> HIDE DEF p
  <2>5. DOMAIN held' = DOMAIN p /\ DOMAIN p = 1 .. Len(p) /\ Len(p) \in Nat
    BY <2>4
  <2>6. \A r \in DOMAIN p : p[r] \in kept
    BY <2>4
  <2>7. ASSUME NEW i \in DOMAIN held', NEW j \in DOMAIN held', held'[i] = held'[j] PROVE i = j
    <3>1. held[p[i]] = held[p[j]] /\ p[i] \in DOMAIN held /\ p[j] \in DOMAIN held
      BY <2>2, <2>4, <2>5, <2>6, <2>7
    <3>2. p[i] = p[j]
      BY <3>1 DEF OnePlaceEach
    <3>3. i \in Nat /\ j \in Nat /\ p[i] \in Nat /\ p[j] \in Nat /\ ~(p[i] < p[j]) /\ ~(p[j] < p[i])
      BY <1>1, <2>5, <3>1, <3>2
    <3>4. ~(i < j) /\ ~(j < i)
      BY <2>4, <2>5, <3>3
    <3> QED
      BY <3>3, <3>4
  <2>8. HeldNotices' \subseteq HeldNotices \ out
    BY <2>2, <2>4, <2>5, <2>6 DEF HeldNotices
  <2>9. HeldNotices \ out \subseteq HeldNotices'
    <3> SUFFICES ASSUME NEW i \in DOMAIN held, held[i] \notin out PROVE held[i] \in HeldNotices'
      BY DEF HeldNotices
    <3>1. PICK r \in DOMAIN p : p[r] = i
      BY <2>3, <2>4
    <3> QED
      BY <2>4, <2>5, <3>1 DEF HeldNotices
  <2> QED
    BY <2>7, <2>8, <2>9
<1>9. /\ \A i, j \in DOMAIN heard' : heard'[i].notice = heard'[j].notice => i = j
      /\ ToldNotices' = ToldNotices \cup out
  <2>1. \A i \in 1 .. Len(Urgent) : Urgent[i] \in Notices
    BY <1>2
  <2> DEFINE late(i) == Hearing(Urgent[i], TRUE)
  <2>2. \A i \in 1 .. Len(Urgent) : late(i) \in Hearings /\ late(i).notice = Urgent[i]
    BY <1>1, <2>1 DEF Hearings, Hearing
  <2>3. more = [i \in 1 .. Len(Urgent) |-> late(i)]
    BY <1>2
  <2> HIDE DEF Hearings, late, more
  <2>4. more \in Seq(Hearings) /\ Len(more) = Len(Urgent)
        /\ \A i \in 1 .. Len(Urgent) : more[i].notice = Urgent[i]
    BY <1>2, <2>2, <2>3
  <2>5. /\ DOMAIN heard' = 1 .. (Len(heard) + Len(Urgent))
        /\ \A j \in 1 .. Len(heard) : heard'[j] = heard[j]
        /\ \A i \in 1 .. Len(Urgent) : heard'[Len(heard) + i] = more[i]
    <3>1. heard \in Seq(Hearings) /\ more \in Seq(Hearings) /\ heard' = heard \o more
      BY <1>1, <1>7, <2>4
    <3>2. /\ DOMAIN heard' = 1 .. (Len(heard) + Len(more))
          /\ \A j \in 1 .. Len(heard) : heard'[j] = heard[j]
          /\ \A i \in 1 .. Len(more) : heard'[Len(heard) + i] = more[i]
      BY <3>1
    <3> QED
      BY <2>4, <3>2
  <2>6. ASSUME NEW j \in DOMAIN heard', j \notin 1 .. Len(heard)
        PROVE  j - Len(heard) \in DOMAIN Urgent /\ heard'[j].notice = Urgent[j - Len(heard)]
    <3>1. j - Len(heard) \in 1 .. Len(Urgent) /\ Len(heard) + (j - Len(heard)) = j
      BY <1>1, <1>2, <2>5, <2>6
    <3> QED
      BY <1>2, <2>4, <2>5, <3>1
  <2>7. ASSUME NEW i \in DOMAIN heard', NEW j \in DOMAIN heard', heard'[i].notice = heard'[j].notice
        PROVE  i = j
    <3>1. \A h \in 1 .. Len(heard) : heard'[h].notice \in ToldNotices
      BY <1>1, <2>5 DEF ToldNotices
    <3>2. \A h \in DOMAIN heard' : h \notin 1 .. Len(heard) => heard'[h].notice \in HeldNotices
      BY <1>5, <2>6
    <3>3. CASE i \in 1 .. Len(heard) /\ j \in 1 .. Len(heard)
      BY <1>1, <2>5, <2>7, <3>3 DEF OnePlaceEach
    <3>4. CASE i \notin 1 .. Len(heard) /\ j \notin 1 .. Len(heard)
      <4>1. i - Len(heard) = j - Len(heard)
        BY <1>5, <2>6, <2>7, <3>4
      <4> QED
        BY <1>1, <1>2, <2>5, <4>1
    <3> QED
      BY <2>7, <3>1, <3>2, <3>3, <3>4 DEF OnePlaceEach
  <2>8. ToldNotices' \subseteq ToldNotices \cup out
    BY <1>1, <2>5, <2>6 DEF ToldNotices
  <2>9. ToldNotices \subseteq ToldNotices'
    <3>1. \A j \in 1 .. Len(heard) : j \in DOMAIN heard'
      BY <1>1, <1>2, <2>5
    <3> QED
      BY <1>1, <2>5, <3>1 DEF ToldNotices
  <2>10. out \subseteq ToldNotices'
    <3> SUFFICES ASSUME NEW r \in 1 .. Len(Urgent) PROVE Urgent[r] \in ToldNotices'
      BY <1>2
    <3>1. /\ Len(heard) + r \in DOMAIN heard'
          /\ heard'[Len(heard) + r] = more[r] /\ more[r].notice = Urgent[r]
      BY <1>1, <1>2, <2>4, <2>5
    <3>2. heard'[Len(heard) + r].notice = Urgent[r]
      BY <3>1
    <3> QED
      BY <3>1, <3>2 DEF ToldNotices
  <2> QED
    BY <2>7, <2>8, <2>9, <2>10
<1>10. AcceptedNotices' = AcceptedNotices
  BY <1>7 DEF AcceptedNotices, Accepted
<1> HIDE DEF out, kept, more
<1> QED
  BY <1>5, <1>7, <1>8, <1>9, <1>10 DEF OnePlaceEach

LEMMA PlaceInductive ==
  ASSUME LimitInv, OnePlaceEach, AcceptedDiffer', [GateNext \/ GateRestart]_gateVars
  PROVE  OnePlaceEach'
<1>1. ASSUME NEW m \in Messages, NEW k \in Importances,
             LET n == [message |-> m, importance |-> k, at |-> clock] IN
             Consider(n) \/ PumpEnds(n)
      PROVE  OnePlaceEach'
  <2> DEFINE n == [message |-> m, importance |-> k, at |-> clock]
  <2>1. CASE Consider(n)
    BY <2>1, PlaceConsidered
  <2>2. CASE PumpEnds(n)
    <3>1. UNCHANGED <<held, raised, heard, dropped, lost>>
      BY <2>2 DEF PumpEnds
    <3> QED
      BY <3>1, PlaceStays
  <2> QED
    BY <1>1, <2>1, <2>2
<1>2. CASE Release
  BY <1>2, PlaceReleased
<1>3. CASE DropHeld
  <2>1. held' = <<>> /\ dropped' = dropped \cup ToSet(held) /\ UNCHANGED <<raised, heard, lost>>
    BY <1>3 DEF DropHeld
  <2>2. ToSet(held) = HeldNotices
    BY DEF ToSet, HeldNotices
  <2>3. HeldNotices' = {} /\ ToldNotices' = ToldNotices /\ AcceptedNotices' = AcceptedNotices
    BY <2>1 DEF HeldNotices, ToldNotices, AcceptedNotices, Accepted
  <2>4. \A i, j \in DOMAIN held' : held'[i] = held'[j] => i = j
    BY <2>1
  <2> QED
    BY <2>1, <2>2, <2>3, <2>4 DEF OnePlaceEach
<1>4. CASE Tick \/ Dusk \/ SetGaming \/ UNCHANGED gateVars
  <2>1. UNCHANGED <<held, raised, heard, dropped, lost>>
    BY <1>4 DEF Tick, Dusk, SetGaming, gateVars, gateOwn
  <2> QED
    BY <2>1, PlaceStays
<1>5. CASE GateRestart
  <2>1. held' = <<>> /\ lost' = lost \cup ToSet(held) /\ UNCHANGED <<raised, heard, dropped>>
    BY <1>5 DEF GateRestart
  <2>2. ToSet(held) = HeldNotices
    BY DEF ToSet, HeldNotices
  <2>3. HeldNotices' = {} /\ ToldNotices' = ToldNotices /\ AcceptedNotices' = AcceptedNotices
    BY <2>1 DEF HeldNotices, ToldNotices, AcceptedNotices, Accepted
  <2>4. \A i, j \in DOMAIN held' : held'[i] = held'[j] => i = j
    BY <2>1
  <2> QED
    BY <2>1, <2>2, <2>3, <2>4 DEF OnePlaceEach
<1> QED
  BY <1>1, <1>2, <1>3, <1>4, <1>5 DEF GateNext

\* Over all lives of the engine, whatever the gate accepted was told to the user,
\* is still held, was thrown away on request, or was held when the engine was
\* restarted, one of these and once - as long as no two notices that it accepted
\* are the same (notifications.py:11, 96, 156-175).
THEOREM OneFateForEach == GateSpec /\ []AcceptedDiffer => []OnlyRestartsLose
<1>1. GateInit => OnePlaceEach
  BY DEF GateInit, OnePlaceEach, AcceptedNotices, Accepted, ToldNotices, HeldNotices
<1>2. OnePlaceEach => OnlyRestartsLose
  BY PlacesAreCounted
<1> QED
  BY <1>1, <1>2, LimitInvariant, PlaceInductive, PTL DEF GateSpec
-----------------------------------------------------------------------------
\* What makes accepted notices differ: those of this moment are remembered.
RememberedDiffer ==
  /\ \A k \in DOMAIN recent : recent[k].at <= clock
  /\ \A k, l \in DOMAIN recent : k <= l => recent[k].at <= recent[l].at
  /\ \A k, l \in DOMAIN recent :
       recent[k].at = recent[l].at /\ recent[k].message = recent[l].message => k = l
AcceptedNowIsRemembered ==
  \A i \in Accepted :
    /\ raised[i].notice.at <= clock
    /\ raised[i].notice.at = clock => \E k \in DOMAIN recent : recent[k] = raised[i].notice

FreshInv == RememberedDiffer /\ AcceptedNowIsRemembered /\ AcceptedDiffer

\* A full memory of one moment would hold more messages than there are.
LEMMA TheOldestIsOlder ==
  ASSUME IsFiniteSet(Messages), Cardinality(Messages) <= RecentSize,
         GateTypeOK, RememberedDiffer, Len(recent) = RecentSize,
         NEW m \in Messages, \A k \in DOMAIN recent : recent[k].at = clock => recent[k].message # m
  PROVE  recent[1].at # clock
<1> SUFFICES ASSUME recent[1].at = clock PROVE FALSE
  OBVIOUS
<1>1. /\ Len(recent) \in Nat /\ RecentSize \in Nat \ {0} /\ DOMAIN recent = 1 .. RecentSize
      /\ clock \in Nat /\ MaxClock \in Nat
  BY GateAssumption DEF GateTypeOK
<1>2. \A k \in 1 .. RecentSize : recent[k].message \in Messages /\ recent[k].at \in Nat
  <2>1. \A k \in 1 .. RecentSize : recent[k] \in Notices
    BY <1>1 DEF GateTypeOK
  <2> QED
    BY <1>1, <2>1 DEF Notices
<1>3. \A k \in 1 .. RecentSize : recent[k].at = clock
  BY <1>1, <1>2 DEF RememberedDiffer
<1> DEFINE f == [k \in 1 .. RecentSize |-> recent[k].message]
           S == Messages \ {m}
<1>4. f \in Injection(1 .. RecentSize, S)
  <2>1. \A k \in 1 .. RecentSize : recent[k].message \in S
    BY <1>1, <1>2, <1>3
  <2>2. f \in [1 .. RecentSize -> S]
    BY <2>1
  <2>3. \A k, l \in 1 .. RecentSize : f[k] = f[l] => k = l
    BY <1>1, <1>3 DEF RememberedDiffer
  <2> QED
    BY <2>2, <2>3 DEF Injection, IsInjective
<1>5. /\ IsFiniteSet(S) /\ Cardinality(S) = Cardinality(Messages) - 1
      /\ IsFiniteSet(1 .. RecentSize) /\ Cardinality(1 .. RecentSize) = RecentSize
      /\ Cardinality(Messages) \in Nat
  <2>1. IsFiniteSet(S) /\ Cardinality(S) = Cardinality(Messages) - 1
    BY FS_RemoveElement
  <2>2. IsFiniteSet(1 .. RecentSize) /\ Cardinality(1 .. RecentSize) = RecentSize
    BY <1>1, FS_Interval
  <2>3. Cardinality(Messages) \in Nat
    BY FS_CardinalityType
  <2> QED
    BY <2>1, <2>2, <2>3
<1>6. Cardinality(1 .. RecentSize) <= Cardinality(S)
  BY <1>4, <1>5, FS_Injection
<1> HIDE DEF S
<1> QED
  BY <1>1, <1>5, <1>6

\* One notice more is remembered: it is the last, and what goes is the first.
LEMMA OneMoreIsRemembered ==
  ASSUME GateTypeOK, NEW n \in Notices, recent' = Push(recent, n, RecentSize)
  PROVE  \E off \in {0, 1} :
           /\ off = 1 => Len(recent) = RecentSize
           /\ DOMAIN recent = 1 .. Len(recent) /\ Len(recent) \in Nat
           /\ DOMAIN recent' = 1 .. (Len(recent) + 1 - off)
           /\ \A k \in 1 .. (Len(recent) - off) : k + off \in DOMAIN recent /\ recent'[k] = recent[k + off]
           /\ recent'[Len(recent) + 1 - off] = n
           /\ Len(recent) + 1 - off \in DOMAIN recent'
<1> DEFINE all == Append(recent, n)
           last == LastOf(all, RecentSize)
           off == IF Len(recent) = RecentSize THEN 1 ELSE 0
<1>1. recent \in Seq(Notices) /\ Len(recent) \in Nat /\ DOMAIN recent = 1 .. Len(recent)
      /\ RecentSize \in Nat \ {0} /\ Len(recent) <= RecentSize
  BY GateAssumption DEF GateTypeOK
<1>2. /\ all \in Seq(Notices) /\ Len(all) = Len(recent) + 1 /\ all[Len(recent) + 1] = n
      /\ \A k \in 1 .. Len(recent) : all[k] = recent[k]
  BY <1>1
<1>3. recent' = last
  BY DEF Push
<1> HIDE DEF all
<1>4. /\ last \in Seq(Notices)
      /\ Len(last) = IF Len(all) > RecentSize THEN RecentSize ELSE Len(all)
      /\ \A k \in 1 .. Len(last) : last[k] = all[Len(all) - Len(last) + k]
  BY <1>1, <1>2, TheLastOnes
<1> HIDE DEF last
<1>5. off \in {0, 1} /\ (off = 1 => Len(recent) = RecentSize)
  OBVIOUS
<1>10. Len(recent) \in Nat /\ RecentSize \in Nat /\ Len(recent) <= RecentSize
  BY <1>1
<1>6. /\ Len(last) = Len(recent) + 1 - off /\ Len(last) \in Nat /\ DOMAIN last = 1 .. Len(last)
      /\ Len(all) - Len(last) = off
  <2>1. Len(last) \in Nat /\ DOMAIN last = 1 .. Len(last)
    BY <1>4
  <2>2. Len(all) = Len(recent) + 1 /\ Len(last) = IF Len(all) > RecentSize THEN RecentSize ELSE Len(all)
    BY <1>2, <1>4
  <2>3. CASE Len(recent) = RecentSize
    <3>1. off = 1 /\ Len(all) > RecentSize
      BY <1>10, <2>2, <2>3
    <3> HIDE DEF off
    <3>2. Len(last) = RecentSize /\ Len(all) = RecentSize + 1
      BY <2>2, <2>3, <3>1
    <3> QED
      BY <1>10, <2>1, <2>3, <3>1, <3>2
  <2>4. CASE Len(recent) # RecentSize
    <3>1. off = 0 /\ ~(Len(all) > RecentSize)
      BY <1>10, <2>2, <2>4
    <3> HIDE DEF off
    <3>2. Len(last) = Len(all)
      BY <2>2, <3>1
    <3> QED
      BY <1>10, <2>1, <2>2, <3>1, <3>2
  <2> QED
    BY <2>3, <2>4
<1> HIDE DEF off
<1>7. \A k \in 1 .. Len(last) : last[k] = all[off + k]
  BY <1>4, <1>6
<1>8. ASSUME NEW k \in 1 .. (Len(recent) - off)
      PROVE  k + off \in DOMAIN recent /\ last[k] = recent[k + off]
  <2>1. k + off \in 1 .. Len(recent) /\ k \in 1 .. Len(last) /\ off + k = k + off
    BY <1>5, <1>6, <1>10
  <2> QED
    BY <1>1, <1>2, <1>7, <2>1
<1>9. Len(recent) + 1 - off \in 1 .. Len(last) /\ last[Len(recent) + 1 - off] = n
  <2>1. Len(recent) + 1 - off \in 1 .. Len(last) /\ off + (Len(recent) + 1 - off) = Len(recent) + 1
    <3>1. off \in Nat /\ Len(recent) \in Nat
      BY <1>5, <1>10
    <3>2. off = 0 \/ (off = 1 /\ Len(recent) >= 1)
      <4>1. RecentSize >= 1
        BY GateAssumption
      <4> QED
        BY <1>5, <1>10, <4>1
    <3> QED
      BY <1>6, <3>1, <3>2
  <2> QED
    BY <1>2, <1>7, <2>1
<1> QED
  BY <1>1, <1>3, <1>5, <1>6, <1>8, <1>9

LEMMA FreshConsidered ==
  ASSUME IsFiniteSet(Messages), Cardinality(Messages) <= RecentSize,
         GateTypeOK, FreshInv, NEW m \in Messages, NEW k \in Importances, NEW n,
         n = [message |-> m, importance |-> k, at |-> clock], Consider(n)
  PROVE  FreshInv'
<1> DEFINE v == Decide(n)
           entry == [notice |-> n, verdict |-> v]
           taken == v \in {"deliver", "hold"}
<1>1. n \in Notices /\ n.at = clock /\ n.message = m /\ clock \in Nat
  BY GateAssumption DEF GateTypeOK, Notices
<1>2. /\ raised' = Append(raised, entry) /\ clock' = clock
      /\ taken => recent' = Push(recent, n, RecentSize)
      /\ ~taken => recent' = recent
  BY DEF Consider, Remembers
<1>3. taken => \A i \in DOMAIN recent :
                 ~(recent[i].message = m /\ recent[i].at + Window >= clock)
  BY <1>1 DEF Decide, IsDuplicate
<1> HIDE DEF v
<1>4. /\ Len(raised) \in Nat /\ DOMAIN raised = 1 .. Len(raised)
      /\ DOMAIN raised' = 1 .. (Len(raised) + 1)
      /\ \A i \in 1 .. Len(raised) : raised'[i] = raised[i]
      /\ raised'[Len(raised) + 1] = entry
  BY <1>2 DEF GateTypeOK
<1>5. Accepted \subseteq 1 .. Len(raised)
      /\ Accepted' = IF taken THEN Accepted \cup {Len(raised) + 1} ELSE Accepted
  BY <1>4 DEF Accepted
<1>6. \A i \in Accepted : i \in Accepted' /\ raised'[i] = raised[i] /\ i # Len(raised) + 1
  BY <1>4, <1>5
<1>7. \A i \in DOMAIN recent : recent[i].at \in Nat
  <2>1. \A i \in DOMAIN recent : recent[i] \in Notices
    BY DEF GateTypeOK
  <2> QED
    BY <2>1, GateAssumption DEF Notices
<1>8. taken => \A i \in DOMAIN recent : recent[i].at = clock => recent[i].message # m
  BY <1>1, <1>3, GateAssumption
<1>9. CASE taken
  <2>1. PICK off \in {0, 1} :
           /\ off = 1 => Len(recent) = RecentSize
           /\ DOMAIN recent = 1 .. Len(recent) /\ Len(recent) \in Nat
           /\ DOMAIN recent' = 1 .. (Len(recent) + 1 - off)
           /\ \A i \in 1 .. (Len(recent) - off) : i + off \in DOMAIN recent /\ recent'[i] = recent[i + off]
           /\ recent'[Len(recent) + 1 - off] = n
           /\ Len(recent) + 1 - off \in DOMAIN recent'
    BY <1>1, <1>2, <1>9, OneMoreIsRemembered
  <2>2. \A i \in DOMAIN recent' : i \in Nat /\ (i = Len(recent) + 1 - off \/ i \in 1 .. (Len(recent) - off))
    BY <2>1
  <2>3. ASSUME NEW i \in DOMAIN recent'
        PROVE  recent'[i].at \in Nat /\ recent'[i].at <= clock
    <3>1. CASE i = Len(recent) + 1 - off
      BY <1>1, <2>1, <3>1
    <3>2. CASE i \in 1 .. (Len(recent) - off)
      <4>1. i + off \in DOMAIN recent /\ recent'[i] = recent[i + off]
        BY <2>1, <3>2
      <4> QED
        BY <1>7, <4>1 DEF FreshInv, RememberedDiffer
    <3> QED
      BY <2>2, <3>1, <3>2
  <2>4. ASSUME NEW i \in DOMAIN recent', NEW j \in DOMAIN recent', i <= j
        PROVE  recent'[i].at <= recent'[j].at
    <3>1. CASE j = Len(recent) + 1 - off
      BY <1>1, <2>1, <2>3, <3>1
    <3>2. CASE j \in 1 .. (Len(recent) - off)
      <4>1. i \in 1 .. (Len(recent) - off) /\ i + off <= j + off
        BY <2>1, <2>2, <2>4, <3>2
      <4>2. /\ i + off \in DOMAIN recent /\ recent'[i] = recent[i + off]
            /\ j + off \in DOMAIN recent /\ recent'[j] = recent[j + off]
        BY <2>1, <3>2, <4>1
      <4> QED
        BY <4>1, <4>2 DEF FreshInv, RememberedDiffer
    <3> QED
      BY <2>2, <3>1, <3>2
  <2>5. ASSUME NEW i \in 1 .. (Len(recent) - off)
        PROVE  ~(recent'[i].at = clock /\ recent'[i].message = m)
    BY <1>8, <1>9, <2>1
  <2>6. ASSUME NEW i \in DOMAIN recent', NEW j \in DOMAIN recent',
               recent'[i].at = recent'[j].at, recent'[i].message = recent'[j].message
        PROVE  i = j
    <3>1. CASE i \in 1 .. (Len(recent) - off) /\ j \in 1 .. (Len(recent) - off)
      <4>1. /\ i + off \in DOMAIN recent /\ recent'[i] = recent[i + off]
            /\ j + off \in DOMAIN recent /\ recent'[j] = recent[j + off]
        BY <2>1, <3>1
      <4>2. i + off = j + off
        BY <2>6, <4>1 DEF FreshInv, RememberedDiffer
      <4> QED
        BY <2>1, <2>2, <4>2
    <3>2. CASE i = Len(recent) + 1 - off /\ j # i
      <4>1. j \in 1 .. (Len(recent) - off) /\ recent'[i] = n
        BY <2>1, <2>2, <3>2
      <4> QED
        BY <1>1, <2>5, <2>6, <4>1
    <3>3. CASE j = Len(recent) + 1 - off /\ j # i
      <4>1. i \in 1 .. (Len(recent) - off) /\ recent'[j] = n
        BY <2>1, <2>2, <3>3
      <4> QED
        BY <1>1, <2>5, <2>6, <4>1
    <3> QED
      BY <2>2, <3>1, <3>2, <3>3
  <2>7. RememberedDiffer'
    BY <1>2, <2>3, <2>4, <2>6 DEF RememberedDiffer
  <2>8. ASSUME NEW i \in DOMAIN recent, recent[i].at = clock
        PROVE  \E l \in DOMAIN recent' : recent'[l] = recent[i]
    <3>1. i - off \in 1 .. (Len(recent) - off) /\ (i - off) + off = i
      <4>1. CASE off = 0
        BY <2>1, <4>1
      <4>2. CASE off = 1
        <5>1. recent[1].at # clock
          BY <1>8, <1>9, <2>1, <4>2, TheOldestIsOlder DEF FreshInv
        <5>2. i # 1
          BY <2>8, <5>1
        <5> QED
          BY <2>1, <4>2, <5>2
      <4> QED
        BY <4>1, <4>2
    <3>2. i - off \in DOMAIN recent'
      BY <2>1, <3>1
    <3> QED
      BY <2>1, <3>1, <3>2
  <2>9. ASSUME NEW i \in Accepted'
        PROVE  /\ raised'[i].notice.at <= clock
               /\ raised'[i].notice.at = clock => \E l \in DOMAIN recent' : recent'[l] = raised'[i].notice
    <3>1. CASE i \in Accepted
      BY <1>6, <2>8, <3>1 DEF FreshInv, AcceptedNowIsRemembered
    <3>2. CASE i = Len(raised) + 1
      <4>1. raised'[i].notice = n
        BY <1>4, <3>2
      <4> QED
        BY <1>1, <2>1, <4>1
    <3> QED
      BY <1>5, <1>9, <3>1, <3>2
  <2>10. \A i \in Accepted : raised[i].notice # n
    <3> SUFFICES ASSUME NEW i \in Accepted, raised[i].notice = n PROVE FALSE
      OBVIOUS
    <3>1. \E l \in DOMAIN recent : recent[l] = n
      BY <1>1 DEF FreshInv, AcceptedNowIsRemembered
    <3> QED
      BY <1>1, <1>8, <1>9, <3>1
  <2>11. AcceptedDiffer'
    <3>1. raised'[Len(raised) + 1].notice = n
      BY <1>4
    <3>2. \A i, j \in Accepted : raised[i].notice = raised[j].notice => i = j
      BY DEF FreshInv, AcceptedDiffer
    <3>3. \A i \in Accepted' : i \in Accepted \/ i = Len(raised) + 1
      BY <1>5, <1>9
    <3>4. ASSUME NEW i \in Accepted', NEW j \in Accepted', raised'[i].notice = raised'[j].notice
          PROVE  i = j
      BY <1>6, <2>10, <3>1, <3>2, <3>3, <3>4
    <3> QED
      BY <3>4 DEF AcceptedDiffer
  <2> QED
    BY <1>2, <2>7, <2>9, <2>11 DEF FreshInv, AcceptedNowIsRemembered
<1>10. CASE ~taken
  <2>1. recent' = recent /\ Accepted' = Accepted
    BY <1>2, <1>5, <1>10
  <2>2. RememberedDiffer'
    BY <1>2, <2>1 DEF FreshInv, RememberedDiffer
  <2>3. AcceptedNowIsRemembered'
    BY <1>2, <1>6, <2>1 DEF FreshInv, AcceptedNowIsRemembered
  <2>4. AcceptedDiffer'
    BY <1>6, <2>1 DEF FreshInv, AcceptedDiffer
  <2> QED
    BY <2>2, <2>3, <2>4 DEF FreshInv
<1> QED
  BY <1>9, <1>10

LEMMA FreshInductive ==
  ASSUME IsFiniteSet(Messages), Cardinality(Messages) <= RecentSize,
         GateTypeOK, FreshInv, [GateNext \/ GateRestart]_gateVars
  PROVE  FreshInv'
<1>1. ASSUME NEW m \in Messages, NEW k \in Importances,
             LET n == [message |-> m, importance |-> k, at |-> clock] IN
             Consider(n) \/ PumpEnds(n)
      PROVE  FreshInv'
  <2> DEFINE n == [message |-> m, importance |-> k, at |-> clock]
  <2>1. CASE Consider(n)
    BY <2>1, FreshConsidered
  <2>2. CASE PumpEnds(n)
    <3>1. UNCHANGED <<recent, raised, clock>>
      BY <2>2 DEF PumpEnds
    <3> QED
      BY <3>1 DEF FreshInv, RememberedDiffer, AcceptedNowIsRemembered, AcceptedDiffer, Accepted
  <2> QED
    BY <1>1, <2>1, <2>2
<1>2. CASE Release \/ DropHeld \/ Dusk \/ SetGaming \/ UNCHANGED gateVars
  <2>1. UNCHANGED <<recent, raised, clock>>
    BY <1>2 DEF Release, DropHeld, Dusk, SetGaming, gateVars, gateOwn
  <2> QED
    BY <2>1 DEF FreshInv, RememberedDiffer, AcceptedNowIsRemembered, AcceptedDiffer, Accepted
<1>3. CASE Tick \/ GateRestart
  <2>1. clock' = clock + 1 /\ recent' \in {recent, <<>>} /\ raised' = raised /\ clock \in Nat
    BY <1>3, GateAssumption DEF Tick, GateRestart, GateTypeOK, gateOwn
  <2>2. \A i \in DOMAIN recent : recent[i].at \in Nat
    <3>1. \A i \in DOMAIN recent : recent[i] \in Notices
      BY DEF GateTypeOK
    <3> QED
      BY <3>1, GateAssumption DEF Notices
  <2>3. \A i \in DOMAIN raised : raised[i].notice.at \in Nat
    <3>0. raised \in Seq([notice : Notices, verdict : Verdicts])
      BY DEF GateTypeOK
    <3> DEFINE Judged == [notice : Notices, verdict : Verdicts]
    <3> HIDE DEF Judged
    <3>1. \A i \in DOMAIN raised : raised[i] \in Judged
      <4>1. raised \in Seq(Judged)
        BY <3>0 DEF Judged
      <4> QED
        BY <4>1
    <3>2. \A n \in Notices : n.at \in Nat
      BY GateAssumption DEF Notices
    <3> QED
      BY <3>1, <3>2 DEF Judged
  <2>4. RememberedDiffer'
    BY <2>1, <2>2 DEF FreshInv, RememberedDiffer
  <2>5. AcceptedNowIsRemembered' /\ AcceptedDiffer'
    BY <2>1, <2>3 DEF FreshInv, AcceptedNowIsRemembered, AcceptedDiffer, Accepted
  <2> QED
    BY <2>4, <2>5 DEF FreshInv
<1> QED
  BY <1>1, <1>2, <1>3 DEF GateNext

\* The same with no word of what the gate accepts: what it remembers tells
\* notices of one moment apart when it has room for every message there is, and
\* two lives of the engine share no moment.
THEOREM OneFateWithRoom ==
  ASSUME IsFiniteSet(Messages), Cardinality(Messages) <= RecentSize
  PROVE  GateSpec => []OnlyRestartsLose
<1>1. GateInit => FreshInv
  BY DEF GateInit, FreshInv, RememberedDiffer, AcceptedNowIsRemembered, AcceptedDiffer, Accepted
<1>2. LimitInv /\ FreshInv /\ [GateNext \/ GateRestart]_gateVars => FreshInv'
  BY FreshInductive DEF LimitInv
<1>3. FreshInv => AcceptedDiffer
  BY DEF FreshInv
<1>4. GateSpec => []AcceptedDiffer
  BY <1>1, <1>2, <1>3, LimitInvariant, PTL DEF GateSpec
<1> QED
  BY <1>4, OneFateForEach, PTL
-----------------------------------------------------------------------------
\* Only the file that is not there has the stamp of no file, and no stamp is of
\* a write to come.
MarksAreWrites ==
  /\ mark = 0 <=> file = NoFile
  /\ mark <= writes /\ stamp <= writes /\ seen <= writes

\* Outside apply, what has the known stamp is in force, and so are the defaults
\* if the last that is known is that there is no file: it may be deleted again.
KnownIsInForce ==
  settingsAt \in {"idle", "polled"} /\ lapse = "none" =>
    /\ mark = stamp => Loads /\ memory = Loaded
    /\ stamp = 0 => memory = Defaults

SettingsInv == SettingsTypeOK /\ MarksAreWrites /\ KnownIsInForce

LEMMA SettingsStart == SettingsInit => SettingsInv
<1> SUFFICES ASSUME SettingsInit PROVE SettingsInv
  OBVIOUS
<1>1. memory \in Fields /\ file \in Contents
  BY DEF SettingsInit, Defaults, Fields, Contents
<1>2. {mark, stamp, seen, writes} \subseteq 0 .. MaxWrites
  BY SettingsAssumption DEF SettingsInit
<1>3. complained \in BOOLEAN
  BY Zenon DEF SettingsInit
<1>4. /\ settingsAt \in {"idle", "adopted", "replaced", "polled"}
      /\ lapse \in {"none", "unsaved", "overtaken"}
  BY DEF SettingsInit
<1>5. MarksAreWrites /\ KnownIsInForce
  BY DEF SettingsInit, MarksAreWrites, KnownIsInForce, NoFile, Loads, Loaded
<1> QED
  BY <1>1, <1>2, <1>3, <1>4, <1>5 DEF SettingsInv, SettingsTypeOK

\* The request is laid over what is in force; what cannot be a setting has been
\* refused.
LEMMA CandidatesAreTyped ==
  ASSUME memory \in Fields, NEW changes \in Changes, Coerces(changes), Valid(Candidate(changes))
  PROVE  Candidate(changes) \in Fields
<1>1. CASE changes = [floor |-> 5]
  BY <1>1 DEF Candidate, Fields
<1>2. CASE changes = [floor |-> 3]
  BY <1>2 DEF Candidate, Fields
<1>3. CASE changes = [hours |-> "99:99"]
  BY <1>3 DEF Candidate, Fields
<1>4. CASE changes = [hours |-> "night"]
  BY <1>4 DEF Candidate, Fields
<1>5. CASE changes = [floor |-> 5, look |-> "purple"]
  BY <1>5 DEF Candidate, Fields
<1>6. CASE changes = [floor |-> 0, hours |-> "99:99"]
  BY <1>6 DEF Coerces
<1> QED
  BY <1>1, <1>2, <1>3, <1>4, <1>5, <1>6 DEF Changes

\* What can be read is a configuration; each kind of content has its own name.
LEMMA ContentsAreRead ==
  /\ NoFile.kind = "none" /\ Damaged.kind = "damaged" /\ Odd.kind = "odd"
  /\ \A c \in Fields : Holding(c).kind = "config" /\ Holding(c).config = c
  /\ Defaults \in Fields
  /\ file \in Contents /\ Loads => Loaded \in Fields
  /\ file = NoFile => Loads /\ Loaded = Defaults
<1>1. /\ NoFile.kind = "none" /\ Damaged.kind = "damaged" /\ Odd.kind = "odd"
      /\ \A c \in Fields : Holding(c).kind = "config" /\ Holding(c).config = c
  BY DEF NoFile, Damaged, Odd, Holding
<1>2. Defaults \in Fields
  BY DEF Defaults, Fields
<1>3. ASSUME file \in Contents, Loads PROVE Loaded \in Fields
  BY <1>1, <1>2, <1>3 DEF Contents, Loads, Loaded
<1>4. file = NoFile => Loads /\ Loaded = Defaults
  BY <1>1 DEF Loads, Loaded
<1> QED
  BY <1>1, <1>2, <1>3, <1>4

LEMMA SettingsStays ==
  ASSUME SettingsInv, [ChangeOfSettings \/ SettingsRestart]_settingsVars
  PROVE  SettingsInv'
<1>0. /\ memory \in Fields /\ file \in Contents
      /\ mark \in 0 .. MaxWrites /\ stamp \in 0 .. MaxWrites
      /\ seen \in 0 .. MaxWrites /\ writes \in 0 .. MaxWrites
      /\ complained \in BOOLEAN /\ MaxWrites \in Nat
      /\ settingsAt \in {"idle", "adopted", "replaced", "polled"}
      /\ lapse \in {"none", "unsaved", "overtaken"}
      /\ MarksAreWrites /\ KnownIsInForce
  BY SettingsAssumption DEF SettingsInv, SettingsTypeOK
<1> SUFFICES /\ memory' \in Fields /\ file' \in Contents
             /\ mark' \in 0 .. MaxWrites /\ stamp' \in 0 .. MaxWrites
             /\ seen' \in 0 .. MaxWrites /\ writes' \in 0 .. MaxWrites
             /\ complained' \in BOOLEAN
             /\ settingsAt' \in {"idle", "adopted", "replaced", "polled"}
             /\ lapse' \in {"none", "unsaved", "overtaken"}
             /\ MarksAreWrites' /\ KnownIsInForce'
  BY DEF SettingsInv, SettingsTypeOK
<1>1. ASSUME NEW changes \in Changes, Apply(changes)
      PROVE  SettingsInv'
  <2>1. memory' \in Fields
    BY <1>0, <1>1, CandidatesAreTyped DEF Apply
  <2>2. MarksAreWrites' /\ KnownIsInForce'
    BY <1>0, <1>1 DEF Apply, MarksAreWrites, KnownIsInForce
  <2> QED
    BY <1>0, <1>1, <2>1, <2>2 DEF Apply, SettingsInv, SettingsTypeOK
<1>2. CASE Replace
  <2>1. file' \in Contents /\ file' # NoFile
    BY <1>0, <1>2, ContentsAreRead DEF Replace, Contents
  <2>2. MarksAreWrites' /\ KnownIsInForce'
    BY <1>0, <1>2, <2>1 DEF Replace, MarksAreWrites, KnownIsInForce
  <2> QED
    BY <1>0, <1>2, <2>1, <2>2 DEF Replace
<1>3. CASE SaveFails
  <2>1. MarksAreWrites' /\ KnownIsInForce'
    BY <1>0, <1>3 DEF SaveFails, MarksAreWrites, KnownIsInForce
  <2> QED
    BY <1>0, <1>3, <2>1 DEF SaveFails
<1>4. CASE Restamp
  <2>1. lapse' = "none" => file = Holding(memory) /\ file # NoFile /\ mark # 0
    BY <1>0, <1>4, ContentsAreRead DEF Restamp, MarksAreWrites
  <2>2. lapse' = "none" => Loads' /\ memory' = Loaded'
    BY <1>0, <1>4, <2>1, ContentsAreRead DEF Restamp, Loads, Loaded
  <2>3. MarksAreWrites' /\ KnownIsInForce'
    BY <1>0, <1>4, <2>1, <2>2 DEF Restamp, MarksAreWrites, KnownIsInForce
  <2> QED
    BY <1>0, <1>4, <2>3 DEF Restamp
<1>5. CASE Poll
  <2>1. MarksAreWrites' /\ KnownIsInForce'
    BY <1>0, <1>5 DEF Poll, Moved, MarksAreWrites, KnownIsInForce, Loads, Loaded
  <2> QED
    BY <1>0, <1>5, <2>1 DEF Poll
<1>6. CASE Adopt
  <2>1. memory' \in Fields
    BY <1>0, <1>6, ContentsAreRead DEF Adopt
  <2>2. stamp' = 0 /\ lapse' = "none" => memory' = Defaults
    BY <1>0, <1>6, ContentsAreRead DEF Adopt, MarksAreWrites
  <2>3. Loads' /\ memory' = Loaded'
    BY <1>6 DEF Adopt, Loads, Loaded
  <2>4. MarksAreWrites' /\ KnownIsInForce'
    BY <1>0, <1>6, <2>2, <2>3 DEF Adopt, MarksAreWrites, KnownIsInForce
  <2> QED
    BY <1>0, <1>6, <2>1, <2>4 DEF Adopt
<1>7. CASE Refuse \/ Swallow
  <2>1. UNCHANGED <<memory, file, mark, writes, stamp, seen, lapse>>
        /\ settingsAt = "polled" /\ settingsAt' = "idle"
    BY <1>7 DEF Refuse, Swallow
  <2>2. complained' \in BOOLEAN
    BY <1>0, <1>7, Zenon DEF Refuse, Swallow
  <2>3. MarksAreWrites' /\ KnownIsInForce'
    BY <1>0, <2>1 DEF MarksAreWrites, KnownIsInForce, Loads, Loaded
  <2> QED
    BY <1>0, <2>1, <2>2, <2>3
<1>8. ASSUME NEW content \in Contents, Edit(content)
      PROVE  SettingsInv'
  <2>1. /\ mark' \in 0 .. MaxWrites /\ writes' \in 0 .. MaxWrites
        /\ writes' = writes + 1 /\ mark' <= writes' /\ file' = content
        /\ mark' = 0 <=> content = NoFile
        /\ mark' # 0 => mark' > stamp
    BY <1>0, <1>8 DEF Edit, MarksAreWrites
  <2>2. mark' = 0 => Loads' /\ Loaded' = Defaults
    BY <2>1, ContentsAreRead DEF Loads, Loaded
  <2>3. MarksAreWrites'
    BY <1>0, <1>8, <2>1 DEF Edit, MarksAreWrites
  <2>4. KnownIsInForce'
    BY <1>0, <1>8, <2>1, <2>2 DEF Edit, KnownIsInForce
  <2> QED
    BY <1>0, <1>8, <2>1, <2>3, <2>4 DEF Edit, SettingsInv, SettingsTypeOK
<1>9. CASE SettingsRestart
  <2>1. memory' \in Fields
    BY <1>0, <1>9, ContentsAreRead DEF SettingsRestart
  <2>2. Loads' /\ memory' = Loaded'
    BY <1>9 DEF SettingsRestart, Loads, Loaded
  <2>3. stamp' = 0 => memory' = Defaults
    BY <1>0, <1>9, ContentsAreRead DEF SettingsRestart, MarksAreWrites
  <2>4. MarksAreWrites' /\ KnownIsInForce'
    BY <1>0, <1>9, <2>2, <2>3 DEF SettingsRestart, MarksAreWrites, KnownIsInForce
  <2>5. complained' \in BOOLEAN
    BY <1>9, Zenon DEF SettingsRestart
  <2> QED
    BY <1>0, <1>9, <2>1, <2>4, <2>5 DEF SettingsRestart
<1>10. CASE UNCHANGED settingsVars
  <2>1. MarksAreWrites' /\ KnownIsInForce'
    BY <1>0, <1>10 DEF settingsVars, MarksAreWrites, KnownIsInForce, Loads, Loaded
  <2> QED
    BY <1>0, <1>10, <2>1 DEF settingsVars
<1> QED
  BY <1>1, <1>2, <1>3, <1>4, <1>5, <1>6, <1>7, <1>8, <1>9, <1>10
     DEF ChangeOfSettings, SettingsStep, SettingsInv, SettingsTypeOK

LEMMA SettingsInvariant == SettingsSpec => []SettingsInv
<1> QED
  BY SettingsStart, SettingsStays, PTL DEF SettingsSpec

\* The configuration in force always has a value of its type in every field,
\* whatever is in the file, and the stages of a change follow one another.
THEOREM SettingsTypeCorrect == SettingsSpec => []SettingsTypeOK
<1>1. SettingsInv => SettingsTypeOK
  BY DEF SettingsInv
<1> QED
  BY <1>1, SettingsInvariant, PTL

\* However edits, deletions, refusals, saves and restarts follow one another,
\* what the service takes for known is in force (settings.py, reload and save).
THEOREM KnownSettingsAreInForce == SettingsSpec => []WhatIsKnownIsInForce
<1>1. SettingsInv => WhatIsKnownIsInForce
  BY DEF SettingsInv, KnownIsInForce, WhatIsKnownIsInForce
<1> QED
  BY <1>1, SettingsInvariant, PTL
=============================================================================
