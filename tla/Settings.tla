-------------------------------- MODULE Settings --------------------------------
(***************************************************************************)
(* The live settings (settings.py, config.py): one Config object that the  *)
(* parts of the engine read by reference, the file it is saved in, and two *)
(* ways in - a change from the settings screen, and a file edited by hand  *)
(* or by `garis config` in another process, found by polling its stamp.    *)
(*                                                                         *)
(* Three settings stand for all: the floor of the notifications, the quiet *)
(* hours, which validate() does not look at, and a choice of appearance,   *)
(* which it does.  A stamp (time and size) is the number of the write.     *)
(***************************************************************************)
EXTENDS Naturals

CONSTANT MaxWrites  \* bound: writes to the file

ASSUME SettingsAssumption == MaxWrites \in Nat \ {0}

Fields == [floor : {3, 5}, hours : {"night", "99:99"}, look : {"dark", "purple"}]
Defaults == [floor |-> 3, hours |-> "night", look |-> "dark"]

\* Requests: one field or two, some of which must be refused; 0 is a value
\* that is no number.
Changes ==
  {[floor |-> 5], [floor |-> 3], [hours |-> "99:99"], [hours |-> "night"],
   [floor |-> 5, look |-> "purple"], [floor |-> 0, hours |-> "99:99"]}

\* The file: a configuration, nothing, text that is no JSON (a ConfigError),
\* or JSON that fails in another way, such as a number that is a word.
NoFile == [kind |-> "none"]
Damaged == [kind |-> "damaged"]
Odd == [kind |-> "odd"]
Holding(c) == [kind |-> "config", config |-> c]
Contents == {NoFile, Damaged, Odd} \cup {Holding(c) : c \in Fields}

VARIABLES
  memory,      \* the Config object of the process
  file, mark,  \* the file and its stamp; no file has stamp 0
  writes,      \* the writes so far
  stamp,       \* _stamp: the last one the service knows
  complained,  \* _complained
  settingsAt,  \* "idle", or inside apply ("adopted", "replaced") or reload ("polled")
  seen,        \* the stamp that reload took before it read
  lapse        \* history: what memory and file have not been brought together since

settingsVars == <<memory, file, mark, writes, stamp, complained, settingsAt, seen, lapse>>

SettingsTypeOK ==
  /\ memory \in Fields /\ file \in Contents
  /\ {mark, stamp, seen, writes} \subseteq 0 .. MaxWrites
  /\ complained \in BOOLEAN
  /\ settingsAt \in {"idle", "adopted", "replaced", "polled"}
  /\ lapse \in {"none", "unsaved", "overtaken"}

SettingsInit ==
  /\ memory = Defaults /\ file = NoFile
  /\ mark = 0 /\ writes = 0 /\ stamp = 0 /\ seen = 0
  /\ complained = FALSE /\ settingsAt = "idle" /\ lapse = "none"
-----------------------------------------------------------------------------
\* Config.validate(): the appearance, and nothing else.
Valid(c) == c.look \in {"dark", "light"}

\* Config.from_dict(to_dict()), then set() for each path of the request.
Candidate(changes) ==
  [f \in DOMAIN memory |-> IF f \in DOMAIN changes THEN changes[f] ELSE memory[f]]

\* set() and _coerce_like() refuse a value that cannot be made of the type.
Coerces(changes) == "floor" \in DOMAIN changes => changes.floor # 0

\* apply(), up to adopt(): all of the request, or a ConfigError and none of it.
Apply(changes) ==
  /\ settingsAt = "idle"
  /\ Coerces(changes) /\ Valid(Candidate(changes))
  /\ Candidate(changes) # memory
  /\ memory' = Candidate(changes)
  /\ settingsAt' = "adopted"
  /\ UNCHANGED <<file, mark, writes, stamp, complained, seen, lapse>>

\* Config.save(): a temporary file takes the place of the old one.
Replace ==
  /\ settingsAt = "adopted" /\ writes < MaxWrites
  /\ file' = Holding(memory)
  /\ mark' = writes + 1 /\ writes' = writes + 1
  /\ settingsAt' = "replaced"
  /\ UNCHANGED <<memory, stamp, complained, seen, lapse>>

\* The disk is full or the file is locked: apply() raises between adopting and
\* announcing.
SaveFails ==
  /\ settingsAt = "adopted"
  /\ settingsAt' = "idle" /\ lapse' = "unsaved"
  /\ UNCHANGED <<memory, file, mark, writes, stamp, complained, seen>>

\* SettingsService.save() takes the stamp of whatever is there now, and apply
\* announces the change (the event is left out).
Restamp ==
  /\ settingsAt = "replaced"
  /\ stamp' = mark
  /\ lapse' = IF file = Holding(memory) THEN "none" ELSE "overtaken"
  /\ settingsAt' = "idle"
  /\ UNCHANGED <<memory, file, mark, writes, complained, seen>>

\* Fault: only a later stamp is news.
MovedForward == mark > stamp
Moved == mark # stamp

\* watch(): every two seconds reload() compares the stamps ...
Poll ==
  /\ settingsAt = "idle" /\ Moved
  /\ seen' = mark /\ settingsAt' = "polled"
  /\ UNCHANGED <<memory, file, mark, writes, stamp, complained, lapse>>

\* Config.load(): what the content is read as.
Loads == file.kind \in {"none", "config"}
Loaded == IF file.kind = "none" THEN Defaults ELSE file.config
Refused == file.kind = "damaged" \/ (file.kind = "config" /\ ~Valid(file.config))

\* ... and reads the file, which may have been written again meanwhile.
Adopt ==
  /\ settingsAt = "polled" /\ Loads /\ Valid(Loaded)
  /\ stamp' = seen /\ complained' = FALSE
  /\ memory' = Loaded
  /\ lapse' = IF seen = mark THEN "none" ELSE "overtaken"
  /\ settingsAt' = "idle"
  /\ UNCHANGED <<file, mark, writes, seen>>

\* A ConfigError is told once and tried again at every poll.
Refuse ==
  /\ settingsAt = "polled" /\ Refused
  /\ complained' = TRUE
  /\ settingsAt' = "idle"
  /\ UNCHANGED <<memory, file, mark, writes, stamp, seen, lapse>>

\* Any other exception is swallowed by watch().
Swallow ==
  /\ settingsAt = "polled" /\ file.kind = "odd"
  /\ settingsAt' = "idle"
  /\ UNCHANGED <<memory, file, mark, writes, stamp, complained, seen, lapse>>

\* The file is edited by hand, by `garis config` (cli.py), which sets and saves
\* without validate(), or deleted, at any moment.
Edit(content) ==
  /\ writes < MaxWrites /\ content # file
  /\ file' = content
  /\ writes' = writes + 1
  /\ mark' = IF content = NoFile THEN 0 ELSE writes + 1
  /\ UNCHANGED <<memory, stamp, complained, settingsAt, seen, lapse>>

\* The process ends and starts again: load_config() reads the file, and does
\* not validate it; with a file it cannot read it does not start.
SettingsRestart ==
  /\ Loads
  /\ memory' = Loaded
  /\ stamp' = mark /\ complained' = FALSE /\ settingsAt' = "idle" /\ lapse' = "none"
  /\ UNCHANGED <<file, mark, writes, seen>>

SettingsStep == Replace \/ SaveFails \/ Restamp \/ Poll \/ Adopt \/ Refuse \/ Swallow

ChangeOfSettings ==
  \/ \E changes \in Changes : Apply(changes)
  \/ SettingsStep
  \/ \E content \in Contents : Edit(content)

\* The event loop runs the poll and finishes what it began.
SettingsFairness == WF_settingsVars(SettingsStep)

SettingsSpec ==
  SettingsInit /\ [][ChangeOfSettings \/ SettingsRestart]_settingsVars /\ SettingsFairness
-----------------------------------------------------------------------------
\* A file the service has nothing left to learn from is in force: whatever
\* was refused, put back, deleted or saved before, a stamp is known only when
\* what it stands for has been taken over (settings.py:84, 93-107).  Left out are
\* the edits that fell between a look at the stamp and at the file, and what
\* could not be saved (lapse).
WhatIsKnownIsInForce ==
  settingsAt = "idle" /\ mark = stamp /\ lapse = "none" => Loads /\ memory = Loaded

\* Once nobody writes the file any more, what it says is in force again and
\* again, provided it can be read: also when it was put back, deleted, or came
\* after files that could not be read (settings.py:11-12, 114-118).
EditsArrive ==
  <>[][FALSE]_file => []<>(Loads /\ Valid(Loaded) /\ lapse = "none" => memory = Loaded)
=============================================================================
