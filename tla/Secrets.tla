-------------------------------- MODULE Secrets --------------------------------
(***************************************************************************)
(* What GARIS keeps encrypted: the memory (memory.py) and the vault        *)
(* (vault.py), under a key derived from the master key in the key file     *)
(* (crypto.py).  The service and the commands of `garis` are processes on  *)
(* the same files; each makes the key if there is none and keeps the one   *)
(* it has in hand as long as it lives.                                     *)
(*                                                                         *)
(* Master keys are numbers in the order they were made.  A ciphertext is   *)
(* the key it was made with; what it says is left out.                     *)
(***************************************************************************)
EXTENDS Naturals, FiniteSets

CONSTANTS
  Machines,   \* the processes; only those in Windows edit memories
  Windows,
  Memories,   \* identifiers: each is given once
  Secretive,  \* names of secrets, as _clean() leaves them
  NoMemory,   \* stands for no memory
  MaxKeys     \* bound: master keys made

ASSUME SecretsAssumption ==
  Windows \subseteq Machines /\ NoMemory \notin Memories /\ MaxKeys \in Nat

VARIABLES
  keyFile,   \* the master key in the file, 0 if there is none
  keyDraft,  \* the temporary file, which all processes share; 0 if none
  machine,   \* machine[p].at: "down", "making" or "writing" the key, "up"; .key: in hand
  keysMade,
  note,      \* note[i]: the row of a memory, or NoRow
  editing,   \* editing[p]: the memory whose row update() has read, or none
  secret,    \* secret[n]: the key of the row of the vault, 0 if there is none
  pointing,  \* names whose secret is stored and whose hint remember_secret has yet to write
  forgotten, \* history: memories that were forgotten
  raced      \* history: two processes were making a key at once

secretVars == <<keyFile, keyDraft, machine, keysMade, note, editing, secret, pointing,
                forgotten, raced>>

NoRow == [key |-> 0, scope |-> "none", expires |-> FALSE]
Notes == [key : 1 .. MaxKeys, scope : {"session", "permanent"}, expires : BOOLEAN]
Absent == [at |-> "down", key |-> 0]

SecretsTypeOK ==
  /\ {keyFile, keyDraft, keysMade} \subseteq 0 .. MaxKeys
  /\ machine \in [Machines -> [at : {"down", "making", "writing", "up"}, key : 0 .. MaxKeys]]
  /\ note \in [Memories -> Notes \cup {NoRow}]
  /\ editing \in [Machines -> Memories \cup {NoMemory}]
  /\ secret \in [Secretive -> 0 .. MaxKeys]
  /\ pointing \subseteq Machines \X Secretive
  /\ forgotten \subseteq Memories /\ raced \in BOOLEAN

SecretsInit ==
  /\ keyFile = 0 /\ keyDraft = 0 /\ keysMade = 0
  /\ machine = [p \in Machines |-> Absent]
  /\ note = [i \in Memories |-> NoRow] /\ editing = [p \in Machines |-> NoMemory]
  /\ secret = [n \in Secretive |-> 0] /\ pointing = {}
  /\ forgotten = {} /\ raced = FALSE
-----------------------------------------------------------------------------
Making == {p \in Machines : machine[p].at \in {"making", "writing"}}
keptVars == <<note, editing, secret, pointing, forgotten>>

\* Fault: every start makes a key.
AlwaysMissing == TRUE
KeyIsMissing == keyFile = 0

\* load_or_create_master_key(): the key of the file, ...
LoadKey(p) ==
  /\ machine[p] = Absent /\ ~KeyIsMissing
  /\ machine' = [machine EXCEPT ![p] = [at |-> "up", key |-> keyFile]]
  /\ UNCHANGED <<keyFile, keyDraft, keysMade, raced, keptVars>>

\* ... or a new one, which is written to a temporary file ...
MakeKey(p) ==
  /\ machine[p] = Absent /\ KeyIsMissing /\ keysMade < MaxKeys
  /\ keysMade' = keysMade + 1
  /\ machine' = [machine EXCEPT ![p] = [at |-> "making", key |-> keysMade + 1]]
  /\ raced' = (raced \/ Making # {})
  /\ UNCHANGED <<keyFile, keyDraft, keptVars>>

DraftKey(p) ==
  /\ machine[p].at = "making"
  /\ keyDraft' = machine[p].key
  /\ machine' = [machine EXCEPT ![p].at = "writing"]
  /\ UNCHANGED <<keyFile, keysMade, raced, keptVars>>

\* ... that takes the place of the key file, whoever wrote it last.  The key in
\* hand is the one the process made.
PlaceKey(p) ==
  /\ machine[p].at = "writing" /\ keyDraft # 0
  /\ keyFile' = keyDraft /\ keyDraft' = 0
  /\ machine' = [machine EXCEPT ![p].at = "up"]
  /\ UNCHANGED <<keysMade, raced, keptVars>>

\* A process ends or is killed at any point, or finds that the temporary file
\* has been moved away under it.
Quit(p) ==
  /\ machine[p] # Absent
  /\ machine' = [machine EXCEPT ![p] = Absent]
  /\ editing' = [editing EXCEPT ![p] = NoMemory]
  /\ pointing' = {q \in pointing : q[1] # p}
  /\ UNCHANGED <<keyFile, keyDraft, keysMade, note, secret, forgotten, raced>>

Ready(p) ==
  /\ machine[p].at = "up" /\ editing[p] = NoMemory
  /\ \A n \in Secretive : <<p, n>> \notin pointing
keyVars == <<keyFile, keyDraft, machine, keysMade, raced>>
-----------------------------------------------------------------------------
\* _decode(): a row made with another key raises.
Reads(p, i) == note[i] # NoRow /\ note[i].key = machine[p].key

\* remember(): a row with a new identifier.
Remember(p, i) ==
  /\ Ready(p) /\ note[i] = NoRow /\ i \notin forgotten
  /\ \E scope \in {"session", "permanent"}, expires \in BOOLEAN :
       note' = [note EXCEPT ![i] = [key |-> machine[p].key, scope |-> scope, expires |-> expires]]
  /\ UNCHANGED <<keyVars, editing, secret, pointing, forgotten>>

\* update(): it reads the row, ...
BeginUpdate(p, i) ==
  /\ p \in Windows /\ Ready(p) /\ Reads(p, i)
  /\ editing' = [editing EXCEPT ![p] = i]
  /\ UNCHANGED <<keyVars, note, secret, pointing, forgotten>>

\* Fault: the row is written whether or not it is still there.
OverwritesAnyway(i) == TRUE
StillThere(i) == note[i] # NoRow

\* ... and writes all of it, in a statement that finds no row if another process
\* has deleted it meanwhile.  The answer is the record either way.
FinishUpdate(p) ==
  LET i == editing[p] IN
  /\ i # NoMemory
  /\ \E scope \in {"session", "permanent"} :
       note' = IF StillThere(i)
               THEN [note EXCEPT ![i] = [@ EXCEPT !.key = machine[p].key, !.scope = scope]]
               ELSE note
  /\ editing' = [editing EXCEPT ![p] = NoMemory]
  /\ UNCHANGED <<keyVars, secret, pointing, forgotten>>

Erase(S) ==
  /\ note' = [i \in Memories |-> IF i \in S THEN NoRow ELSE note[i]]
  /\ forgotten' = forgotten \cup S
  /\ UNCHANGED <<keyVars, editing, secret, pointing>>

Listed == {i \in Memories : note[i] # NoRow}

\* forget() reads the row before it deletes it.
ForgetOne(p, i) == Ready(p) /\ Reads(p, i) /\ Erase({i})

\* forget_matching() reads what search() lists, and that is every row that has
\* not expired.
ForgetMatching(p) ==
  /\ Ready(p) /\ \A i \in Listed : note[i].expires \/ Reads(p, i)
  /\ \E S \in SUBSET {i \in Listed : Reads(p, i)} : S # {} /\ Erase(S)

\* purge_expired() and end_session() delete by columns that are not encrypted;
\* so far only the tests call them.
PurgeExpired(p) == Ready(p) /\ Erase({i \in Listed : note[i].expires}) /\ note' # note
EndSession(p) == Ready(p) /\ Erase({i \in Listed : note[i].scope = "session"}) /\ note' # note

\* remember_secret(): the vault, which is another database, ...
SetSecret(p, n) ==
  /\ Ready(p)
  /\ secret' = [secret EXCEPT ![n] = machine[p].key]
  /\ pointing' = pointing \cup {<<p, n>>}
  /\ UNCHANGED <<keyVars, note, editing, forgotten>>

\* ... and then a hint in the memory.
WriteHint(p, n) ==
  /\ <<p, n>> \in pointing /\ pointing' = pointing \ {<<p, n>>}
  /\ \E i \in Memories :
       /\ note[i] = NoRow /\ i \notin forgotten
       /\ note' = [note EXCEPT ![i] =
            [key |-> machine[p].key, scope |-> "permanent", expires |-> FALSE]]
  /\ UNCHANGED <<keyVars, editing, secret, forgotten>>

\* delete() of the vault asks for no key, and leaves the hint.
DeleteSecret(p, n) ==
  /\ Ready(p) /\ secret[n] # 0
  /\ secret' = [secret EXCEPT ![n] = 0]
  /\ UNCHANGED <<keyVars, note, editing, pointing, forgotten>>

SecretsNext ==
  \E p \in Machines :
    \/ LoadKey(p) \/ MakeKey(p) \/ DraftKey(p) \/ PlaceKey(p) \/ Quit(p)
    \/ \E i \in Memories : Remember(p, i) \/ BeginUpdate(p, i) \/ ForgetOne(p, i)
    \/ FinishUpdate(p) \/ ForgetMatching(p) \/ PurgeExpired(p) \/ EndSession(p)
    \/ \E n \in Secretive : SetSecret(p, n) \/ WriteHint(p, n) \/ DeleteSecret(p, n)

SecretsSpec == SecretsInit /\ [][SecretsNext]_secretVars
-----------------------------------------------------------------------------
\* What was forgotten stays forgotten, also when the window is saving a
\* correction of it while `garis memory forget` deletes it
\* (memory.py:238-249, 253-265).
ForgottenStays == \A i \in forgotten : note[i] = NoRow

\* Every process that is up can read what any of them wrote, now or in an
\* earlier life, unless two of them were making the first key at once: then one
\* of them goes on with a key that is in no file (crypto.py:143-165).
ReadableUnlessRaced ==
  ~raced => \A p \in Machines : machine[p].at = "up" =>
    /\ \A i \in Listed : Reads(p, i)
    /\ \A n \in Secretive : secret[n] \in {0, machine[p].key}
=============================================================================
