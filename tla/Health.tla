------------------------------- MODULE Health -------------------------------
(***************************************************************************)
(* The measured state of the model providers (models/health.py) under the  *)
(* pool that rebuilds them when a key or a setting changes                 *)
(* (models/pool.py), with what the router reports of its own calls         *)
(* (models/router.py, _note_failure).                                      *)
(*                                                                         *)
(* Checks and calls await the network.  While they do, the configuration   *)
(* may change and the pool may replace the provider they ask; they keep    *)
(* the provider, and so the key, that they started with.                   *)
(*                                                                         *)
(* Time is what it decides: an answer is fresh until it has aged (ttl), a  *)
(* rate limit holds until it is lifted (retry_after).                      *)
(***************************************************************************)
EXTENDS Naturals

CONSTANTS
  Names,     \* the providers
  Keys,      \* what their keys and addresses may be set to
  GoodKeys,  \* those the vendor accepts
  Calls,     \* model calls
  NoKey,     \* no key, or switched off: no such provider is built
  Nothing    \* no check, no call, no signature

ASSUME HealthAssumption ==
  /\ GoodKeys \subseteq Keys
  /\ NoKey \notin Keys
  /\ Nothing \notin Keys \cup {NoKey}
  /\ Nothing \notin [stage : {"queued", "forced", "sent"}, key : Keys]
  /\ Nothing \notin [name : Names, key : Keys]

\* The coroutines that refresh: listen(), after start()'s own rebuild; run();
\* and the requests of the API.
Rounds == {"listener", "clock", "api"}

\* "faulty" stands for every fault that only a new check takes back: OFFLINE,
\* TIMEOUT, INVALID_KEY, INVALID_CONFIG, and RATE_LIMIT without an end.
\* "lifted" is RATE_LIMIT past its retry_after.
Statuses == {"unknown", "online", "faulty", "rate_limit", "lifted"}

VARIABLES
  config,     \* the key of each provider, in the vault and the settings
  signed,     \* ProviderPool._signatures
  live,       \* router.providers: the key each was built with
  states,     \* HealthMonitor._states
  due,        \* the listener has a change to rebuild for
  missed,     \* history: its rebuild for the last announced change has raised
  refreshing, \* rounds that have rebuilt and not yet called refresh()
  checks,     \* checks[r][n]: the check of n that round r waits for
  calls,      \* the provider each call has asked
  well        \* the vendor's service does what it should

vars == <<config, signed, live, states, due, missed, refreshing, checks, calls, well>>

Known == [status : Statuses, fresh : BOOLEAN, about : Keys \cup {NoKey}, late : BOOLEAN]
Pending == [stage : {"queued", "forced", "sent"}, key : Keys]
Asking  == [name : Names, key : Keys]

TypeOK ==
  /\ config     \in [Names -> Keys \cup {NoKey}]
  /\ signed     \in [Names -> Keys \cup {NoKey, Nothing}]
  /\ live       \in [Names -> Keys \cup {NoKey}]
  /\ states     \in [Names -> Known]
  /\ due        \in BOOLEAN /\ missed \in BOOLEAN
  /\ refreshing \in SUBSET Rounds
  /\ checks     \in [Rounds -> [Names -> Pending \cup {Nothing}]]
  /\ calls      \in [Calls -> Asking \cup {Nothing}]
  /\ well       \in [Names -> BOOLEAN]

\* A provider that is not in _states.
Unknown == [status |-> "unknown", fresh |-> FALSE, about |-> NoKey, late |-> FALSE]

Init ==
  /\ config \in [Names -> Keys \cup {NoKey}]
  /\ signed = [n \in Names |-> Nothing]
  /\ live   = config
  /\ states = [n \in Names |-> Unknown]
  /\ due    = TRUE /\ missed = FALSE
  /\ refreshing = {}
  /\ checks = [r \in Rounds |-> [n \in Names |-> Nothing]]
  /\ calls  = [c \in Calls |-> Nothing]
  /\ well   = [n \in Names |-> TRUE]
-----------------------------------------------------------------------------
Guilty(n) == states[n].status \in {"faulty", "rate_limit"}

\* usable(): guilt blocks, absence of proof does not.
Usable(n) == live[n] # NoKey /\ ~Guilty(n)

\* Fault: only what answered once is asked again.
NeverStale(n) == states[n].status = "online" /\ ~states[n].fresh

Stale(n) == states[n].status = "unknown" \/ ~states[n].fresh

Idle(r) == r \notin refreshing /\ checks[r] = [n \in Names |-> Nothing]

\* record(): the last to write wins, whichever key it asked with; it is late if
\* that is no longer the provider's, or not the one the last rebuild has signed.
Record(n, k, s) ==
  states' = [states EXCEPT ![n] =
    [status |-> s, fresh |-> TRUE, about |-> k, late |-> k # live[n] \/ k # signed[n]]]

\* Faults: a rebuild that forgets nothing; one that forgets everything.
ForgetNothing == states
ForgetAll == [n \in Names |-> Unknown]

\* Whose key or address moved: what we knew about it is worthless.
Forget == [n \in Names |-> IF signed[n] = config[n] THEN states[n] ELSE Unknown]

\* The listener takes the announcement from its queue and rebuilds, whatever
\* comes of it; the API rebuilds when it is asked to.
Undertakes(r) ==
  /\ Idle(r)
  /\ r = "api" \/ (r = "listener" /\ due)
  /\ due' = (due /\ r # "listener")
  /\ UNCHANGED <<config, checks, calls, well>>

\* Fault: the listener takes the change for one that cannot concern the models.
RebuildForApiOnly(r) ==
  /\ Undertakes(r)
  /\ IF r = "api"
     THEN /\ states' = Forget /\ signed' = config /\ live' = config /\ missed' = FALSE
          /\ refreshing' = refreshing \cup {r}
     ELSE UNCHANGED <<states, signed, live, missed, refreshing>>

Rebuild(r) ==
  /\ Undertakes(r)
  /\ states' = Forget
  /\ signed' = config
  /\ live'   = config
  /\ missed' = FALSE
  /\ refreshing' = refreshing \cup {r}

\* The vault may raise (vault.get() writes to the database and decrypts), and
\* nobody tries again.  start() does not return from that, so it was not the
\* first rebuild.
Raises(r) ==
  /\ \A n \in Names : signed[n] # Nothing
  /\ Undertakes(r)
  /\ missed' = (missed \/ r = "listener")
  /\ UNCHANGED <<live, refreshing>>

\* While the fingerprints are taken it leaves everything as it was; while the
\* providers are built, what was known is forgotten and the fingerprints signed.
RaisesBeforeSigning(r) == Raises(r) /\ UNCHANGED <<signed, states>>
RaisesAfterSigning(r)  == Raises(r) /\ signed' = config /\ states' = Forget

\* check_all(): a coroutine for each provider of the router.
Gather(r, stage) ==
  /\ checks' = [checks EXCEPT ![r] =
       [n \in Names |->
          IF live[n] = NoKey THEN Nothing ELSE [stage |-> stage, key |-> live[n]]]]
  /\ UNCHANGED <<config, signed, live, states, due, missed, calls, well>>

RefreshRebuilt(r) ==
  /\ r \in refreshing
  /\ refreshing' = refreshing \ {r}
  /\ Gather(r, "queued")

\* run(), once an hour; "check again" in the settings.
RefreshHourly == Idle("clock") /\ Gather("clock", "queued") /\ UNCHANGED refreshing
RefreshForced == Idle("api") /\ Gather("api", "forced") /\ UNCHANGED refreshing

\* check(), up to its request: an answer that is still fresh is the answer.
Check(r, n) ==
  /\ checks[r][n] # Nothing /\ checks[r][n].stage # "sent"
  /\ checks' = [checks EXCEPT ![r][n] =
       IF checks[r][n].stage = "forced" \/ Stale(n)
       THEN [stage |-> "sent", key |-> checks[r][n].key]
       ELSE Nothing]
  /\ UNCHANGED <<config, signed, live, states, due, missed, refreshing, calls, well>>

\* classify_response, classify_exception.
Verdicts(n, k) ==
  IF ~well[n] THEN {"faulty", "rate_limit"}
  ELSE IF k \in GoodKeys THEN {"online"} ELSE {"faulty"}

Answer(r, n) ==
  /\ checks[r][n] # Nothing /\ checks[r][n].stage = "sent"
  /\ LET k == checks[r][n].key IN \E s \in Verdicts(n, k) : Record(n, k, s)
  /\ checks' = [checks EXCEPT ![r][n] = Nothing]
  /\ UNCHANGED <<config, signed, live, due, missed, refreshing, calls, well>>

\* complete() asks a provider; it may be its turn only after others failed.
Ask(c, n) ==
  /\ calls[c] = Nothing
  /\ Usable(n)
  /\ calls' = [calls EXCEPT ![c] = [name |-> n, key |-> live[n]]]
  /\ UNCHANGED <<config, signed, live, states, due, missed, refreshing, checks, well>>

Complete(c) ==
  /\ calls[c] # Nothing
  /\ "online" \in Verdicts(calls[c].name, calls[c].key)
  /\ calls' = [calls EXCEPT ![c] = Nothing]
  /\ UNCHANGED <<config, signed, live, states, due, missed, refreshing, checks, well>>

\* A call may also fail at a vendor that is well.
NoteFailure(c) ==
  /\ calls[c] # Nothing
  /\ LET n == calls[c].name
         k == calls[c].key
     IN \E s \in (Verdicts(n, k) \cup {"faulty"}) \ {"online"} : Record(n, k, s)
  /\ calls' = [calls EXCEPT ![c] = Nothing]
  /\ UNCHANGED <<config, signed, live, due, missed, refreshing, checks, well>>
-----------------------------------------------------------------------------
\* The vault and the settings change in this process, which announces it, or
\* in another one ("garis vault set"), which cannot.
Edit(n, k) ==
  /\ k # config[n]
  /\ config' = [config EXCEPT ![n] = k]
  /\ due' = TRUE /\ missed' = FALSE
  /\ UNCHANGED <<signed, live, states, refreshing, checks, calls, well>>

EditElsewhere(n, k) ==
  /\ k # config[n]
  /\ config' = [config EXCEPT ![n] = k]
  /\ UNCHANGED <<signed, live, states, due, missed, refreshing, checks, calls, well>>

Vendor(n) ==
  /\ well' = [well EXCEPT ![n] = ~@]
  /\ UNCHANGED <<config, signed, live, states, due, missed, refreshing, checks, calls>>

\* ttl and retry_after pass.
Age(n) ==
  /\ states[n].fresh
  /\ states' = [states EXCEPT ![n].fresh = FALSE]
  /\ UNCHANGED <<config, signed, live, due, missed, refreshing, checks, calls, well>>

Lift(n) ==
  /\ states[n].status = "rate_limit"
  /\ states' = [states EXCEPT ![n].status = "lifted"]
  /\ UNCHANGED <<config, signed, live, due, missed, refreshing, checks, calls, well>>

Next ==
  \/ \E r \in Rounds :
       Rebuild(r) \/ RaisesBeforeSigning(r) \/ RaisesAfterSigning(r) \/ RefreshRebuilt(r)
  \/ RefreshHourly
  \/ RefreshForced
  \/ \E r \in Rounds, n \in Names : Check(r, n) \/ Answer(r, n)
  \/ \E c \in Calls : (\E n \in Names : Ask(c, n)) \/ Complete(c) \/ NoteFailure(c)
  \/ \E n \in Names, k \in Keys \cup {NoKey} : Edit(n, k) \/ EditElsewhere(n, k)
  \/ \E n \in Names : Vendor(n) \/ Age(n) \/ Lift(n)

Spec == Init /\ [][Next]_vars

\* The event loop runs what the pool's own loops have ready, their requests have
\* a timeout, and time passes.  Calls, and what the API is asked for, need not end.
Fairness ==
  /\ WF_vars(Rebuild("listener") \/ RaisesBeforeSigning("listener")
                                 \/ RaisesAfterSigning("listener"))
  /\ WF_vars(RefreshHourly)
  /\ WF_vars(RefreshRebuilt("listener"))
  /\ \A r \in {"listener", "clock"}, n \in Names : WF_vars(Check(r, n)) /\ WF_vars(Answer(r, n))
  /\ \A n \in Names : WF_vars(Age(n))

FairSpec == Spec /\ Fairness
-----------------------------------------------------------------------------
\* What is known of a provider was measured with the key it has, unless, when the
\* answer came, the provider or its fingerprint had another key than was asked.
KnownIsCurrent ==
  \A n \in Names :
    states[n].status # "unknown" /\ states[n].about # live[n] => states[n].late

\* "Identical configuration keeps its cached health": nobody is acquitted but by
\* a new measurement, the end of a stated window, or a change of the key.
GuiltIsKept ==
  [][\A n \in Names :
       Guilty(n) /\ states'[n].status = "unknown" => signed'[n] # signed[n]]_vars

\* A change announced in this process reaches the providers, whatever rebuilds
\* raised before it, and with it the changes nobody announced or took up; only
\* the rebuild made for it may lose it, and nothing tries again (pool.py:123-126).
ChangesAreTakenUp == due ~> live = config \/ missed

\* No fault shuts a provider out for good: once its vendor is well and its key
\* accepted, it is used again, whatever failed meanwhile.
HealthyIsUsedAgain ==
  \A n \in Names :
    <>[](well[n] /\ live[n] \in GoodKeys) => []<>Usable(n)

\* "Key or address moved: what we knew about it is worthless": nobody is shut
\* out with a good key for what was found with another one.
BlameIsCurrent ==
  \A n \in Names : live[n] \in GoodKeys /\ Guilty(n) => states[n].about = live[n]
=============================================================================
