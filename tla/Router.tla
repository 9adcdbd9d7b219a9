------------------------------- MODULE Router -------------------------------
(***************************************************************************)
(* ModelRouter.complete (models/router.py): which models a call is offered *)
(* to and in which order, until one of them answers; and the budget the    *)
(* answers are charged to.                                                 *)
(*                                                                         *)
(* The score of a model is data: a ranking is any order of the candidates. *)
(* What the providers' health is at the moment is Health's business: here  *)
(* they fail and recover as they please.                                   *)
(***************************************************************************)
EXTENDS Naturals, Sequences, FiniteSets, SequencesExt, Ordering

CONSTANTS
  Models,
  ProviderOf,   \* ProviderOf[m]: the provider that serves m
  Local,        \* models that cost nothing
  Prompts,
  MaxAttempts,
  Budget        \* monthly_budget, in answers of models that are paid for

Providers == {ProviderOf[m] : m \in Models}

ASSUME RouterAssumption ==
  /\ IsFiniteSet(Models) /\ IsFiniteSet(Prompts)
  /\ Local \subseteq Models
  /\ MaxAttempts \in Nat \ {0}
  /\ Budget \in Nat

VARIABLES
  usable,   \* the providers that usable() says yes to
  spend,    \* _spend
  progress, \* what becomes of each call
  ranked,   \* the ranking each call was given, best first
  order,    \* the models it will try, in that order
  failed    \* how many of them have failed it

routerVars == <<usable, spend, progress, ranked, order, failed>>

RouterTypeOK ==
  /\ usable \in SUBSET Providers
  /\ spend  \in Nat
  /\ progress \in [Prompts -> {"idle", "asking", "answered", "failed"}]
  /\ ranked \in [Prompts -> Seq(Models)]
  /\ order  \in [Prompts -> Seq(Models)]
  /\ failed \in [Prompts -> Nat]
  /\ \A c \in Prompts : progress[c] = "asking" => failed[c] < Len(order[c])

RouterInit ==
  /\ usable = Providers
  /\ spend  = 0
  /\ progress = [c \in Prompts |-> "idle"]
  /\ ranked = [c \in Prompts |-> <<>>]
  /\ order  = [c \in Prompts |-> <<>>]
  /\ failed = [c \in Prompts |-> 0]
-----------------------------------------------------------------------------
SmallerOf(m, n) == IF m < n THEN m ELSE n

Alike(choices, i, j) == ProviderOf[choices[i]] = ProviderOf[choices[j]]

\* Which choice of its provider the i-th is.
Turn(choices, i) == Cardinality({j \in 1 .. i : Alike(choices, j, i)})

\* Where by_provider got the key of its provider.
Key(choices, i) == CHOOSE j \in 1 .. i : Alike(choices, j, i) /\ Turn(choices, j) = 1

\* zip_longest: the first choice of each provider, in the order of the keys,
\* then the second of each that has one ...
Ahead(choices) ==
  {p \in (DOMAIN choices) \X (DOMAIN choices) :
     \/ Turn(choices, p[1]) < Turn(choices, p[2])
     \/ Turn(choices, p[1]) = Turn(choices, p[2]) /\ Key(choices, p[1]) < Key(choices, p[2])}

Spread(choices) ==
  LET places == InOrder(DOMAIN choices, Ahead(choices))
  IN [r \in DOMAIN choices |-> choices[places[r]]]

ProvidersOf(choices) == {ProviderOf[choices[i]] : i \in DOMAIN choices}

\* Fault: so many attempts and no more.
AtMost(choices) == MaxAttempts

\* At least one for each provider.
Attempts(choices) ==
  LET providers == Cardinality(ProvidersOf(choices))
  IN IF providers > MaxAttempts THEN providers ELSE MaxAttempts

\* order[:attempts]
Tried(choices) ==
  SubSeq(Spread(choices), 1, SmallerOf(Attempts(choices), Len(choices)))

\* Fault: one answer late.
OverBudgetAfter == Budget # 0 /\ spend > Budget

OverBudget == Budget # 0 /\ spend >= Budget

\* The models that fit the need, whatever it is; only free ones are left when
\* the budget is spent.
Fitting ==
  {m \in Models : ProviderOf[m] \in usable /\ (OverBudget => m \in Local)}

Complete(c) ==
  /\ progress[c] # "asking"
  /\ \E Fit \in SUBSET Fitting : \E ranking \in SetToSeqs(Fit) :
       /\ ranked' = [ranked EXCEPT ![c] = ranking]
       /\ order'  = [order EXCEPT ![c] = Tried(ranking)]
       /\ progress'  = [progress EXCEPT ![c] = IF Fit = {} THEN "failed" ELSE "asking"]
  /\ UNCHANGED <<usable, spend, failed>>

Asked(c) == order[c][failed[c] + 1]

\* The call is over, and what it was offered is forgotten.
Over(c, how) ==
  /\ progress'  = [progress EXCEPT ![c] = how]
  /\ ranked' = [ranked EXCEPT ![c] = <<>>]
  /\ order'  = [order EXCEPT ![c] = <<>>]
  /\ failed' = [failed EXCEPT ![c] = 0]

ModelAnswers(c) ==
  /\ progress[c] = "asking"
  /\ spend' = IF Asked(c) \in Local THEN spend ELSE spend + 1
  /\ Over(c, "answered")
  /\ UNCHANGED usable

LastFails(c) == failed[c] + 1 = Len(order[c])

\* The failure is a measurement, and the next model is asked.
ModelFails(c) ==
  /\ progress[c] = "asking"
  /\ usable' = usable \ {ProviderOf[Asked(c)]}
  /\ IF LastFails(c)
     THEN Over(c, "failed")
     ELSE failed' = [failed EXCEPT ![c] = @ + 1] /\ UNCHANGED <<progress, ranked, order>>
  /\ UNCHANGED spend

\* Health: a check finds a provider well again, or at fault.
ProvidersChange ==
  /\ usable' \in SUBSET Providers
  /\ UNCHANGED <<spend, progress, ranked, order, failed>>

RouterNext ==
  \/ \E c \in Prompts : Complete(c) \/ ModelAnswers(c) \/ ModelFails(c)
  \/ ProvidersChange

RouterSpec == RouterInit /\ [][RouterNext]_routerVars
-----------------------------------------------------------------------------
\* A call gives up only when every provider that could have served it failed
\* it, however many models the first ones have.
NobodyIsUntried ==
  [][\A c \in Prompts :
       progress[c] = "asking" /\ progress'[c] = "failed"
         => ProvidersOf(SubSeq(order[c], 1, failed[c] + 1)) = ProvidersOf(ranked[c])]_routerVars

\* Calls that began with a cent left may exceed the budget, each by its own
\* answer; none that began after it was spent does.
SpendIsBounded == Budget # 0 => spend <= Budget + Cardinality(Prompts) - 1
=============================================================================
