--------------------------- MODULE ReadersWriters ---------------------------
(***************************************************************************)
(* What the lease table promises its callers (the module docstring and the *)
(* comments of LeaseMode in runtime/leases.py): many readers of a key      *)
(* proceed together, a writer of a key is alone on it, and a caller gets   *)
(* all of the keys it asked for in one step or none of them.               *)
(***************************************************************************)
CONSTANTS Keys, Calls

VARIABLE users   \* users[k]: the <<call, mode>> pairs now using key k

Users == [call : Calls, mode : {"shared", "exclusive"}]

RWTypeOK == users \in [Keys -> SUBSET Users]

RWInit == users = [k \in Keys |-> {}]

Compatible(k, m) ==
  IF m = "exclusive" THEN users[k] = {}
  ELSE \A u \in users[k] : u.mode = "shared"

Enter(c, ks, m) ==
  /\ \A k \in Keys : \A u \in users[k] : u.call # c
  /\ \A k \in ks : Compatible(k, m)
  /\ users' = [k \in Keys |-> IF k \in ks THEN users[k] \cup {[call |-> c, mode |-> m]}
                              ELSE users[k]]

Leave(c) ==
  users' = [k \in Keys |-> {u \in users[k] : u.call # c}]

RWNext ==
  \E c \in Calls :
    \/ \E ks \in SUBSET Keys, m \in {"shared", "exclusive"} : Enter(c, ks, m)
    \/ Leave(c)

RWSpec == RWInit /\ [][RWNext]_users
=============================================================================
