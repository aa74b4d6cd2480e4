----------------------------- MODULE Lifecycle -----------------------------
(***************************************************************************)
(* What the secret of a client is good for.  A client is activated and     *)
(* ended by those who once presented the secret that counted at that       *)
(* moment, and by nobody else; a reset replaces the secret by one that     *)
(* nobody has presented.  Once created a client never becomes pending, or  *)
(* open for routing, again.  Which JWT carries the permission, when it is  *)
(* signed and when it expires is left open.                                *)
(***************************************************************************)
EXTENDS Naturals

CONSTANTS
    Clients,
    Holders    \* those who present secrets

VARIABLES
    stage,     \* [Clients -> {"none", "pending", "routing", "active", "ended"}]
    key,       \* [Clients -> Nat], the secret that counts, 0 for none
    grants     \* [Holders -> sets of grants], the secrets found correct

lifeVars == <<stage, key, grants>>

LifeInit ==
    /\ stage = [c \in Clients |-> "none"]
    /\ key = [c \in Clients |-> 0]
    /\ grants = [h \in Holders |-> {}]

\* A secret that no client has and no grant goes by.
Fresh(k) ==
    /\ k > 0
    /\ \A c \in Clients : key[c] # k
    /\ \A h \in Holders : \A g \in grants[h] : g.key # k

\* Client c comes by a new secret.
NewKey(c) ==
    /\ Fresh(key'[c])
    /\ key' = [key EXCEPT ![c] = key'[c]]

Create(c, first) ==
    /\ stage[c] = "none"
    /\ stage' = [stage EXCEPT ![c] = first]
    /\ NewKey(c)
    /\ UNCHANGED grants

Reset(c) ==
    /\ stage[c] # "none"
    /\ stage' = [stage EXCEPT ![c] = "ended"]
    /\ NewKey(c)
    /\ UNCHANGED grants

Present(h, c) ==
    /\ stage[c] # "none"
    /\ grants' = [grants EXCEPT ![h] = @ \cup {[client |-> c, key |-> key[c]]}]
    /\ UNCHANGED <<stage, key>>

Forget(h) ==
    /\ \E kept \in SUBSET grants[h] : grants' = [grants EXCEPT ![h] = kept]
    /\ UNCHANGED <<stage, key>>

\* The secret of a grant may have been replaced meanwhile.
Use(g, next) ==
    /\ stage[g.client] # "none"
    /\ stage' = [stage EXCEPT ![g.client] = next]
    /\ UNCHANGED <<key, grants>>

LifeNext ==
    \/ \E c \in Clients : Create(c, "pending") \/ Create(c, "routing") \/ Reset(c)
    \/ \E h \in Holders :
         \/ \E c \in Clients : Present(h, c)
         \/ Forget(h)
         \/ \E g \in grants[h] : Use(g, "active") \/ Use(g, "ended")

LifeSpec == LifeInit /\ [][LifeNext]_lifeVars
=============================================================================
