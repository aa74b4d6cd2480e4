----------------------------- MODULE MCSessions -----------------------------
(* Instances of Sessions for TLC. *)
EXTENDS Sessions, TLC

\* Every client on /salesforce/user.
CodeMount == [c \in ClientIDs |-> "code"]

\* One client on /salesforce/system, every other on /salesforce/direct.
CONSTANT SystemClient
MixedMounts == [c \in ClientIDs |-> IF c = SystemClient THEN "credentials" ELSE "password"]

\* Two clients need two names, and it makes no difference which has which.
LiveInit == Init /\ clients[SystemClient].name = CHOOSE n \in Names : TRUE
LiveSpec ==
    LiveInit /\ [][Next]_vars /\ \A h \in Handlers : WF_vars(Executes(h))

\* Nothing orders or distinguishes handlers, or the users of one client.
Symmetry == Permutations(Handlers) \cup Permutations(UserIDs)
=============================================================================
