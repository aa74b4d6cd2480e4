----------------------------- MODULE FieldStore -----------------------------
(***************************************************************************)
(* What POST config/custom-fields promises: a call replaces all custom     *)
(* fields of its client, at one instant between request and response, or   *)
(* is refused and replaces nothing.  The fields disappear otherwise only   *)
(* as a whole, when the client's object types are registered anew or the   *)
(* integration is deleted.                                                 *)
(***************************************************************************)
CONSTANTS
    Callers,    \* calls in progress at once
    Clients,    \* whose fields are stored
    Fields,     \* all custom fields
    NoClient    \* the client of no call

VARIABLES
    custom,     \* [Clients -> SUBSET Fields]
    call        \* [Callers -> Call]

storeVars == <<custom, call>>

Call == [state: {"none", "pending", "ok", "error"},
         client: Clients \cup {NoClient},
         fields: SUBSET Fields]

NoCall == [state |-> "none", client |-> NoClient, fields |-> {}]

StoreInit ==
    /\ custom = [c \in Clients |-> {}]
    /\ call = [k \in Callers |-> NoCall]

\* A call for some client with some fields.
Submit(k) ==
    /\ call[k] = NoCall
    /\ call'[k] \in [state: {"pending"}, client: Clients, fields: SUBSET Fields]
    /\ call' = [call EXCEPT ![k] = call'[k]]
    /\ UNCHANGED custom

Replace(k) ==
    /\ call[k].state = "pending"
    /\ custom' = [custom EXCEPT ![call[k].client] = call[k].fields]
    /\ call' = [call EXCEPT ![k].state = "ok"]

Refuse(k) ==
    /\ call[k].state = "pending"
    /\ call' = [call EXCEPT ![k].state = "error"]
    /\ UNCHANGED custom

Return(k) ==
    /\ call[k].state \in {"ok", "error"}
    /\ call' = [call EXCEPT ![k] = NoCall]
    /\ UNCHANGED custom

Clear(c) ==
    /\ custom' = [custom EXCEPT ![c] = {}]
    /\ UNCHANGED call

Abandon ==
    /\ call' = [k \in Callers |-> NoCall]
    /\ UNCHANGED custom

StoreNext ==
    \/ \E k \in Callers :
         \/ Submit(k)
         \/ Replace(k)
         \/ Refuse(k)
         \/ Return(k)
    \/ \E c \in Clients : Clear(c)
    \/ Abandon

StoreSpec == StoreInit /\ [][StoreNext]_storeVars
=============================================================================
