------------------------------ MODULE HoldBook ------------------------------
(***************************************************************************)
(* What the dispatch flow promises about stock, with no requests, reads or  *)
(* batches in it: a bundle is in one place at a time.  It is out of the     *)
(* book, free, void, held by one dispatch that is open for holding, or gone *)
(* with one dispatch, for good.                                             *)
(***************************************************************************)
CONSTANTS Bundles, Dispatches

VARIABLES
    where,      \* where each bundle is
    stage       \* the stage each dispatch has reached

Out == <<"out">>
Free == <<"free">>
Void == <<"void">>
Held(d) == <<"held", d>>
Gone(d) == <<"gone", d>>

Stages == {"absent", "draft", "reserved", "completed", "cancelled"}

BookInit ==
    /\ where \in [Bundles -> {Out, Free}]
    /\ stage = [d \in Dispatches |-> "absent"]

Enter(b) ==
    /\ where[b] = Out
    /\ where' = [where EXCEPT ![b] = Free]
    /\ UNCHANGED stage

Strike(b) ==
    /\ where[b] = Free
    /\ where' = [where EXCEPT ![b] = Void]
    /\ UNCHANGED stage

Reinstate(b) ==
    /\ where[b] = Void
    /\ where' = [where EXCEPT ![b] = Free]
    /\ UNCHANGED stage

Open(d) ==
    /\ stage[d] = "absent"
    /\ stage' = [stage EXCEPT ![d] = "draft"]
    /\ UNCHANGED where

(* Hold free bundles: on reserving the dispatch, or while it is reserved. *)
Take(d, bs) ==
    /\ \A b \in bs : where[b] = Free
    /\ stage[d] \in {"draft", "reserved"}
    /\ stage' = [stage EXCEPT ![d] = "reserved"]
    /\ where' = [b \in Bundles |-> IF b \in bs THEN Held(d) ELSE where[b]]

GiveBack(d, b) ==
    /\ where[b] = Held(d)
    /\ where' = [where EXCEPT ![b] = Free]
    /\ UNCHANGED stage

Freed(d) == [b \in Bundles |-> IF where[b] = Held(d) THEN Free ELSE where[b]]

Reopen(d) ==
    /\ stage[d] = "reserved"
    /\ stage' = [stage EXCEPT ![d] = "draft"]
    /\ where' = Freed(d)

Cancel(d) ==
    /\ stage[d] \in {"draft", "reserved"}
    /\ stage' = [stage EXCEPT ![d] = "cancelled"]
    /\ where' = Freed(d)

(* Some of what is held leaves; whatever does not is free again. *)
Ship(d, bs) ==
    /\ stage[d] = "reserved"
    /\ \A b \in bs : where[b] = Held(d)
    /\ stage' = [stage EXCEPT ![d] = "completed"]
    /\ where' = [b \in Bundles |-> IF b \in bs THEN Gone(d) ELSE Freed(d)[b]]

BookNext ==
    \/ \E b \in Bundles : Enter(b) \/ Strike(b) \/ Reinstate(b)
    \/ \E d \in Dispatches :
        \/ Open(d)
        \/ \E bs \in SUBSET Bundles : Take(d, bs) \/ Ship(d, bs)
        \/ \E b \in Bundles : GiveBack(d, b)
        \/ Reopen(d)
        \/ Cancel(d)

BookSpec == BookInit /\ [][BookNext]_<<where, stage>>
=============================================================================
