---------------------------- MODULE DurableStore ----------------------------
(***************************************************************************)
(* What the device relies on when it keeps its credential in a store       *)
(* (src/include/mybot/platform/mybot_kv_store.h): a record is replaced or  *)
(* removed as a whole, what set acknowledged survives a power loss, and a  *)
(* power loss at any other moment leaves each record as it was before or   *)
(* as it was to become.  A store whose first opening was cut short is      *)
(* loose: until a power loss has left it in place, one may take all of it. *)
(* KvStoreFile implements this specification.                              *)
(***************************************************************************)
CONSTANTS Keys, Values, Absent

VARIABLES
  store,   \* the record under each key
  maybe,   \* the records a power loss now may leave under each key
  open,    \* calls are taken
  loose,   \* the store itself may not survive a power loss
  op,      \* the call in progress, None if there is none
  result,  \* how the last call ended: "ok", "failed", or "none" after an interruption
  got      \* what the last get returned: a record, Absent, or "failed"

placeVars == <<open, loose>>
storeVars == <<store, maybe, placeVars, op, result, got>>

None == [call |-> "none"]
Settled == [k \in Keys |-> {store[k]}]
Nothing == [k \in Keys |-> Absent]

StoreInit ==
  /\ store = Nothing /\ maybe = Settled
  /\ open = FALSE /\ loose = FALSE
  /\ op = None /\ result = "none" /\ got = "failed"

Begin ==
  /\ open /\ op = None
  /\ \E k \in Keys, v \in Values \cup {Absent} :
       op' = [call |-> IF v = Absent THEN "erase" ELSE "set", key |-> k, value |-> v]
  /\ UNCHANGED <<store, maybe, placeVars, result, got>>

\* The record changes, once and as a whole; a power loss may still undo it.
TakeEffect ==
  /\ op # None
  /\ store' = [store EXCEPT ![op.key] = op.value]
  /\ maybe' = [maybe EXCEPT ![op.key] = @ \cup {op.value}]
  /\ UNCHANGED <<placeVars, op, result, got>>

\* The store opens, and what can be read in it now is made durable.
Open ==
  /\ ~open /\ open' = TRUE
  /\ maybe' = Settled
  /\ UNCHANGED <<store, loose, op, result, got>>

\* An opening that creates the store ends before the store is there to stay.
CutShort ==
  /\ ~open /\ store = Nothing
  /\ loose' = TRUE
  /\ UNCHANGED <<store, maybe, open, op, result, got>>

\* Success of set is durable; success of erase is that nothing can be read.
Return ==
  /\ op # None /\ op' = None
  /\ \/ result' = "failed"
     \/ /\ store[op.key] = op.value
        /\ op.call = "set" => maybe[op.key] = {op.value}
        /\ result' = "ok"
  /\ UNCHANGED <<store, maybe, placeVars, got>>

Get ==
  /\ open /\ op = None
  /\ got' \in {store[k] : k \in Keys} \cup {"failed"}
  /\ UNCHANGED <<store, maybe, placeVars, op, result>>

\* A call may make its last change durable as it returns.
SettleAndReturn ==
  /\ op # None /\ op' = None /\ maybe' = Settled
  /\ \/ result' = "failed"
     \/ store[op.key] = op.value /\ result' = "ok"
  /\ UNCHANGED <<store, placeVars, got>>

Interrupted == open' = FALSE /\ op' = None /\ result' = "none" /\ UNCHANGED got

\* Also in the middle of an opening that creates the store.
ProcessDies ==
  /\ Interrupted
  /\ loose' \in {loose, ~open /\ store = Nothing}
  /\ UNCHANGED <<store, maybe>>

\* Each record survives as it was or as it was to become, or a loose store goes as a whole.
PowerLoss ==
  /\ Interrupted
  /\ DOMAIN store' = Keys
  /\ (\A k \in Keys : store'[k] \in maybe[k]) \/ (loose /\ store' = Nothing)
  /\ maybe' = [k \in Keys |-> {store'[k]}]
  /\ loose' = FALSE

StoreNext ==
  \/ Open \/ CutShort \/ Begin \/ TakeEffect \/ Return \/ Get \/ SettleAndReturn
  \/ ProcessDies \/ PowerLoss

StoreSpec == StoreInit /\ [][StoreNext]_storeVars
=============================================================================
