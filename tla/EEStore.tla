------------------------------ MODULE EEStore -------------------------------
(***************************************************************************)
(* What EE_WriteVariable and EE_ReadVariable promise their callers in      *)
(* main.c and httpUtil.c: a store of 16-bit variables in which a write     *)
(* takes effect at one instant between its call and its return, and which  *)
(* a power loss leaves as it is.  Once the flash has failed, only that     *)
(* each variable reads as data of its own is left of the promise.          *)
(***************************************************************************)
CONSTANTS Addrs, ValuesOf, NotFound

VARIABLES
  store,  \* store[a]: what a read of a delivers
  req,    \* {} or {[addr, data]}: the write in progress
  sound   \* no fault so far

storeVars == <<store, req, sound>>

Init == store = [a \in Addrs |-> NotFound] /\ req = {} /\ sound = TRUE

Request(a, d) == /\ req = {}
                 /\ req' = {[addr |-> a, data |-> d]}
                 /\ sound' = sound /\ UNCHANGED store

\* The write takes effect; the call may return with it.
Commit == \E r \in req : /\ req' \in {req, {}} /\ sound' = sound
                         /\ store' = [store EXCEPT ![r.addr] = r.data]

\* The call returns; the variable holds the data.
Reply == \E r \in req : /\ req' = {} /\ sound' = sound /\ UNCHANGED store
                        /\ store[r.addr] = r.data

\* Power fails: the write in progress has taken effect or never will.
Crash == req' = {} /\ sound' = sound /\ UNCHANGED store

\* A fault, and any step after one.
Unsound == /\ ~sound'
           /\ \A a \in Addrs : store'[a] \in ValuesOf[a] \cup {NotFound}
           /\ \/ req' \in {req, {}}
              \/ \E a \in Addrs : \E d \in ValuesOf[a] : req' = {[addr |-> a, data |-> d]}

Next == \/ \E a \in Addrs : \E d \in ValuesOf[a] : Request(a, d)
        \/ Commit \/ Reply \/ Crash
        \/ Unsound

Spec == Init /\ [][Next]_storeVars
=============================================================================
