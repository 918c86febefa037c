---------------------------- MODULE ExecutedFlow ----------------------------
(***************************************************************************)
(* What the control-flow graph promises about the trace, with no blocks:   *)
(* the set of address pairs that were executed one after the other.        *)
(* Splitting and merging blocks does not change it.  Only a jump backwards *)
(* may be missed when it is taken, and only the step to the trace's last   *)
(* record, which is not translated, may be forgotten when the trace ends.  *)
(***************************************************************************)
EXTENDS Integers

CONSTANTS Lo, Hi

VARIABLES
  last,       (* the next record of the trace                              *)
  flow,       (* pairs <<p, q>>: q was executed after p                    *)
  seen,       (* the addresses of the records translated so far            *)
  replaying   (* TRUE until the trace ends                                 *)

Location == Lo .. Hi

Init ==
  /\ last \in Location
  /\ flow = {}
  /\ seen = {}
  /\ replaying = TRUE

Observe(q) ==
  /\ replaying = TRUE
  /\ \/ flow' = flow \cup {<<last, q>>}
     \/ q <= last /\ flow' = flow
  /\ seen' = seen \cup {last}
  /\ last' = q
  /\ UNCHANGED replaying

End ==
  /\ replaying = TRUE
  /\ replaying' = FALSE
  /\ \/ flow' = flow
     \/ \E p \in Location : flow' = flow \ {<<p, last>>}
  /\ UNCHANGED <<last, seen>>

Forget ==
  /\ replaying = FALSE
  /\ last \notin seen
  /\ flow' = flow \ (Location \X {last})
  /\ UNCHANGED <<last, seen, replaying>>

Next == (\E q \in Location : Observe(q)) \/ End \/ Forget

Spec == Init /\ [][Next]_<<last, flow, seen, replaying>>
=============================================================================
