---------------------------- MODULE PartitionFlash ----------------------------
(***************************************************************************)
(* What flashing a set of partitions promises: nothing is touched before   *)
(* it is settled what goes where; then one partition after the other is    *)
(* written, in the order of their names; the device is told to go on only  *)
(* when all of them are whole, and success is answered only after that.  A *)
(* failure may be answered at any time, and ends everything: at most one   *)
(* partition is left torn.                                                 *)
(***************************************************************************)
EXTENDS Naturals, Sequences, Overlay

CONSTANTS Order,   (* the partition names there are, in their order        *)
          Torn

VARIABLES chosen,  (* what goes to which partition; <<>> until settled     *)
          device,  (* what is on them                                      *)
          booted,
          result   (* "none", "ok" or "err"                                *)

vars == <<chosen, device, booted, result>>

Init == chosen = <<>> /\ device = <<>> /\ booted = FALSE /\ result = "none"

Rank(p) == CHOOSE k \in DOMAIN Order : Order[k] = p

Whole(p) == p \in DOMAIN device /\ device[p] = chosen[p]

Choose ==
  /\ chosen = <<>> /\ result = "none"
  /\ chosen' # <<>>
  /\ UNCHANGED <<device, booted, result>>

Begin(p) ==
  /\ result = "none" /\ ~booted /\ p \notin DOMAIN device
  /\ \A q \in DOMAIN chosen : IF Rank(q) < Rank(p) THEN Whole(q) ELSE q \notin DOMAIN device
  /\ device' = Put(device, p, Torn)
  /\ UNCHANGED <<chosen, booted, result>>

Complete(p) ==
  /\ result = "none"
  /\ p \in DOMAIN device /\ device[p] = Torn
  /\ device' = [device EXCEPT ![p] = chosen[p]]
  /\ UNCHANGED <<chosen, booted, result>>

Boot ==
  /\ result = "none" /\ chosen # <<>> /\ device = chosen
  /\ booted' = TRUE
  /\ UNCHANGED <<chosen, device, result>>

Succeed == result = "none" /\ booted /\ result' = "ok" /\ UNCHANGED <<chosen, device, booted>>

Fail == result = "none" /\ result' = "err" /\ UNCHANGED <<chosen, device, booted>>

Next ==
  \/ Choose \/ Boot \/ Succeed \/ Fail
  \/ \E p \in DOMAIN chosen : Begin(p) \/ Complete(p)

Spec == Init /\ [][Next]_vars
=============================================================================
