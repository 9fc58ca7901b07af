-------------------------------- MODULE Flash --------------------------------
(***************************************************************************)
(* What flashing an image promises, whatever the source: blocks reach the  *)
(* device in the order of the image, none skipped, repeated or foreign,    *)
(* and success is answered once the device holds the image and has been    *)
(* synced.  A failure may be answered at any time, and blocks already on   *)
(* their way may still arrive after it.                                    *)
(***************************************************************************)
EXTENDS Naturals, Sequences

VARIABLES image,   (* the blocks of the image, in order                    *)
          device,  (* blocks written                                       *)
          synced,  (* has the device been told to make them durable?       *)
          result   (* "none", "ok" or "err"                                *)

vars == <<image, device, synced, result>>

Init == image \in Seq(Nat) /\ device = <<>> /\ synced = FALSE /\ result = "none"

WriteBlock ==
  /\ result # "ok"
  /\ Len(device) < Len(image)
  /\ device' = Append(device, image[Len(device) + 1])
  /\ synced' = FALSE
  /\ UNCHANGED <<image, result>>

Sync == synced' = TRUE /\ UNCHANGED <<image, device, result>>

Succeed ==
  /\ result = "none"
  /\ device = image /\ synced
  /\ result' = "ok"
  /\ UNCHANGED <<image, device, synced>>

Fail == result = "none" /\ result' = "err" /\ UNCHANGED <<image, device, synced>>

Next == WriteBlock \/ Sync \/ Succeed \/ Fail

Spec == Init /\ [][Next]_vars
=============================================================================
