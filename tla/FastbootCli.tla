----------------------------- MODULE FastbootCli -----------------------------
(***************************************************************************)
(* The fastboot command line tool as a child process, and the device it    *)
(* talks to (run_fastboot_command, fastboot.rs 151-186).  For EXTENDS: the *)
(* program's own steps spawn the child, wait for it and kill it.           *)
(***************************************************************************)
EXTENDS Naturals, Sequences, Overlay

CONSTANTS Torn   (* what a partition holds while it is being written       *)

VARIABLES
  child,     (* "none", "running", "exit0" or "failed"                     *)
  command,   (* its arguments: <<>>, <<"devices">>, <<"continue">> or      *)
             (* <<"flash", partition, path>>                               *)
  attached,  (* is there a device that speaks fastboot?                    *)
  device,    (* what was written to it, by partition                       *)
  booted     (* has it been told to go on?                                 *)

childVars == <<child, command, attached, device, booted>>

CliInit ==
  /\ child = "none" /\ command = <<>>
  /\ attached \in BOOLEAN /\ device = <<>> /\ booted = FALSE

(* cmd.output() starts the process.                                        *)
Spawn(args) ==
  /\ child = "none"
  /\ child' = "running" /\ command' = args
  /\ UNCHANGED <<attached, device, booted>>

(* The caller has taken the exit status.                                   *)
Reap == child' = "none" /\ command' = <<>> /\ UNCHANGED <<attached, device, booted>>

(* The future is dropped by timeout(), and the process with it.            *)
Kill == child = "running" /\ Reap

-----------------------------------------------------------------------------
(* What the child does.                                                    *)

Doing(what) == child = "running" /\ command[1] = what

(* It sends the file; until it is all there the partition is torn.  A file *)
(* that has gone is an error.                                              *)
ChildBeginsFlash ==
  /\ Doing("flash") /\ attached
  /\ command[2] \in DOMAIN device => device[command[2]] # Torn
  /\ device' = Put(device, command[2], Torn)
  /\ UNCHANGED <<child, command, attached, booted>>

ChildEndsFlash(contents) ==
  /\ Doing("flash") /\ command[2] \in DOMAIN device /\ device[command[2]] = Torn
  /\ device' = [device EXCEPT ![command[2]] = contents[command[3]]]
  /\ child' = "exit0"
  /\ UNCHANGED <<command, attached, booted>>

ChildContinues ==
  /\ Doing("continue") /\ attached
  /\ booted' = TRUE /\ child' = "exit0"
  /\ UNCHANGED <<command, attached, device>>

(* It lists what is attached, also if that is nothing.                     *)
ChildLists == Doing("devices") /\ child' = "exit0" /\ UNCHANGED <<command, attached, device, booted>>

ChildFails ==
  /\ child = "running"
  /\ child' = "failed"
  /\ UNCHANGED <<command, attached, device, booted>>
=============================================================================
