------------------------------ MODULE ManualControl ------------------------------
(***************************************************************************)
(* What the remote bridge promises whoever shares /cmd_vel with it: it asks   *)
(* for motion only while its watchdog has something to watch, and what it     *)
(* watches it gives up only after a stop; unless the watchdog loses what it   *)
(* watched, which the next packet makes good.                              *)
(***************************************************************************)
VARIABLES
  cmd,      \* the last velocity it published: drive or stop
  watched,  \* a packet came that the watchdog has not timed out yet
  lost      \* the watchdog has erased the stamp of a packet that was under way

Init == cmd = "stop" /\ watched = FALSE /\ lost = FALSE

Renew  == watched' = TRUE /\ lost' = FALSE /\ UNCHANGED cmd
Drive  == (watched \/ lost) /\ cmd' = "drive" /\ UNCHANGED <<watched, lost>>
Halt   == cmd' = "stop" /\ UNCHANGED <<watched, lost>>
Expire == watched /\ cmd = "stop" /\ watched' = FALSE /\ UNCHANGED <<cmd, lost>>
Lose   == watched /\ watched' = FALSE /\ lost' = TRUE /\ UNCHANGED cmd

Next == Renew \/ Drive \/ Halt \/ Expire \/ Lose
Safety == Init /\ [][Next]_<<cmd, watched, lost>>
=============================================================================
