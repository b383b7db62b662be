----------------------------- MODULE MCDeriving -----------------------------
(* Small instances of Deriving: an image that is cheap and, where two assets *)
(* are wanted, a video that is dear.  A machine is set up like the server,   *)
(* with widths of its own, or without ffmpeg.                                *)
EXTENDS Deriving

CONSTANTS image, video,
          local, r1, bare, client

MCCost == [a \in Assets |-> IF a = image THEN 0 ELSE 1]

\* An image has one form, a video two.
MCLadder ==
    [w \in Workers |-> [a \in Assets |->
        CASE a = image   -> {1}
          [] w = bare    -> {}
          [] w = client  -> {2, 3}
          [] OTHER       -> {1, 2}]]

MCDelays == 1..RetryCap

=============================================================================
