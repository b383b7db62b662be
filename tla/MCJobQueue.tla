----------------------------- MODULE MCJobQueue -----------------------------
(* The queue under any caller: two assets of different cost, two attempts. *)
EXTENDS JobQueue

CONSTANTS image, video

MCAssets == {image, video}
MCCost == [a \in MCAssets |-> IF a = image THEN 0 ELSE 1]
MCDelays == {1, 2}

=============================================================================
