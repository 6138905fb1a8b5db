-------------------------- MODULE MCCapacitorBank --------------------------
(* The reference facility's bank at light, medium and heavy loads, with    *)
(* reactive powers on both sides of each threshold at every stage.         *)
EXTENDS CapacitorBank

MCLoading == {162, 446, 700, 1315} \X {0, 28, 79, 129, 150, 218, 282, 390, 420, 640, 843}
=============================================================================
