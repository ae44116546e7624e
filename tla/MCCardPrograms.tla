--------------------------- MODULE MCCardPrograms ---------------------------
(***************************************************************************)
(* Every program of the card: those of one process with all of their       *)
(* rounds and chunks, those of several with one round of three chunks.     *)
(***************************************************************************)
EXTENDS CardPrograms

MCTests == UNION {{d} \X (DOMAIN Suite[d]) : d \in DOMAIN Suite}
MCRounds == [d \in DOMAIN Suite |-> IF d = "MP" THEN 1 ELSE 10]
MCIoctls == [d \in DOMAIN Suite |-> IF d = "MP" THEN 3 ELSE 400]
=============================================================================
