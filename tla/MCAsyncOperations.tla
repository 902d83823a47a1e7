------------------------- MODULE MCAsyncOperations -------------------------
(* Values of the constants of AsyncOperations for TLC's runs. *)
EXTENDS AsyncOperations

MCKind == [o \in Op |-> o]
MCMaxTrouble == [k \in Troubles |-> IF k = "fault" THEN 2 ELSE 1]
=============================================================================
