-------------------------------- MODULE MCUtp --------------------------------
(***************************************************************************)
(* Instances of Utp.                                                       *)
(***************************************************************************)
EXTENDS Utp

CONSTANTS ClientWrites, ServerWrites

Writes == [e \in Ends |-> IF e = "client" THEN ClientWrites ELSE ServerWrites]

=============================================================================
