------------------------------ MODULE MCAuthority ------------------------------
(* Authority and Adoption with two controllers, two grants and two         *)
(* commands.                                                               *)
EXTENDS Adoption, TLC

================================================================================
