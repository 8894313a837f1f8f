---------------------------- MODULE MCFormatData ----------------------------
(* Format Data with what surrounds it: each of the constants has few values, *)
(* which the configuration gives as they are.                                *)
EXTENDS DataWipes

=============================================================================
