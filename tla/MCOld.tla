--------------------------------- MODULE MCOld ---------------------------------
(* Values for the constants of OldSystem that a .cfg cannot express. *)
EXTENDS OldClaims

CmdAll    == SEND .. LOGIN
CmdCreate == {LOGIN, CREATE_CHANNEL}
ListOlder == {<<>>, <<4>>}
===============================================================================
