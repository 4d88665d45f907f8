-------------------------------- MODULE MCChat --------------------------------
(* Values for the constants of ChatSystem that a .cfg cannot express. *)
EXTENDS ChatClaims

CmdAll       == SEND .. LOGIN
CmdStay      == {LOGIN, LEAVE_CHANNEL, SEND}
CmdMove      == {LOGIN, LOGOUT, JOIN_CHANNEL, LEAVE_CHANNEL}
CmdLeave     == {LOGIN, LEAVE_CHANNEL}
CmdEnter     == {LOGIN, JOIN_CHANNEL, CREATE_CHANNEL}
JustCreate   == {CREATE_CHANNEL}

NoList       == {<<>>}
ListTwice    == {<<5>>, <<5, 5>>}
===============================================================================
