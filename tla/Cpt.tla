--------------------------------- MODULE Cpt ---------------------------------
(***************************************************************************)
(* The vocabulary of the chat protocol ("CPT"): command and response       *)
(* codes, and the packets that travel in each direction.                   *)
(*                                                                         *)
(* A packet keeps the fields the programs act on.  The text of a message   *)
(* and the name typed at login are not represented: a name is identified   *)
(* with the descriptor of the client that logged in with it.               *)
(***************************************************************************)
EXTENDS Integers, Sequences

CONSTANTS
    Fds,      \* descriptors accept() may return, one per client process
    ChanMod   \* number of values of a channel_id; uint16_t makes it 65536

ASSUME FdsAssumption == Fds \subseteq Nat
ASSUME ChanModAssumption == ChanMod \in Nat \ {0}

SEND           == 1
LOGOUT         == 2
GET_USERS      == 3
CREATE_CHANNEL == 4
JOIN_CHANNEL   == 5
LEAVE_CHANNEL  == 6
LOGIN          == 7
FAILED         == 22

Chans == 0 .. ChanMod - 1

\* The conversion to uint16_t that pack() and the packet fields perform.
ToChan(n) == n % ChanMod

\* A request.  "list" holds, for CREATE_CHANNEL, the values message[i] - '0'
\* at the even positions of the text, the only ones the server looks at.
Requests == [cmd : SEND .. LOGIN, chan : Chans, list : Seq(Int)]

Request(cmd, chan, list) == [cmd |-> cmd, chan |-> chan, list |-> list]

\* Whom a request lists.
ListedBy(request) == {request.list[i] : i \in DOMAIN request.list}

\* A response.  Only the answer to GET_USERS and a relayed message have data;
\* "from" is not on the wire, it remembers whose message is relayed.
Users   == [fd : Fds, name : Fds]
Replies ==
    [code : {LOGOUT, CREATE_CHANNEL, JOIN_CHANNEL, LEAVE_CHANNEL, LOGIN, FAILED}]
      \cup [code : {SEND}, chan : Chans, from : Fds]
      \cup [code : {GET_USERS}, users : Seq(Users)]

Reply(code) == [code |-> code]
==============================================================================
