------------------------------ MODULE ChatClient ------------------------------
(***************************************************************************)
(* The client program, src/src/client.c: struct ClientState, the commands  *)
(* typed at the keyboard and the responses read from the server.  One      *)
(* instance of the program runs behind each descriptor of Fds; its state   *)
(* exists while peer[fd] = "open" and is reset when the process ends.      *)
(***************************************************************************)
EXTENDS Wire

CONSTANTS
    Commands,    \* the commands typed in this instance
    ChanArgs,    \* numbers typed after &join, &leave and &users
    UserLists,   \* lists typed after &create
    Counted,     \* the commands whose number is bounded
    MaxCounted   \* bound on the number of those typed, all clients together

ASSUME CommandsAssumption == Commands \subseteq SEND .. LOGIN /\ Counted \subseteq Commands
ASSUME ArgsAssumption == ChanArgs \subseteq Int /\ UserLists \subseteq Seq(Int)
ASSUME MaxCountedAssumption == MaxCounted \in Nat

VARIABLES
    is_logged_in,
    current_channel,
    previous_channel,
    counted            \* commands of Counted typed so far

stateVars  == <<is_logged_in, current_channel, previous_channel>>
clientVars == <<stateVars, counted>>

ClientTypeOK ==
    /\ is_logged_in \in [Fds -> BOOLEAN]
    /\ current_channel \in [Fds -> Int]
    /\ previous_channel \in [Fds -> Int]
    /\ counted \in Nat

ClientInit ==
    /\ is_logged_in = [fd \in Fds |-> FALSE]
    /\ current_channel = [fd \in Fds |-> 0]
    /\ previous_channel = [fd \in Fds |-> 0]
    /\ counted = 0

-------------------------------------------------------------------------------
(* process_client_input(): one line of the keyboard *)

\* A command the program accepts in its present state is sent; before login
\* only &login is, after login &login is an unknown command.
Type(fd, cmd, chan, list) ==
    /\ cmd \in Commands
    /\ peer[fd] = "open"
    /\ is_logged_in[fd] <=> cmd # LOGIN
    /\ ClientSend(fd, Request(cmd, chan, list))
    /\ IF cmd \in Counted
         THEN counted < MaxCounted /\ counted' = counted + 1
         ELSE UNCHANGED counted

TypeLogin(fd) == Type(fd, LOGIN, 0, <<>>) /\ UNCHANGED stateVars

\* Any other text goes to the current channel, cut to 16 bits.
TypeMessage(fd) ==
    /\ Type(fd, SEND, ToChan(current_channel[fd]), <<>>)
    /\ UNCHANGED stateVars

TypeLogout(fd) == Type(fd, LOGOUT, 0, <<>>) /\ UNCHANGED stateVars

TypeUsers(fd) ==
    /\ \E arg \in ChanArgs : Type(fd, GET_USERS, ToChan(arg), <<>>)
    /\ UNCHANGED stateVars

TypeCreate(fd) ==
    /\ \E list \in UserLists : Type(fd, CREATE_CHANNEL, 0, list)
    /\ UNCHANGED stateVars

\* The client moves to the channel at once, before any answer.
TypeJoin(fd) ==
    /\ \E arg \in ChanArgs :
          /\ Type(fd, JOIN_CHANNEL, ToChan(arg), <<>>)
          /\ current_channel' = [current_channel EXCEPT ![fd] = arg]
    /\ previous_channel' = [previous_channel EXCEPT ![fd] = current_channel[fd]]
    /\ UNCHANGED is_logged_in

\* Leaving any channel, the current one or not, moves the client to 0.
TypeLeave(fd) ==
    /\ \E arg \in ChanArgs : Type(fd, LEAVE_CHANNEL, ToChan(arg), <<>>)
    /\ current_channel' = [current_channel EXCEPT ![fd] = 0]
    /\ UNCHANGED <<is_logged_in, previous_channel>>

\* &exit, or the process is interrupted, logged in or not.
Exit(fd) ==
    /\ ClientClose(fd)
    /\ is_logged_in' = [is_logged_in EXCEPT ![fd] = FALSE]
    /\ current_channel' = [current_channel EXCEPT ![fd] = 0]
    /\ previous_channel' = [previous_channel EXCEPT ![fd] = 0]
    /\ UNCHANGED counted

-------------------------------------------------------------------------------
(* cpt_process_response(): the first packet of what read() returned *)

\* Wrong: the break after SEND and GET_USERS is missing, LOGOUT comes next.
ProcessResponseFallsThrough(fd, code) ==
    /\ is_logged_in' =
         [is_logged_in EXCEPT ![fd] = IF code = LOGIN THEN TRUE
                                      ELSE IF code \in {SEND, GET_USERS, LOGOUT}
                                             THEN FALSE ELSE @]
    /\ UNCHANGED <<current_channel, previous_channel>>

\* FAILED is taken for a failed join, whatever command it answers.
ProcessResponse(fd, code) ==
    /\ is_logged_in' =
         [is_logged_in EXCEPT ![fd] = IF code = LOGIN THEN TRUE
                                      ELSE IF code = LOGOUT THEN FALSE ELSE @]
    /\ current_channel' =
         [current_channel EXCEPT ![fd] = IF code = FAILED THEN previous_channel[fd]
                                         ELSE @]
    /\ UNCHANGED previous_channel

Receive(fd) ==
    /\ peer[fd] = "open"
    /\ toClient[fd] # <<>>
    /\ ClientRead(fd)
    /\ ProcessResponse(fd, Head(toClient[fd]).code)
    /\ UNCHANGED counted

Keyboard(fd) ==
    \/ TypeLogin(fd) \/ TypeMessage(fd) \/ TypeLogout(fd) \/ TypeUsers(fd)
    \/ TypeCreate(fd) \/ TypeJoin(fd) \/ TypeLeave(fd)
===============================================================================
