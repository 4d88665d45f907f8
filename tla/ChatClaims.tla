------------------------------ MODULE ChatClaims ------------------------------
(***************************************************************************)
(* What comments of the repository say of the program, stated as they are  *)
(* written.  Each is refuted by what the code does; the run that shows it  *)
(* is listed in PROJECT.json with the comment it quotes.                   *)
(***************************************************************************)
EXTENDS ChatSystem

\* A join or a create by a client without registrations is checked and
\* refused, main.c:502.  The caller reads client->name before the check, so
\* it kills the server when the list is empty.
LoginIsCheckedFirst == pc # "segv"

\* Joining adds the client's own information to the channel, client.c:490.
JoinAddsOwnName == \A i \in DOMAIN client : client[i].name = client[i].fd

\* Leaving returns one code if successful and another if not, main.c:108.  A
\* client that is not in the channel it leaves gets the first.
LeaveTellsFailure ==
    [][\A fd \in Fds :
          ServeLeave(fd) /\ ~ Member(client, fd, Packet(fd).chan) =>
              outbox'[1].reply.code # LEAVE_CHANNEL]_vars

\* Creating makes a new channel, client.c:520: who is in it is the creator or
\* listed by it.  The counter does not know of the numbers that were joined,
\* which need not be those of existing channels as client.c:490 has it, and it
\* wraps.
CreatesNew ==
    [][\A fd \in Fds :
          ServeCreate(fd) /\ LoggedIn(client, fd) =>
              \A g \in Fds : Member(client', g, channelId') =>
                                g = fd \/ g \in ListedBy(Packet(fd))]_vars
===============================================================================
