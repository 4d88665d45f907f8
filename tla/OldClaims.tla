------------------------------- MODULE OldClaims -------------------------------
(* What a comment of src/src/server.c says of it, refuted by what it does. *)
EXTENDS OldSystem

\* A channel is created with the users in the message: "Find all fd's in the
\* message and add them to the new channel", server.c:564.  The handler is given
\* the packet's msg_len, which is 0, and never looks at the message.
ListedAreAdded ==
    [][\A temp \in Fds :
          ServeCreate(temp) /\ LoggedIn(client, temp) =>
              \A g \in ListedBy(Packet(temp)) :
                 LoggedIn(client, g) => Member(client', g, channelId')]_vars
===============================================================================
