------------------------------ MODULE ClientList ------------------------------
(***************************************************************************)
(* struct Client, the singly linked list in which the server keeps its     *)
(* registrations: one node per (descriptor, channel), newest first.  A     *)
(* client counts as logged in when any node carries its descriptor.        *)
(*                                                                         *)
(* A list is a sequence whose first element is the head.  Filters are      *)
(* recursive functions and not SelectSeq so that TLAPS can reason on them. *)
(***************************************************************************)
EXTENDS Cpt

Nodes == [fd : Fds, chan : Chans, name : Fds]

FdsOf(list) == {list[i].fd : i \in DOMAIN list}

LoggedIn(list, fd) == \E i \in DOMAIN list : list[i].fd = fd

Member(list, fd, chan) ==
    \E i \in DOMAIN list : list[i].fd = fd /\ list[i].chan = chan

\* push(): a new node in front of the head.
Push(list, chan, fd, name) ==
    <<[fd |-> fd, chan |-> chan, name |-> name]>> \o list

\* The elements of list that are in S, in order.
Keep(list, S) ==
    LET kept[i \in 0 .. Len(list)] ==
          IF i = 0 THEN <<>>
          ELSE IF list[i] \in S THEN Append(kept[i - 1], list[i])
          ELSE kept[i - 1]
    IN  kept[Len(list)]

\* Wrong: no wildcard.
DeleteClientExact(list, chan, fd) ==
    Keep(list, {n \in Nodes : ~ (n.fd = fd /\ n.chan = chan)})

\* delete_client(): unlinks every matching node; channel -1 matches all.
DeleteClient(list, chan, fd) ==
    Keep(list, {n \in Nodes : ~ (n.fd = fd /\ chan \in {-1, n.chan})})

\* The nodes a message on chan is relayed to: its sender's are skipped.
Listeners(list, chan, sender) ==
    Keep(list, {n \in Nodes : n.chan = chan /\ n.fd # sender})

\* The name in the first node that carries fd.
NameOf(list, fd) == Keep(list, {n \in Nodes : n.fd = fd})[1].name

\* Wrong: whoever is listed is pushed, registered or not.
CreateNodesUnchecked(list, chan, fd, listed) ==
    LET found == Keep(listed, Fds)
    IN  [i \in DOMAIN found |-> [fd |-> found[i], chan |-> chan, name |-> found[i]]]
          \o Push(list, chan, fd, list[1].name)

\* cpt_create_channel_response() once the caller is known to be logged in:
\* the creator is pushed, with the name in the head node, then each listed
\* descriptor that has a node in the list as it was on entry.  Nothing
\* rejects a repeated descriptor, or the creator's own.
CreateNodes(list, chan, fd, listed) ==
    LET found == Keep(listed, FdsOf(list))
        n     == Len(found)
    IN  [i \in 1 .. n |-> [fd   |-> found[n + 1 - i],
                           chan |-> chan,
                           name |-> NameOf(list, found[n + 1 - i])]]
          \o Push(list, chan, fd, list[1].name)

\* get_uesrs_list(): a line "fd name" per node of the channel.
UsersOf(list, chan) ==
    LET nodes == Keep(list, {n \in Nodes : n.chan = chan})
    IN  [i \in DOMAIN nodes |-> [fd |-> nodes[i].fd, name |-> nodes[i].name]]
===============================================================================
