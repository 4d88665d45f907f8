--------------------------------- MODULE Wire ---------------------------------
(***************************************************************************)
(* The TCP connections between the server and its clients, seen through    *)
(* the calls the two programs make: both ends are non-blocking, neither    *)
(* checks what send() returns, and each read() hands a buffer of up to     *)
(* 1024 bytes to unpack(), which decodes the first packet in it.           *)
(*                                                                         *)
(* The kernel's side is external to the repository.  It is modelled by     *)
(* what the calls can observe of it.                                       *)
(***************************************************************************)
EXTENDS Cpt

CONSTANTS
    UpBuf,    \* packets a connection holds on the way to the server
    DownBuf   \* packets a connection holds on the way to the client

ASSUME BufAssumption == UpBuf \in Nat \ {0} /\ DownBuf \in Nat \ {0}

VARIABLES
    toServer,   \* [Fds -> Seq(Requests)]  sent by a client, not yet read
    toClient,   \* [Fds -> Seq(Replies)]   sent by the server, not yet read
    peer,       \* the client's end of each connection
    lossy       \* history: connections on which some reply was discarded

wireVars == <<toServer, toClient, peer, lossy>>

\* none: never connected; waiting: in the listen queue; open: accepted;
\* fin:  the process is gone and the server has not been told by a RST;
\* dead: a RST has arrived, the next send() raises SIGPIPE.
PeerStates == {"none", "waiting", "open", "fin", "dead"}

WireTypeOK ==
    /\ toServer \in [Fds -> Seq(Requests)]
    /\ toClient \in [Fds -> Seq(Replies)]
    /\ peer \in [Fds -> PeerStates]
    /\ lossy \in SUBSET Fds

WireInit ==
    /\ toServer = [fd \in Fds |-> <<>>]
    /\ toClient = [fd \in Fds |-> <<>>]
    /\ peer = [fd \in Fds |-> "none"]
    /\ lossy = {}

-------------------------------------------------------------------------------
(* The client's end *)

\* send() of a request: a full socket buffer makes it fail with EAGAIN, and
\* the client ignores that.
ClientSend(fd, request) ==
    /\ toServer' = IF Len(toServer[fd]) < UpBuf
                     THEN [toServer EXCEPT ![fd] = Append(@, request)]
                     ELSE toServer
    /\ UNCHANGED <<toClient, peer, lossy>>

\* read() takes the first k packets; those after the first are never decoded.
ClientRead(fd) ==
    \E k \in 1 .. Len(toClient[fd]) :
        /\ toClient' = [toClient EXCEPT ![fd] = SubSeq(@, k + 1, Len(@))]
        /\ lossy' = IF k = 1 THEN lossy ELSE lossy \cup {fd}
        /\ UNCHANGED <<toServer, peer>>

\* The process ends and the kernel closes its socket: a FIN, or a RST when
\* replies were left unread.  What it sent before remains readable.
ClientClose(fd) ==
    /\ peer[fd] = "open"
    /\ \E after \in {"fin", "dead"} :
          /\ after = "dead" => toClient[fd] # <<>>
          /\ peer' = [peer EXCEPT ![fd] = after]
    /\ toClient' = [toClient EXCEPT ![fd] = <<>>]
    /\ lossy' = lossy \cup {fd}
    /\ UNCHANGED toServer

-------------------------------------------------------------------------------
(* The server's end *)

\* select() reports a connection that has data, or whose other end is gone.
Readable(fd) == toServer[fd] # <<>> \/ peer[fd] \in {"fin", "dead"}

\* read(): the first k packets leave the connection.  The caller decodes the
\* first and zeroes its buffer before the next read().
ServerRead(fd) ==
    \E k \in 1 .. Len(toServer[fd]) :
        /\ toServer' = [toServer EXCEPT ![fd] = SubSeq(@, k + 1, Len(@))]
        /\ UNCHANGED <<toClient, peer, lossy>>

\* send() of a reply, when it does not raise SIGPIPE: queued, refused by a
\* full buffer, or accepted and answered by a RST, now or later.
ServerSend(fd, reply) ==
    /\ UNCHANGED toServer
    /\ \/ /\ peer[fd] = "open" /\ Len(toClient[fd]) < DownBuf
          /\ toClient' = [toClient EXCEPT ![fd] = Append(@, reply)]
          /\ UNCHANGED <<peer, lossy>>
       \/ /\ peer[fd] = "open" /\ Len(toClient[fd]) >= DownBuf
          /\ lossy' = lossy \cup {fd}
          /\ UNCHANGED <<toClient, peer>>
       \/ /\ peer[fd] = "fin"
          /\ \E after \in {"fin", "dead"} : peer' = [peer EXCEPT ![fd] = after]
          /\ lossy' = lossy \cup {fd}
          /\ UNCHANGED toClient
===============================================================================
