-------------------------------- MODULE Packets --------------------------------
(***************************************************************************)
(* One client's requests on their way through pack(), a byte stream that   *)
(* does not keep them apart, the server's buffer and unpack(); and the     *)
(* messages relayed to another client, the same way down.                  *)
(*                                                                         *)
(* What a side makes of a read that begins inside a packet is not          *)
(* followed: it reads no more once its stream is out of step.  Neither is  *)
(* a line of &create that overruns the client's copy of it: see FitsLine.  *)
(***************************************************************************)
EXTENDS Serialization, FiniteSets

CONSTANTS
    Sends,      \* messages: [chan : number of the current channel, text : Seq(Bytes)]
    Joins,      \* numbers typed after &join
    Lists,      \* lists of descriptors typed after &create
    Junk,       \* what uninitialised memory may hold before its first zero byte
    MaxTyped,   \* number of requests typed
    Near        \* reads end at most this far from the boundary of a packet

\* READ_BUFFER_SIZE and BUFSIZE, of the buffers packets are made in and read to.
BUFSIZE == 1024

\* Of the client's copy of what follows &create.
COMMAND_INPUT_SIZE == 20

\* A text: no zero byte is in it, and its packet fits the buffers.
Texts == {text \in Seq(1 .. 255) : Len(text) + 7 <= BUFSIZE}

\* The channel numbers typed: at most nine digits.
Numbers == {n \in Nat : n < 10 ^ 9}

\* The digits of a 16-bit number.
Decimals(n) ==
    1 + Cardinality({power \in {10, 100, 1000, 10000} : n >= power})

\* "From channel <n>: ", of which only the length matters.
Prefix(chan) == [i \in 1 .. 15 + Decimals(chan) |-> 70]

ASSUME PacketsAssumption ==
    /\ MaxTyped \in Nat /\ Near \in Nat
    /\ Sends \subseteq [chan : Numbers, text : Texts]
    /\ Joins \subseteq Numbers
    /\ Lists \subseteq Seq(0 .. 99)
    /\ Junk \subseteq Texts
    /\ \A m \in Sends, junk \in Junk :
          5 + Len(Prefix(m.chan % 65536)) + Len(junk) + Len(m.text) <= BUFSIZE

SEND == 1
CREATE_CHANNEL == 4
JOIN_CHANNEL == 5

VARIABLES
    up,        \* bytes on their way to the server
    asked,     \* history: the requests these bytes hold, while in step
    down,      \* bytes on their way to the other client
    relayed,   \* history: the replies these bytes hold, while in step
    buffer,    \* all_clients_buffer of that client, not cleared between reads
    inStep,    \* [up, down]: the stream begins where a packet does
    decoded,   \* what the last read that held a whole first packet made of it
    copied,    \* the last copy of a relayed text: room allocated, bytes written
    typed      \* number of requests typed so far

vars == <<up, asked, down, relayed, buffer, inStep, decoded, copied,
          typed>>

None == [of |-> "none"]

-------------------------------------------------------------------------------
(* The client: cpt_send(), cpt_join_channel(), cpt_create_channel() *)

RequestFormat == <<"C", "C", "H", "C", "s">>

\* Wrong: no room for the terminating zero.
SendLenShort(text) == Len(text)

\* msg_len of a message counts the terminating zero, in 8 bits when stored.
SendLen(text) == Len(text) + 1

Request(command, chan, len, text) ==
    [command |-> command, chan |-> chan % 65536, len |-> len % 256, text |-> text]

PackRequest(r) == pack(RequestFormat, <<1, r.command, r.chan, r.len, r.text>>)

Digits(n) == IF n < 10 THEN <<48 + n>> ELSE <<48 + (n \div 10), 48 + (n % 10)>>

\* The text after &create: descriptors below 100, blanks between, a newline.
ListText(list) ==
    FlattenSeq([i \in DOMAIN list |->
        Digits(list[i]) \o <<IF i = Len(list) THEN 10 ELSE 32>>])

\* The client copies as many bytes as the whole line has, "&create " and list,
\* into the COMMAND_INPUT_SIZE of chan_ids.
FitsLine(list) == 8 + Len(ListText(list)) <= COMMAND_INPUT_SIZE

\* What a line that does not fit does to the client is not followed.
Typed ==
    {Request(SEND, m.chan, SendLen(m.text), m.text) : m \in Sends}
      \cup {Request(JOIN_CHANNEL, n, 0, text) : n \in Joins, text \in Junk}
      \cup {Request(CREATE_CHANNEL, 0, 0, ListText(list)) :
             list \in {l \in Lists : FitsLine(l)}}

Type ==
    /\ inStep.up /\ typed < MaxTyped /\ typed' = typed + 1
    /\ \E r \in Typed :
          /\ up' = up \o PackRequest(r)
          /\ asked' = Append(asked, r)
    /\ UNCHANGED <<down, relayed, buffer, inStep, decoded, copied>>

-------------------------------------------------------------------------------
(* Streams *)

\* Where the n-th packet of a stream ends, given each one's length.
Offset(lengths) ==
    LET end[n \in 0 .. Len(lengths)] == IF n = 0 THEN 0 ELSE end[n - 1] + lengths[n]
    IN  end

Ends(lengths) == {Offset(lengths)[n] : n \in DOMAIN lengths}

RequestLengths == [i \in DOMAIN asked |-> Len(PackRequest(asked[i]))]

\* The lengths a read of a stream may return.
ReadLengths(stream, ends) ==
    {k \in 1 .. Len(stream) : \E e \in ends : k \in e - Near .. e + Near}

\* The packets left behind a read of k bytes that ended with one of them.
After(packets, lengths, k) ==
    LET last == CHOOSE n \in DOMAIN lengths : Offset(lengths)[n] = k
    IN  SubSeq(packets, last + 1, Len(packets))

-------------------------------------------------------------------------------
(* The server: struct cpt has version at 0, command at 1, channel_id at 2,   *)
(* msg_len at 4 and a byte of padding.                                       *)

\* Wrong: channel_id is stored after msg_len, over which its store reaches.
unpackLenFirst(buf) ==
    LET r == unpack(buf, RequestFormat, <<0, 1, 2, 4, 0>>, [o \in 0 .. 5 |-> 0])
    IN  [r EXCEPT !.mem = StoreInt(@, 2, LoadShort(@, 2))]

UnpackRequest(buf) ==
    unpack(buf, RequestFormat, <<0, 1, 2, 4, 0>>, [o \in 0 .. 5 |-> 0])

\* Wrong: every character of the list is taken.
ListedEverywhere(text) == [i \in DOMAIN text |-> text[i] - 48]

\* cpt_create_channel_response(): one descriptor at each even position.
Listed(text) == [i \in 1 .. (Len(text) + 1) \div 2 |-> text[2 * i - 1] - 48]

ReplyFormat == <<"C", "H", "s">>

PackReply(r) == pack(ReplyFormat, <<r.code, r.size, r.data>>)

\* Relaying: msg_len grows by the prefix in 8 bits and is what is allocated
\* and sent as the size.  strncpy() leaves the prefix unterminated, so strcat()
\* appends the text behind the first zero of what malloc() returned.
Relay(chan, len, text, complete) ==
    LET size == (len + Len(Prefix(chan))) % 256
    IN  \E junk \in Junk :
          LET data == Prefix(chan) \o junk \o text
              r    == [code |-> SEND, size |-> size, data |-> data]
          IN  /\ down' = down \o PackReply(r)
              /\ relayed' = Append(relayed, r)
              /\ copied' = [of |-> "server", room |-> size, written |-> Len(data) + 1,
                            exact |-> complete /\ junk = <<>>]

ServerRead ==
    /\ inStep.up /\ up # <<>>
    /\ \E k \in ReadLengths(up, Ends(RequestLengths)) :
          LET r    == UnpackRequest(SubSeq(up, 1, k))
              got  == [command |-> r.mem[1], chan |-> LoadShort(r.mem, 2),
                       len |-> r.mem[4], text |-> CString(r.str)]
              whole == k \in Ends(RequestLengths)
          IN  /\ up' = SubSeq(up, k + 1, Len(up))
              /\ inStep' = [inStep EXCEPT !.up = whole]
              /\ asked' = IF whole THEN After(asked, RequestLengths, k) ELSE <<>>
              /\ decoded' = IF k < RequestLengths[1] THEN None
                            ELSE [of |-> "request", want |-> asked[1], got |-> got]
              /\ IF got.command = SEND /\ inStep.down
                   THEN Relay(got.chan, got.len, got.text, k >= RequestLengths[1])
                   ELSE UNCHANGED <<down, relayed, copied>>
    /\ UNCHANGED <<buffer, typed>>

-------------------------------------------------------------------------------
(* The other client: res_code lies before data_size, and data_size before     *)
(* two bytes of something else.                                               *)

\* Wrong: res_code lies behind data_size, where the store of the size reaches.
UnpackReplyBehind(buf) ==
    LET r == unpack(buf, ReplyFormat, <<3, 1, 0>>, [o \in 0 .. 4 |-> 0])
    IN  [r EXCEPT !.mem[0] = r.mem[3]]

UnpackReply(buf) == unpack(buf, ReplyFormat, <<0, 1, 0>>, [o \in 0 .. 4 |-> 0])

ReplyLengths == [i \in DOMAIN relayed |-> Len(PackReply(relayed[i]))]

\* read() and unpack(); then malloc(data_size) and strcpy() of the text.
ClientRead ==
    /\ inStep.down /\ down # <<>>
    /\ \E k \in ReadLengths(down, Ends(ReplyLengths)) :
          LET full == SubSeq(down, 1, k) \o SubSeq(buffer, k + 1, Len(buffer))
              r    == UnpackReply(full)
              got  == [code |-> r.mem[0], size |-> LoadShort(r.mem, 1),
                       data |-> CString(r.str)]
              whole == k \in Ends(ReplyLengths)
          IN  /\ buffer' = full
              /\ down' = SubSeq(down, k + 1, Len(down))
              /\ inStep' = [inStep EXCEPT !.down = whole]
              /\ relayed' = IF whole THEN After(relayed, ReplyLengths, k) ELSE <<>>
              /\ decoded' = IF k < ReplyLengths[1] THEN None
                            ELSE [of |-> "reply", want |-> relayed[1], got |-> got]
    /\ UNCHANGED <<up, asked, copied, typed>>
Init ==
    /\ up = <<>> /\ down = <<>>
    /\ asked = <<>> /\ relayed = <<>>
    /\ buffer = <<>>
    /\ inStep = [up |-> TRUE, down |-> TRUE]
    /\ decoded = None /\ copied = None
    /\ typed = 0

Next == Type \/ ServerRead \/ ClientRead

Spec == Init /\ [][Next]_vars

-------------------------------------------------------------------------------

\* A request is decoded as it was packed, its fields cut to their widths, when
\* the read holds all of it: whatever follows it in the buffer, and although
\* channel_id is stored over the bytes behind it.
RequestDecoded == decoded.of = "request" => decoded.got = decoded.want

\* So is a relayed message, in a buffer that still holds earlier ones.
ReplyDecoded == decoded.of = "reply" => decoded.got = decoded.want

\* The room allocated for a relayed text, computed in 8 bits from what the
\* client counted, is enough exactly if prefix, text and the terminating zero
\* are fewer than 256 bytes: of a message read as a whole, with nothing left
\* by earlier uses in the memory behind the prefix.
RelayFits ==
    copied # None /\ copied.exact =>
        (copied.written <= copied.room <=> copied.written < 256)

\* The server takes from the text of a create the descriptors the user typed,
\* all of them and in their order, when each is a single digit.
CreateListDecoded ==
    \A list \in Lists :
        decoded.of = "request" /\ decoded.want.command = CREATE_CHANNEL
          /\ decoded.want.text = ListText(list)
          /\ (\A i \in DOMAIN list : list[i] < 10) =>
            Listed(decoded.got.text) = list
===============================================================================
