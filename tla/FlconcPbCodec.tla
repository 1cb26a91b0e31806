---------------------------- MODULE FlconcPbCodec ----------------------------
(***************************************************************************)
(* FlconcPbCodeC over a TcpBuffer: the packet of a message, and what       *)
(* decode() finds in a buffer that holds any part of a stream of packets.  *)
(*                                                                         *)
(* TcpBuffer numbers the bytes that pass; here byte n is that of the       *)
(* packets of Messages, one after the other, and a byte of the vector that *)
(* was never written is 0.  decode() also reads past the end of its copy   *)
(* of the vector, where anything can be: junk.  A packet has int32_t       *)
(* lengths of four bytes; IntBytes makes them narrower, and they keep      *)
(* their sign.  encode() and decode() copy names through arrays of 50 and  *)
(* 512 chars that end at a 0: the messages have names that fit.            *)
(***************************************************************************)
EXTENDS TcpBuffer, Sequences, SequencesExt

CONSTANTS
  Messages,  \* the messages sent, as sequences of bytes per field
  IntBytes,  \* bytes of an int32_t: smaller here so that packets are
  Junk       \* what may be read past the vector

Bytes == 0..255
PB_START == 2
PB_END == 3

\* The last bytes of n, most significant first.
htonl(n) ==
  LET rest[i \in 0..(IntBytes - 1)] == IF i = 0 THEN n ELSE rest[i - 1] \div 256
  IN [b \in 1..IntBytes |-> rest[IntBytes - b] % 256]

\* The first byte has the sign.
ntohl(s) ==
  LET first[b \in 1..IntBytes] ==
        IF b = 1 THEN (IF s[1] < 128 THEN s[1] ELSE s[1] - 256) ELSE 256 * first[b - 1] + s[b]
  IN first[IntBytes]

IntMax == ntohl([b \in 1..IntBytes |-> IF b = 1 THEN 127 ELSE 255])

\* encodePbData() of a message that has a service name and a number.
Packet(m) ==
  LET sized(s) == htonl(Len(s)) \o s
      body == sized(m.msg_req) \o sized(m.service_full_name) \o htonl(m.err_code)
                \o sized(m.err_info) \o m.pb_data \o htonl(1)
  IN <<PB_START>> \o htonl(2 + IntBytes + Len(body)) \o body \o <<PB_END>>

Message == [msg_req : Seq(Bytes \ {0}), service_full_name : Seq(Bytes \ {0}), err_code : Nat,
            err_info : Seq(Bytes \ {0}), pb_data : Seq(Bytes)]

ASSUME MessagesAssumption ==
  /\ IntBytes \in 1..4 /\ Junk \subseteq Bytes /\ Messages \in Seq(Message)
  /\ \A k \in DOMAIN Messages :
       /\ Messages[k].msg_req # <<>> /\ Messages[k].service_full_name # <<>>
       /\ Messages[k].err_code <= IntMax /\ Len(Packet(Messages[k])) <= IntMax
       /\ Len(Messages[k].msg_req) < 50
       /\ Len(Messages[k].service_full_name) < 512 /\ Len(Messages[k].err_info) < 512

Packets == [k \in DOMAIN Messages |-> Packet(Messages[k])]
Stream == FlattenSeq(Packets)

-----------------------------------------------------------------------------
\* tmp[i] of decode(), the copy of the whole vector.
ByteAt(i, junk) ==
  IF i \notin 0..(size - 1) THEN junk
  ELSE IF m_buffer[i] \in DOMAIN Stream THEN Stream[m_buffer[i]] ELSE 0

BytesAt(i, n, junk) == [b \in 1..n |-> ByteAt(i + b - 1, junk)]

getInt32FromNetByte(i, junk) == ntohl(BytesAt(i, IntBytes, junk))

\* Mutant: the packet may end beyond what has arrived.
IsPacket_Anywhere(i, junk) ==
  LET j == i + getInt32FromNetByte(i + 1, junk) - 1
  IN ByteAt(i, junk) = PB_START /\ i + 1 < m_write_index /\ ByteAt(j, junk) = PB_END

\* A start mark at index i, and an end mark where its length says.
IsPacket(i, junk) ==
  LET j == i + getInt32FromNetByte(i + 1, junk) - 1
  IN /\ ByteAt(i, junk) = PB_START /\ i + 1 < m_write_index
     /\ j < m_write_index /\ ByteAt(j, junk) = PB_END

\* The fields between start_index s and end_index e.  Each test for the end of
\* the packet is one of decode(), and gives the message up.
Fields(s, e, junk) ==
  LET int(i) == getInt32FromNetByte(i, junk)
      chars(i, n) == BytesAt(i, n, junk)
      msg_req_len_index == s + 1 + IntBytes
      msg_req_len == int(msg_req_len_index)
      service_name_len_index == msg_req_len_index + IntBytes + msg_req_len
      service_name_len == int(service_name_len_index)
      err_code_index == service_name_len_index + IntBytes + service_name_len
      err_info_len_index == err_code_index + IntBytes
      err_info_len == int(err_info_len_index)
      pb_data_index == err_info_len_index + IntBytes + err_info_len
      pk_len == e + 1 - s
  IN IF /\ msg_req_len_index < e /\ msg_req_len # 0
        /\ service_name_len_index + IntBytes < e /\ service_name_len <= pk_len
        /\ err_info_len_index < e
        /\ pb_data_index < e
       THEN << [msg_req |-> chars(msg_req_len_index + IntBytes, msg_req_len),
                service_full_name |-> chars(service_name_len_index + IntBytes, service_name_len),
                err_code |-> int(err_code_index),
                err_info |-> chars(err_info_len_index + IntBytes, err_info_len),
                pb_data |-> chars(pb_data_index, pk_len - service_name_len - msg_req_len
                                                  - err_info_len - 2 - 6 * IntBytes)] >>
       ELSE << >>

\* decode(): how many bytes it consumes, and the message, if it succeeds.
PbDecode(junk) ==
  LET found == {i \in m_read_index..(m_write_index - 1) : IsPacket(i, junk)}
  IN IF found = {} THEN [consumed |-> 0, message |-> << >>]
     ELSE LET s == Min(found)
              e == s + getInt32FromNetByte(s + 1, junk) - 1
          IN [consumed |-> e + 1 - s, message |-> Fields(s, e, junk)]

-----------------------------------------------------------------------------
\* A packet with the image of another one inside, which decode() extracts while
\* the outer one is incomplete, or with a start mark and a negative length,
\* which sends decode() to look for the end mark before the vector.
Nested(p) ==
  \E i \in 2..(Len(p) - IntBytes) :
    /\ p[i] = PB_START
    /\ LET n == ntohl([b \in 1..IntBytes |-> p[i + b]])
       IN n < 0 \/ (i + n - 1 \in DOMAIN p /\ p[i + n - 1] = PB_END)

\* However the stream is cut into reads, wherever the buffer has been compacted
\* or has grown: a decoder that has consumed whole packets so far finds the next
\* one unchanged if all of it is there, consumes all of it and no more, and
\* otherwise leaves everything where it is.
PbInStep ==
  \A k \in DOMAIN Messages, junk \in Junk :
    ~failed /\ got = Len(FlattenSeq([n \in 1..(k - 1) |-> Packets[n]])) =>
      IF readAble >= Len(Packets[k])
        THEN PbDecode(junk) = [consumed |-> Len(Packets[k]), message |-> <<Messages[k]>>]
        ELSE PbDecode(junk) = [consumed |-> 0, message |-> << >>] \/ Nested(Packets[k])
=============================================================================
