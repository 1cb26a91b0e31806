------------------------------ MODULE HttpCodec ------------------------------
(***************************************************************************)
(* HttpCodeC::decode() over a TcpBuffer that holds any part of a stream of *)
(* requests.  A byte is known by the request it belongs to and by what it  *)
(* is there: text of the request line, of the headers or of the body, or   *)
(* one of the two bytes of a CRLF.                                         *)
(***************************************************************************)
EXTENDS TcpBuffer, Sequences, SequencesExt

\* The requests sent.  line, headers, body: the length of their text, the last
\* CRLF of the headers apart; body is what Content-Length says; spaces: of the
\* request line, whose URL is a good one.
CONSTANT Requests

ASSUME RequestsAssumption ==
  Requests \in Seq([method : {"GET", "POST", "other"}, version : {"HTTP/1.1", "HTTP/1.0", "other"},
                    spaces : Nat, line : Nat, headers : Nat, body : Nat])

CRLF == <<"CR", "LF">>
RequestText(q) ==
  LET text(kind, n) == [i \in 1..n |-> kind]
  IN text("line", q.line) \o CRLF
       \o (IF q.headers = 0 THEN << >> ELSE text("headers", q.headers) \o CRLF)
       \o CRLF \o text("body", q.body)

HttpStream ==
  FlattenSeq([k \in DOMAIN Requests |->
    [i \in DOMAIN RequestText(Requests[k]) |-> <<RequestText(Requests[k])[i], k>>]])

-----------------------------------------------------------------------------
\* The bytes of the buffer: getBufferString().
Kind(i) == HttpStream[m_buffer[i]][1]
Of(i) == Requests[HttpStream[m_buffer[i]][2]]

\* Where a string of kinds is in the readable bytes from index i on.
Matches(i, s) ==
  {n \in i..(m_write_index - Len(s)) : \A b \in DOMAIN s : Kind(n + b - 1) = s[b]}

Nothing == [decode_succ |-> FALSE, read_size |-> 0]

\* parseHttpRequestLine() of the bytes from b up to e.
parseHttpRequestLine(b, e) ==
  /\ b < e /\ \A i \in b..(e - 1) : Kind(i) = "line" /\ Of(i) = Of(b)
  /\ e - b = Of(b).line
  /\ Of(b).spaces >= 2
  /\ Of(b).method \in {"GET", "POST"} /\ Of(b).version \in {"HTTP/1.1", "HTTP/1.0"}

\* Content-Length among the headers from b up to e: 0 if they have none.  Fewer
\* than 4 characters are not parsed.
ContentLength(b, e) == IF e - b >= 4 THEN Of(b).body ELSE 0

\* Mutant: it does not wait for the content.
DecodeRest_NoWait(b, method) ==
  LET ends == Matches(b, CRLF \o CRLF)
  IN IF ends = {} THEN Nothing
     ELSE [decode_succ |-> TRUE,
           read_size |-> (Min(ends) + 4) - m_read_index
                           + IF method = "POST" THEN ContentLength(b, Min(ends)) ELSE 0]

\* The headers, which begin at index b, and the content.  Only the content of
\* a POST is consumed.
DecodeRest(b, method) ==
  LET ends == Matches(b, CRLF \o CRLF)
  IN IF ends = {} THEN Nothing
     ELSE LET content == Min(ends) + 4
              length == ContentLength(b, Min(ends))
          IN IF m_write_index - content < length THEN Nothing
             ELSE [decode_succ |-> TRUE,
                   read_size |-> content - m_read_index + IF method = "POST" THEN length ELSE 0]

\* decode().  When the first CRLF ends what has arrived, it leaves its loop to
\* read more data, and reports success with nothing parsed or consumed.
HttpDecode ==
  LET crlfs == Matches(m_read_index, CRLF)
  IN IF crlfs = {} THEN Nothing
     ELSE IF Min(crlfs) = m_write_index - 2 THEN [decode_succ |-> TRUE, read_size |-> 0]
     ELSE IF ~parseHttpRequestLine(m_read_index, Min(crlfs)) THEN Nothing
     ELSE DecodeRest(Min(crlfs) + 2, Of(m_read_index).method)

-----------------------------------------------------------------------------
\* Requests that decode() can handle in full: with headers, and with a body
\* only if it is a POST.
Plain(q) ==
  /\ q.line > 0 /\ q.spaces >= 2 /\ q.method \in {"GET", "POST"} /\ q.version # "other"
  /\ q.headers > 0 /\ (q.body > 0 => q.method = "POST" /\ q.headers >= 4)

\* However the stream is cut into reads: a decoder that has consumed whole
\* requests so far reports the next one when all of it is there, and not before,
\* and consumes all of it and no more.  The exception is an input that ends with
\* the CRLF of the request line: reported at once, and again for ever, as nothing
\* is consumed.
HttpInStep ==
  \A k \in DOMAIN Requests :
    LET q == Requests[k] length == Len(RequestText(q)) IN
    ~failed /\ Plain(q) /\ got = Len(FlattenSeq([n \in 1..(k - 1) |-> RequestText(Requests[n])])) =>
      IF readAble >= length
        THEN HttpDecode = [decode_succ |-> TRUE, read_size |-> length]
        ELSE HttpDecode = Nothing \/ readAble = q.line + 2
=============================================================================
