-------------------------------- MODULE Codecs --------------------------------
(***************************************************************************)
(* The two codecs over one TcpBuffer.  The bytes that pass are a stream of *)
(* packets or, by another reading of the same numbers, of requests.        *)
(***************************************************************************)
EXTENDS FlconcPbCodec, HttpCodec

\* What the decoders report depends on the bytes that have arrived, never on how
\* reads cut them or where the buffer keeps them (decode() of both codecs, the
\* loop of TcpConnection::execute()).
DecodersInStep == PbInStep /\ HttpInStep
=============================================================================
