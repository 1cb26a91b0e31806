----------------------------- MODULE MCTcpBuffer -----------------------------
(* A buffer that starts with 4 bytes.  Two packets pass through it, one of *)
(* 17 and one of 18 bytes; or, by another reading of the same 35 bytes, a  *)
(* POST of 13 bytes, a GET of 9 and a POST of 13.                          *)
EXTENDS Codecs

msg(data) == [msg_req |-> <<7>>, service_full_name |-> <<8>>, err_code |-> 0,
              err_info |-> << >>, pb_data |-> data]
ConstMessages == << msg(<<2>>), msg(<<2, 200>>) >>

request(method, line, headers, body) ==
  [method |-> method, version |-> "HTTP/1.1", spaces |-> 2,
   line |-> line, headers |-> headers, body |-> body]
ConstRequests == << request("POST", 1, 4, 2), request("GET", 2, 1, 0), request("POST", 2, 5, 0) >>
=============================================================================
