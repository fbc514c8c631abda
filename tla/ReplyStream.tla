----------------------------- MODULE ReplyStream -----------------------------
(***************************************************************************)
(* The control connection of a protocol client (protocolbuf, below ftpbuf  *)
(* and smtpbuf) as its get_response () sees it: the reply lines a server   *)
(* writes, cut by the network wherever it likes, and the get area that     *)
(* underflow () fills only when it is empty.                               *)
(*                                                                         *)
(* A char is the line it is of and its place there.  What the code looks   *)
(* at are the code, the separator behind it and the CRLF, so a reply line  *)
(* is "ccc " or "ccc-" with its CRLF, 6 chars; a line inside a multi-line  *)
(* reply need not start with a code and has 4 here.                        *)
(***************************************************************************)
EXTENDS Integers, SequencesExt

CONSTANTS
  Cuts   \* bound: places within a line at which a read may end

VARIABLES
  area,    \* gptr() .. egptr()
  flight,  \* chars the server has written and no ::read has taken
  link     \* "none" until connected, "open", "fin": the server has closed

stream == <<area, flight, link>>

\* Reply lines: id is the command answered, part tells a reply that another
\* one will follow ("prelim", "inter") from the last word ("final").
Line(id, part, code, kind) ==
  [id |-> id, part |-> part, code |-> code, kind |-> kind]
Length(line) == IF line.kind = "mid" THEN 4 ELSE 6
Chars(line) == [i \in 1 .. Length(line) |-> [line |-> line, at |-> i]]

\* A reply, as the kinds of its lines: one, or several from "ccc-" to "ccc ".
\* Between them ftp has text ("mid"), smtp more lines with "ccc-".
Single == <<"only">>
Reply(id, part, code, kinds) ==
  FlattenSeq([i \in DOMAIN kinds |-> Chars(Line(id, part, code, kinds[i]))])

IsLF(c) == c.at = Length(c.line)

StreamInit == area = <<>> /\ flight = <<>> /\ link = "none"

Writes(reply) == flight' = flight \o reply

------------------------------------------------------------------------------
(* connect ()                                                              *)

\* setaddr: dotted digits are taken as they are, a name is looked up.
setaddr == {"ok", "EADDRNOTAVAIL"}

\* setport: digits are taken as they are, a service is looked up.
setport == {"ok", "EADDRNOTAVAIL"}

\* What ::connect may report of an address that was found.
Connections == {"ok", "ECONNREFUSED", "ETIMEDOUT", "EHOSTUNREACH", "EINTR"}

\* sockinetaddr (hn, sn, pn), (addr, sn, pn) and (host_name, port_no): a host, or
\* a service, that is given by name is looked up, and throws if it is not found.
sockinetaddr(host, service) ==
  (IF host THEN setaddr ELSE {}) \cup (IF service THEN setport ELSE {})

\* sockinetbuf::connect of these addresses.
InetConnect(host, service) == sockinetaddr(host, service) \cup Connections

\* protocolbuf::connect () and (host), (addr), (host, portno) of a protocol on
\* pn: what they may end with.
Connect(pn) ==
  IF pn = "nil"
  THEN {"EPROTONOSUPPORT"}
  ELSE InetConnect(TRUE, TRUE) \cup InetConnect(FALSE, TRUE) \cup InetConnect(TRUE, FALSE)

------------------------------------------------------------------------------
(* underflow () on the control connection                                  *)

\* underflow () of an empty area reads what has arrived: all that was written
\* up to a line's end or up to a cut within a line.
Refill ==
  /\ area = <<>>
  /\ \E k \in 1 .. Len(flight) :
       /\ IsLF(flight[k]) \/ flight[k].at \in Cuts
       /\ area' = SubSeq(flight, 1, k)
       /\ flight' = SubSeq(flight, k + 1, Len(flight))
  /\ link' = link

\* ::read gives 0.
AtEof == area = <<>> /\ flight = <<>> /\ link = "fin"

\* ::read waits, and the receive timeout, a signal or a lost connection ends
\* the wait with an err; or there is no connection at all.
ReadMayFail == area = <<>> /\ flight = <<>>

\* The reply's chars that are not at hand as a whole line: the last read ended
\* within a line.
Torn == area # <<>> /\ ~IsLF(area[Len(area)])

\* n < 5: underflow () gives the next char and reads no more, so that nothing
\* can change in_avail () any more.
Spinning == area # <<>> /\ Len(area) < 5

\* The search for CRLF from gptr(): the chars up to the first one found.
CRLFs == {k \in 2 .. Len(area) : IsLF(area[k])}

\* Seeded fault: the first line ends the reply whatever is behind its code.
EndsReplyAlways(q) == {TRUE}

\* What strncpy (replycode, q, 3) and q[3] see: a code only where a line with
\* a code begins. Elsewhere it is text, taken to be no code: some char below
\* '1' or above '4' (0 and 9), with any char behind it.
HasCode(q) == q.at = 1 /\ q.line.kind # "mid"
Codes(q) == IF HasCode(q) THEN {q.line.code} ELSE {0, 9}
EndsReply(q) == IF HasCode(q) THEN {q.line.kind # "first"} ELSE BOOLEAN
=============================================================================
