--------------------------------- MODULE Ftp ---------------------------------
(***************************************************************************)
(* ftp::ftpbuf (socket++/ftp.cpp): commands and their replies over the     *)
(* control connection, and the data connection of a transfer, for which    *)
(* the server connects to a port that the client bound and told it.        *)
(*                                                                         *)
(* One thread drives the ftpbuf.  A step is one turn of a loop or the code *)
(* between two waits for the server.  The server (srv, asked, dport) is    *)
(* external: it takes the commands in their order, answers with one line   *)
(* or several, may refuse anything, and may fail in a transfer.            *)
(***************************************************************************)
EXTENDS ReplyStream, SockInet

CONSTANTS
  First,     \* the port at which ftpdata begins to look, 10000
  MaxCmds,   \* bound: commands in a behaviour
  MaxUntidy  \* bound: commands after which an untidy client stops calling

ASSUME FtpAssumption == First \in Ports /\ MaxCmds \in Nat /\ MaxUntidy \in Nat

VARIABLES
  call,    \* the call in progress, where it is, and get_response's firstline
  reply,   \* replycode, with the command and the part it answers
  out,     \* outcome of the latest call
  kept,    \* commands in the put area that a failed flush has left there
  data,    \* the data connection: our end and the server's
  fate,    \* "open", or "terminated" by an exception in ~sockbuf
  asked,   \* server: commands it has not begun
  srv,     \* server: what it is doing, for which command
  dport,   \* server: the port of the latest PORT it accepted, and its command
  n,       \* ghost: commands given
  tidy     \* ghost: the greeting was read before any command, no read ended
           \* within a line, and no err left a command or a reply behind

client == <<call, reply, out, kept, fate>>
server == <<asked, srv, dport>>
vars == <<area, flight, link, sb, portno, call, reply, out, kept, data, fate,
          asked, srv, dport, n, tidy>>

\* ftp::replycodea, as digits. rca_error is 4: "at least 4" is an error.
rca_error == 4

Idle == [op |-> "none", at |-> "no", firstline |-> TRUE]
Nothing == [kind |-> "none", code |-> 0]
Code(c) == [kind |-> "code", code |-> c]
Err == [kind |-> "err", code |-> 0]
Refused == [kind |-> "refused", code |-> rca_error]

\* The transfers, with the command each sends. getfile stands for list () of an
\* ftpbuf with a stream o as well, list for that of one without, where ftpdata
\* has no stream at all, and putfile also for append, which sends no name.
Transfers == [getfile |-> "RETR", list |-> "LIST", putfile |-> "STOR"]

\* Where a call waits in get_response.
Responses == {"reply", "RNFR", "PORT", "transfer", "final"}

\* Type invariant. Its one bound that is not a type is portno's: a search for a
\* free port goes no further than to the first reserved one behind port 0.
TypeOK ==
  /\ \A i \in 1 .. Len(area) : area[i].at \in 1 .. Length(area[i].line)
  /\ link \in {"none", "open", "fin"}
  /\ sb.st \in {"none", "open", "bound", "listening"} /\ sb.port \in 0 .. Width - 1
  /\ portno \in 0 .. Width + Min(Reserved)
  /\ call \in [op : DOMAIN Transfers \cup {"none", "get", "command", "rename"},
               at : Responses \cup {"no", "bind", "useraddr", "accept", "down", "up"},
               firstline : BOOLEAN]
  /\ reply.code \in 0 .. 9
  /\ out.kind \in {"none", "code", "err", "refused"}
  /\ data \in [us : {"none", "backlog", "accepted", "closed"},
               them : {"none", "open", "eof", "reset"}]
  /\ fate \in {"open", "terminated"}
  /\ srv.st \in {"greet", "idle", "begin", "told", "linked", "moving"}
  /\ dport.port \in 0 .. Width - 1
  /\ n \in 0 .. MaxCmds
  /\ tidy \in BOOLEAN

\* ftpbuf (out): replycode is uninitialised but for its last char.
Init ==
  /\ StreamInit /\ InetInit
  /\ call = Idle
  /\ reply \in [code : {0, 9}, id : {0}, part : {"none"}]
  /\ out = Nothing
  /\ kept = <<>>
  /\ data = [us |-> "none", them |-> "none"]
  /\ fate = "open"
  /\ asked = <<>> /\ srv = [st |-> "greet", id |-> 0, verb |-> "none"]
  /\ dport = [port |-> 0, id |-> 0]
  /\ n = 0 /\ tidy = TRUE

CanCall == fate = "open" /\ call.op = "none" /\ (tidy \/ n < MaxUntidy)

------------------------------------------------------------------------------
(* Building blocks of the calls.                                           *)

\* The call ends with outcome o. Its local sockets, sb of ftpdata and c, are
\* destroyed; an end of the data connection that was ours is closed.
Leave(o) ==
  /\ call' = Idle
  /\ out' = o
  /\ sb' = NoSocket
  /\ data' = [data EXCEPT !.us = IF @ = "none" THEN @ ELSE "closed"]

\* An err leaves the call while the server still has to answer.
Throw ==
  /\ Leave(Err)
  /\ tidy' = FALSE
  /\ UNCHANGED <<kept, asked, n>>

\* The greeting has been read: replycode is a reply's.
Greeted == reply.part # "none"

\* send_cmd (verb, arg) up to its get_response, the call then being c with the
\* socket s: the flush takes along what an earlier failed one has left, or
\* fails and leaves the command in the put area; a server that has gone gets
\* nothing.
send_cmd(verb, port, c, s) ==
  LET cmds == Append(kept, [id |-> n + 1, verb |-> verb, port |-> port]) IN
  /\ n' = n + 1
  /\ \/ /\ link # "none"
        /\ asked' = IF link = "open" THEN asked \o cmds ELSE asked
        /\ kept' = <<>>
        /\ call' = c
        /\ out' = Nothing
        /\ sb' = s
        /\ tidy' = (tidy /\ Greeted)
        /\ data' = data
     \/ /\ Leave(Err)
        /\ kept' = cmds
        /\ tidy' = FALSE
        /\ UNCHANGED asked

At(c, at) == [c EXCEPT !.at = at, !.firstline = TRUE]
Calling(op, at) == [op |-> op, at |-> at, firstline |-> TRUE]

------------------------------------------------------------------------------
(* The calls of the client.                                                *)

\* connect (): the one call before which there is no connection.
Connects ==
  /\ CanCall /\ link = "none"
  /\ \E r \in Connect("tcp") :
       IF r = "ok" THEN link' = "open" /\ out' = Nothing
                   ELSE link' = link /\ out' = Err
  /\ UNCHANGED <<area, flight, inet, call, reply, kept, data, fate, server, n, tidy>>

\* The commands that only send their verb and get a reply. trans_mode () sends
\* STRU, as file_stru () does.
Session == {"HELP", "NOOP", "QUIT", "ABOR", "USER", "PASS", "ACCT", "PWD", "SYST", "STAT"}
Settings == {"PASV", "TYPE", "STRU"}
Numbers == {"ALLO", "REST"}
Paths == {"CWD", "DELE", "RMD", "MKD"}

\* The server tells only QUIT from the others.
Told(verb) == IF verb = "QUIT" THEN "QUIT" ELSE "other"

Command ==
  /\ CanCall /\ n < MaxCmds
  /\ \E v \in {Told(verb) : verb \in Session \cup Settings \cup Numbers \cup Paths} :
       send_cmd(v, 0, Calling("command", "reply"), NoSocket)
  /\ UNCHANGED <<stream, portno, reply, fate, srv, dport>>

\* useraddr (host, portno) by the program: a name that is not found throws.
Useraddr ==
  /\ CanCall /\ n < MaxCmds
  /\ \/ \E p \in Ports \ (Reserved \cup {First}) :
          send_cmd("PORT", sin_port(p), Calling("command", "reply"), NoSocket)
     \/ Leave(Err) /\ UNCHANGED <<kept, asked, n, tidy>>
  /\ UNCHANGED <<stream, portno, reply, fate, srv, dport>>

\* get_response () by the program: for the greeting, or to catch up.
GetResponse ==
  /\ CanCall /\ link # "none" /\ ~(tidy /\ Greeted)
  /\ call' = Calling("get", "reply")
  /\ out' = Nothing
  /\ UNCHANGED <<stream, inet, reply, kept, data, fate, server, n, tidy>>

Rename ==
  /\ CanCall /\ n + 1 < MaxCmds
  /\ send_cmd("RNFR", 0, Calling("rename", "RNFR"), NoSocket)
  /\ UNCHANGED <<stream, portno, reply, fate, srv, dport>>

\* getfile, list, putfile and append: ftpdata (10000, ...) makes its socket,
\* or ::socket fails.
Transfer ==
  /\ CanCall /\ n + 1 < MaxCmds
  /\ \/ /\ \E op \in DOMAIN Transfers : call' = Calling(op, "bind")
        /\ sb' = Open
        /\ portno' = First
        /\ out' = Nothing
        /\ data' = [us |-> "none", them |-> "none"]
     \/ Leave(Err) /\ portno' = portno
  /\ UNCHANGED <<stream, reply, kept, fate, server, n, tidy>>

\* putfile, append and rename without a name they need.
NoName ==
  /\ CanCall
  /\ out' = Refused
  /\ UNCHANGED <<stream, inet, call, reply, kept, data, fate, server, n, tidy>>

------------------------------------------------------------------------------
(* ftpdata.                                                                *)

\* A turn of bind_until_success. An err here leaves the replies in step.
BindUntilSuccess ==
  /\ call.at = "bind"
  /\ BindTurn(call' = At(call, "useraddr") /\ UNCHANGED <<out, data>>,
              UNCHANGED <<call, out, data>>,
              Leave(Err))
  /\ UNCHANGED <<stream, reply, kept, fate, server, n, tidy>>

\* Seeded fault: the number that the search ended with is sent.
PortArgCounted == portno

\* useraddr (sb.localaddr ()): the two bytes of the port that getsockname
\* tells, joined again by the server.
PortArg ==
  LET hi_portno == localport \div Byte
      lo_portno == localport % Byte
  IN  hi_portno * Byte + lo_portno

UserAddrOfSb ==
  /\ call.at = "useraddr"
  /\ \/ send_cmd("PORT", PortArg, At(call, "PORT"), sb)
     \/ Leave(Err) /\ UNCHANGED <<kept, asked, n, tidy>>
  /\ portno' = 0
  /\ UNCHANGED <<stream, reply, fate, srv, dport>>

\* sockbuf::accept (): waits for a connection in the kernel's queue and gives it
\* to the caller, or throws.
accept(socket) ==
  \/ data.us = "backlog" /\ data' = [data EXCEPT !.us = "accepted"] /\ socket
  \/ Throw

Accept ==
  /\ call.at = "accept"
  /\ accept(/\ call' = At(call, IF call.op = "putfile" THEN "up" ELSE "down")
            /\ UNCHANGED <<kept, asked, n, sb, out, tidy>>)
  /\ UNCHANGED <<stream, portno, reply, fate, srv, dport>>

\* The loop that writes the file goes on until sgetn gives EOF. At the end of
\* the stream it gives 0, and the loop turns again.
DownAgain ==
  /\ call.at = "down" /\ data.them = "eof"
  /\ UNCHANGED vars

\* Only an err ends it, and then the server's last word is unread.
DownFails ==
  /\ call.at = "down" /\ data.them # "eof"
  /\ Throw
  /\ UNCHANGED <<stream, portno, reply, fate, srv, dport>>

\* The file is sent and c flushed and closed.
UpDone ==
  /\ call.at = "up"
  /\ data' = [data EXCEPT !.us = "closed"]
  /\ call' = At(call, "final")
  /\ UNCHANGED <<stream, inet, reply, out, kept, fate, server, n, tidy>>

\* A flush fails. If the connection is lost, the destructor of c fails to flush
\* what is left, and that ends the program; an interrupted flush leaves an err.
UpFails ==
  /\ call.at = "up"
  /\ \/ /\ data.them = "reset"
        /\ fate' = "terminated"
        /\ Leave(Nothing)
        /\ UNCHANGED <<tidy, kept, asked, n>>
     \/ Throw /\ fate' = fate
  /\ UNCHANGED <<stream, portno, reply, srv, dport>>

------------------------------------------------------------------------------
(* get_response ().                                                        *)

\* What the call does with the reply r. The reply to ftpdata's PORT is not
\* looked at; listen () follows it, and may throw.
Got(r) ==
  \/ /\ call.at \in {"reply", "final"}
     /\ Leave(Code(r.code))
     /\ UNCHANGED <<kept, asked, n, tidy>>
  \/ /\ call.at = "RNFR" /\ r.code < rca_error
     /\ send_cmd("RNTO", 0, At(call, "reply"), sb)
  \/ /\ call.at = "PORT"
     /\ \/ send_cmd(Transfers[call.op], 0, At(call, "transfer"), Listening(sb))
        \/ Leave(Err) /\ UNCHANGED <<kept, asked, n, tidy>>
  \/ /\ call.at = "transfer" /\ r.code < rca_error
     /\ call' = At(call, IF call.op = "list" THEN "final" ELSE "accept")
     /\ UNCHANGED <<out, sb, data, kept, asked, n, tidy>>
  \/ /\ call.at \in {"RNFR", "transfer"} /\ r.code >= rca_error
     /\ Leave(Code(rca_error))
     /\ UNCHANGED <<kept, asked, n, tidy>>

\* Seeded fault: the lines behind the first are compared with "ccc-".
SameCodeDash(q) ==
  /\ HasCode(q) /\ q.line.kind = "first"
  /\ q.line.code = reply.code

\* strncmp (q, replycode, 4) == 0, with the blank that replycode[3] is.
SameCode(q) ==
  /\ HasCode(q) /\ q.line.kind # "first"
  /\ q.line.code = reply.code

Responding == call.at \in Responses

\* underflow () reads more.
ResponseRefill ==
  /\ Responding
  /\ Refill
  /\ tidy' = (tidy /\ ~Torn')
  /\ UNCHANGED <<inet, client, data, server, n>>

\* A turn of the loop, with 5 chars or more at hand: the line up to its CRLF is
\* consumed, or, if there is none, all that is at hand is taken for the line
\* (and gptr() moved one further, which underflow () takes for the same).
\* The first line sets replycode.
ResponseLine ==
  /\ Responding /\ Len(area) >= 5
  /\ LET q == Head(area)
         i == IF CRLFs = {} THEN Len(area) ELSE Min(CRLFs)
     IN
     /\ area' = SubSeq(area, i + 1, Len(area))
     /\ \/ /\ call.firstline
           /\ \E c \in Codes(q), ends \in EndsReply(q) :
                LET r == [code |-> c, id |-> IF HasCode(q) THEN q.line.id ELSE 0,
                          part |-> IF HasCode(q) THEN q.line.part ELSE "none"]
                IN  /\ reply' = r
                    /\ \/ ends /\ Got(r)
                       \/ /\ ~ends
                          /\ call' = [call EXCEPT !.firstline = FALSE]
                          /\ UNCHANGED <<out, sb, data, kept, asked, n, tidy>>
        \/ /\ ~call.firstline /\ SameCode(q)
           /\ Got(reply) /\ reply' = reply
        \/ /\ ~call.firstline /\ ~SameCode(q)
           /\ UNCHANGED <<call, reply, out, sb, data, kept, asked, n, tidy>>
  /\ UNCHANGED <<flight, link, portno, fate, srv, dport>>

\* At the end of the stream the loop ends with replycode as it was.
ResponseEof ==
  /\ Responding /\ AtEof
  /\ Got(reply)
  /\ UNCHANGED <<stream, portno, reply, fate, srv, dport>>

\* The read throws.
ResponseFails ==
  /\ Responding /\ ReadMayFail
  /\ Throw
  /\ UNCHANGED <<stream, portno, reply, fate, srv, dport>>

------------------------------------------------------------------------------
(* The server.                                                             *)

Says(id, part, codes) ==
  \E c \in codes, kinds \in {Single, <<"first", "mid", "last">>} :
    Writes(Reply(id, part, c, kinds))
Becomes(st) == srv' = [srv EXCEPT !.st = st]

Greets ==
  /\ link = "open" /\ srv.st = "greet"
  /\ Says(0, "final", {2})
  /\ Becomes("idle")
  /\ UNCHANGED <<area, link, inet, client, data, asked, dport, n, tidy>>

\* The next command is taken: refused, answered, or a transfer begun.
Serves ==
  /\ link = "open" /\ srv.st = "idle" /\ asked # <<>>
  /\ asked' = Tail(asked)
  /\ LET c == Head(asked)
         Takes(st) == srv' = [st |-> st, id |-> c.id, verb |-> c.verb]
     IN
     \/ Says(c.id, "final", {5}) /\ Takes("idle") /\ UNCHANGED <<link, dport>>
     \/ /\ c.verb \in {"other", "QUIT", "PORT", "RNTO"}
        /\ Says(c.id, "final", {2}) /\ Takes("idle")
        /\ link' = IF c.verb = "QUIT" THEN "fin" ELSE link
        /\ dport' = IF c.verb = "PORT" THEN [port |-> c.port, id |-> c.id] ELSE dport
     \/ /\ c.verb = "RNFR"
        /\ Says(c.id, "inter", {3}) /\ Takes("idle")
        /\ UNCHANGED <<link, dport>>
     \/ /\ c.verb \in {Transfers[op] : op \in DOMAIN Transfers}
        /\ Takes("begin")
        /\ UNCHANGED <<flight, link, dport>>
  /\ UNCHANGED <<area, inet, client, data, n, tidy>>

\* 150, before or after the data connection is there.
Announces ==
  /\ srv.st \in {"begin", "linked"}
  /\ Says(srv.id, "prelim", {1})
  /\ Becomes(IF srv.st = "begin" THEN "told" ELSE "moving")
  /\ UNCHANGED <<area, link, inet, client, data, asked, dport, n, tidy>>

\* The server connects to the port it was told, or cannot and gives up.
DataConnects ==
  /\ srv.st \in {"begin", "told"}
  /\ IF Reaches(dport.port)
     THEN /\ data' = [us |-> "backlog", them |-> "open"]
          /\ Becomes(IF srv.st = "begin" THEN "linked" ELSE "moving")
          /\ flight' = flight
     ELSE /\ Says(srv.id, "final", {4})
          /\ Becomes("idle")
          /\ data' = data
  /\ UNCHANGED <<area, link, inet, client, asked, dport, n, tidy>>

\* The transfer is complete: an upload when our end is closed, a download when
\* all is sent, for which it must be read unless it fits the kernel's queues.
Completes ==
  /\ srv.st = "moving"
  /\ data.us = (IF srv.verb = "STOR" THEN "closed" ELSE "accepted")
  /\ data' = [data EXCEPT !.them = "eof"]
  /\ Says(srv.id, "final", {2})
  /\ Becomes("idle")
  /\ UNCHANGED <<area, link, inet, client, asked, dport, n, tidy>>
CompletesUnread ==
  /\ srv.st = "moving" /\ srv.verb # "STOR" /\ data.us = "backlog"
  /\ data' = [data EXCEPT !.them = "eof"]
  /\ Says(srv.id, "final", {2})
  /\ Becomes("idle")
  /\ UNCHANGED <<area, link, inet, client, asked, dport, n, tidy>>

\* The transfer fails on the server's side, or our end was closed too early.
Aborts ==
  /\ srv.st = "moving"
  /\ data' = [data EXCEPT !.them = "reset"]
  /\ Says(srv.id, "final", {4})
  /\ Becomes("idle")
  /\ UNCHANGED <<area, link, inet, client, asked, dport, n, tidy>>

\* The server closes an idle connection.
Closes ==
  /\ link = "open" /\ srv.st = "idle" /\ asked = <<>>
  /\ link' = "fin"
  /\ UNCHANGED <<area, flight, inet, client, data, server, n, tidy>>

------------------------------------------------------------------------------
Calls == Connects \/ Command \/ Useraddr \/ GetResponse \/ Rename \/ Transfer \/ NoName
Proceeds == BindUntilSuccess \/ UserAddrOfSb \/ UpDone \/ DownAgain \/ ResponseRefill
              \/ ResponseLine \/ ResponseEof \/ (data.us = "backlog" /\ Accept)
Fails == Accept \/ DownFails \/ UpFails \/ ResponseFails
Server == Greets \/ Serves \/ Announces \/ DataConnects \/ Completes
            \/ (data.us = "closed" /\ Aborts)
ServerMay == CompletesUnread \/ Aborts \/ Closes

Next == Calls \/ Proceeds \/ Fails \/ Server \/ ServerMay

Spec == Init /\ [][Next]_vars

\* The thread keeps running, and the server answers: it takes the commands,
\* connects or gives up, and ends a transfer whose other side does its part.
\* Nothing is assumed of the client's calls, of timeouts and signals, of a
\* transfer that nobody reads, or of the server's closing.
FairSpec == Spec /\ WF_vars(Proceeds) /\ WF_vars(Server)

------------------------------------------------------------------------------
(* Properties.                                                             *)

\* While the client has been tidy and the server there, the code a command
\* returns is of the server's last word on that very command: of no other one,
\* of no preliminary reply, and no line of a reply is left for the next. (What
\* makes a client untidy is what get_response cannot cope with: a read that
\* ends within a line, ftp.cpp:111; a command left in the put area or a reply
\* left unread by an err; a greeting not read first.)
InStep ==
  out.kind = "code" /\ tidy /\ link = "open" =>
    /\ reply.id = n /\ reply.part = "final"
    /\ out.code >= rca_error <=> reply.code >= rca_error
    /\ area = <<>> /\ flight = <<>>

\* When the server is about to connect for a transfer whose PORT it accepted,
\* the port it was told is the one our socket listens on: whichever port the
\* search of bind_until_success ended with, also behind 65535 (sockinet.cpp:193).
DataReachesUs ==
  srv.st \in {"begin", "told"} /\ tidy /\ dport.id = srv.id - 1 => Reaches(dport.port)

\* What a call may wait for, for ever: for chars that cannot come into the get
\* area (ftp.cpp:102); for the end of a download (ftp.cpp:72); for a
\* connection the server has given up after its 150 (ftp.cpp:66); for the end
\* of a listing that nobody reads (ftp.cpp:65-92).
Stuck ==
  \/ Responding /\ Spinning
  \/ call.at = "down"
  \/ call.at = "accept" /\ reply.part = "prelim" /\ srv.st = "idle"
  \/ call.op = "list" /\ data.us = "backlog"

\* Every call of a client that stays tidy ends, or is Stuck in one of four ways:
\* also the search for a free port, if there is a reserved one.
CommandsReturn ==
  call.op # "none" ~> (call.op = "none" \/ Stuck \/ ~tidy \/ link = "fin")

\* A download ends when the server has sent the file (ftp.cpp:48-51, "it
\* receives a file from remote host"). It does not, see DownAgain.
DownloadReturns ==
  (tidy /\ call.at = "down" /\ data.them = "eof") ~> (call.op = "none")
============================================================================
