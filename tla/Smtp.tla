-------------------------------- MODULE Smtp --------------------------------
(***************************************************************************)
(* smtp::smtpbuf (socket++/smtp.cpp): commands, the replies that are       *)
(* copied to `output' or left to operator <<, and the text of a message,   *)
(* sent chunk by chunk with its dots doubled.                              *)
(*                                                                         *)
(* What the client sends is a sequence of commands and chars of text; "\n" *)
(* stands for CRLF there, "a" for any char but a dot.  The receiver        *)
(* (inbox, mode, text, mail) is external: it works line by line, undoes    *)
(* the doubling, and may refuse any command.                               *)
(***************************************************************************)
EXTENDS ReplyStream

CONSTANTS
  Chunk,     \* bound: sizeof (buf) in data (filename), 1024
  MaxText,   \* bound: chars in a message
  MaxCmds,   \* bound: commands and messages in a behaviour
  MaxUntidy  \* bound: commands after which an untidy client stops calling

ASSUME SmtpAssumption ==
  /\ Chunk \in Nat \ {0} /\ MaxText \in Nat
  /\ MaxCmds \in Nat /\ MaxUntidy \in Nat

VARIABLES
  output,   \* the smtpbuf was given a stream for the replies
  call,     \* the call in progress, and where it is
  out,      \* outcome of the latest call
  put,      \* the put area: what no flush has sent
  inbox,    \* receiver: what has come and is not dealt with
  mode,     \* receiver: takes commands ("cmd") or the lines of a text ("data")
  text,     \* receiver: the lines so far, for the DATA command of number id
  mail,     \* receiver: the latest message it has accepted
  msg,      \* ghost: the text of the latest data (), its DATA, the seam to its
            \* next chunk, and whether something is known to spoil it
  n,        \* ghost: commands and ends of messages sent
  shows,    \* ghost: times operator << has shown a reply
  seen,     \* ghost: which reply was shown last, to its last line
  tidy      \* ghost: the greeting was read first, no read of get_response ended
            \* within a line, no err came, no text was taken for a command

client == <<output, call, out, put>>
receiver == <<inbox, mode, text, mail>>
ghosts == <<msg, n, shows, seen, tidy>>
vars == <<area, flight, link, output, call, out, put, inbox, mode, text, mail,
          msg, n, shows, seen, tidy>>

Idle == [op |-> "none", at |-> "no"]
Commands == {"other", "QUIT", "DATA"}
Item(verb, id) == [verb |-> verb, id |-> id]

\* Where a call waits in smtpbuf::get_response.
Responses == {"greeting", "reply", "DATA", "end"}

\* Type invariant. What is not a type in it: get_response consumes whole lines
\* only, so that q[3], which decides whether it goes on, is a separator.
TypeOK ==
  /\ output => area = <<>> \/ Head(area).at = 1
  /\ link \in {"none", "open", "fin"}
  /\ output \in BOOLEAN
  /\ call \in [op : {"none", "helo", "command", "buffer", "file", "show"},
               at : Responses \cup {"no", "text", "show"}]
  /\ out \in {"none", "returned", "shown", "err"}
  /\ \A s \in {put, inbox} : \A i \in 1 .. Len(s) : s[i].id \in 0 .. MaxCmds
  /\ mode \in {"greet", "cmd", "data"}
  /\ text.id \in 0 .. MaxCmds /\ mail.id \in 0 .. MaxCmds
  /\ Len(msg.text) <= MaxText
  /\ n \in 0 .. MaxCmds /\ shows \in 0 .. n + 1 /\ seen \in -1 .. n
  /\ tidy \in BOOLEAN

NoSeam == [ch |-> "none", dot |-> FALSE]

Init ==
  /\ StreamInit
  /\ output \in BOOLEAN
  /\ call = Idle /\ out = "none" /\ put = <<>>
  /\ inbox = <<>> /\ mode = "greet"
  /\ text = [id |-> 0, lines |-> <<>>] /\ mail = [id |-> 0, lines |-> <<>>]
  /\ msg = [text |-> <<>>, id |-> 0, seam |-> NoSeam, spoilt |-> FALSE]
  /\ n = 0 /\ shows = 0 /\ seen = -1 /\ tidy = TRUE

CanCall == call.op = "none" /\ (tidy \/ n < MaxUntidy)

------------------------------------------------------------------------------
(* Building blocks of the calls.                                           *)

\* A call on the control connection throws: what has not been sent or read
\* stays where it is.
Throw ==
  /\ call' = Idle
  /\ out' = "err"
  /\ tidy' = FALSE

\* The call goes on at `at', or, with "no", is over.
Goes(at) ==
  /\ call' = IF at = "no" THEN Idle ELSE [call EXCEPT !.at = at]
  /\ out' = IF at = "no" THEN "returned" ELSE "none"

\* items and whatever an earlier failed flush has left go out with a sync ().
Sync(items, op, at) ==
  \/ /\ link # "none"
     /\ inbox' = IF link = "open" THEN inbox \o put \o items ELSE inbox
     /\ put' = <<>>
     /\ call' = IF at = "no" THEN Idle ELSE [op |-> op, at |-> at]
     /\ out' = IF at = "no" THEN "returned" ELSE "none"
     /\ tidy' = (tidy /\ (output /\ n = 0 => op = "helo"))
  \/ /\ put' = put \o items
     /\ inbox' = inbox
     /\ Throw

\* send_cmd: without output it is over after the flush.
send_cmd(verb, op, at, next) ==
  /\ n' = n + 1
  /\ Sync(<<Item(verb, n + 1)>>, op, IF output THEN at ELSE next)

\* The char behind buf[len]: what else the array holds, or what follows it.
Behind == {".", "a"}

\* Seeded fault: a dot behind a newline is not looked for.
StuffedHead(chunk, behind) ==
  (IF Head(chunk) = "." THEN <<".">> ELSE <<>>) \o chunk

\* send_buf (chunk): a dot at the beginning is doubled, and one behind a
\* newline; behind the last char that is *(p+1) past the end.
Stuffed(chunk, behind) ==
  LET next(i) == IF i < Len(chunk) THEN chunk[i + 1] ELSE behind
      sent(i) == IF chunk[i] = "\n" /\ next(i) = "." THEN <<"\n", ".">> ELSE <<chunk[i]>>
  IN  (IF Head(chunk) = "." THEN <<".">> ELSE <<>>)
        \o FlattenSeq([i \in DOMAIN chunk |-> sent(i)])

Items(chars) == [i \in DOMAIN chars |-> Item(chars[i], 0)]

\* "\r\n.\r\n": the end of the text counts as a command, since it has a reply.
EndOfText(id) == <<Item("\n", 0), Item(".", 0), Item("\n", id)>>

\* What a chunk boundary does to the text: a chunk other than the first that
\* begins with a dot within a line gets a second one; a dot in the place
\* behind a newline at the end is sent, and is in the way of a dot, of an empty
\* line or of the end.
Spoils(chunk) ==
  \/ msg.seam.ch \notin {"none", "\n"} /\ Head(chunk) = "."
  \/ msg.seam.dot /\ Head(chunk) \in {".", "\n"}

Texts(len) == UNION {[1 .. k -> {"a", ".", "\n"}] : k \in 1 .. len}

------------------------------------------------------------------------------
(* The calls of the client.                                                *)

Connects ==
  /\ CanCall /\ link = "none"
  /\ \E r \in Connect("tcp") :
       IF r = "ok" THEN link' = "open" /\ out' = "none"
                   ELSE link' = link /\ out' = "err"
  /\ UNCHANGED <<area, flight, output, call, put, receiver, ghosts>>

\* helo (): with output, the greeting is read first.
Helo ==
  /\ CanCall /\ n < MaxCmds
  /\ \/ /\ output /\ link # "none"
        /\ call' = [op |-> "helo", at |-> "greeting"]
        /\ out' = "none"
        /\ UNCHANGED <<put, inbox, n, tidy>>
     \/ /\ ~output
        /\ send_cmd("other", "helo", "reply", "no")
  /\ UNCHANGED <<stream, output, mode, text, mail, msg, shows, seen>>

\* mail, rcpt, rset, vrfy, ..., and quit.
Command ==
  /\ CanCall /\ n < MaxCmds
  /\ \E verb \in Commands \ {"DATA"} : send_cmd(verb, "command", "reply", "no")
  /\ UNCHANGED <<stream, output, mode, text, mail, msg, shows, seen>>

\* data (buf, len) and data (filename): DATA, and its reply is not looked at.
Data ==
  /\ CanCall /\ n + 1 < MaxCmds
  /\ \E op \in {"buffer", "file"} : send_cmd("DATA", op, "DATA", "text")
  /\ msg' = [text |-> <<>>, id |-> n + 1, seam |-> NoSeam, spoilt |-> FALSE]
  /\ UNCHANGED <<stream, output, mode, text, mail, shows, seen>>

\* A chunk goes to the put area: the next one that ::read gives of the file, or
\* the whole buffer.
SendBuf ==
  /\ call.at = "text"
  /\ call.op = "buffer" => msg.text = <<>>
  /\ \E chunk \in Texts(IF call.op = "file" THEN Chunk ELSE MaxText), behind \in Behind :
       /\ Len(msg.text) + Len(chunk) <= MaxText
       /\ put' = put \o Items(Stuffed(chunk, behind))
       /\ msg' = [msg EXCEPT
            !.text = @ \o chunk,
            !.seam = [ch |-> Last(chunk), dot |-> Last(chunk) = "\n" /\ behind = "."],
            !.spoilt = @ \/ Spoils(chunk)]
  /\ UNCHANGED <<stream, output, call, out, receiver, n, shows, seen, tidy>>

\* On the way a full put area is sent, or sending it throws.
Overflow ==
  /\ call.at = "text" /\ put # <<>>
  /\ \/ /\ link # "none"
        /\ inbox' = IF link = "open" THEN inbox \o put ELSE inbox
        /\ put' = <<>>
        /\ UNCHANGED <<call, out, tidy>>
     \/ Throw /\ UNCHANGED <<put, inbox>>
  /\ UNCHANGED <<stream, output, mode, text, mail, msg, n, shows, seen>>

\* The text is over, or a failed ::read is taken for its end.
EndText ==
  /\ call.at = "text"
  /\ \E readFails \in {FALSE, call.op = "file"} :
       msg' = [msg EXCEPT !.spoilt = @ \/ msg.seam.dot \/ readFails, !.seam = NoSeam]
  /\ n' = n + 1
  /\ Sync(EndOfText(n + 1), call.op, IF output THEN "end" ELSE "no")
  /\ UNCHANGED <<stream, output, mode, text, mail, shows, seen>>

\* operator << of an smtp without output, when there is a reply to show.
Show ==
  /\ CanCall /\ ~output /\ link # "none" /\ shows <= n
  /\ call' = [op |-> "show", at |-> "show"]
  /\ out' = "none"
  /\ shows' = shows + 1
  /\ UNCHANGED <<stream, output, put, receiver, msg, n, seen, tidy>>

------------------------------------------------------------------------------
(* get_response () of smtpbuf, and of smtp.                                *)

\* What the call does when its reply is over.
Got ==
  \/ /\ call.at \in {"reply", "end"}
     /\ Goes("no")
     /\ UNCHANGED <<put, inbox, n, tidy>>
  \/ /\ call.at = "DATA"
     /\ Goes("text")
     /\ UNCHANGED <<put, inbox, n, tidy>>

Responding == call.at \in Responses
Shown(line) == seen' = IF line.kind = "first" THEN seen ELSE line.id

ResponseRefill ==
  /\ Responding \/ call.at = "show"
  /\ Refill
  /\ tidy' = (tidy /\ (output => ~Torn'))
  /\ UNCHANGED <<client, receiver, msg, n, shows, seen>>

\* Seeded fault: without a CRLF at hand all that is there is consumed.
ConsumedAll == IF CRLFs = {} THEN Len(area) ELSE Min(CRLFs)

\* What is consumed of 5 chars or more: the line up to its CRLF, or nothing.
Consumed == IF CRLFs = {} THEN 0 ELSE Min(CRLFs)

\* A turn of the loop. Without a CRLF at hand it looks at the separator all the
\* same: the reply counts as read, and will for every command to come; or,
\* with '-', the loop spins.
ResponseLine ==
  /\ Responding /\ Len(area) >= 5
  /\ area' = SubSeq(area, Consumed + 1, Len(area))
  /\ IF CRLFs = {} THEN seen' = seen ELSE Shown(Head(area).line)
  /\ \E ends \in EndsReply(Head(area)) :
       \/ /\ ends /\ call.at # "greeting"
          /\ Got
       \/ /\ ends /\ call.at = "greeting"
          /\ n' = n + 1
          /\ Sync(<<Item("other", n + 1)>>, "helo", "reply")
       \/ ~ends /\ UNCHANGED <<call, out, put, inbox, n, tidy>>
  /\ UNCHANGED <<flight, link, output, mode, text, mail, msg, shows>>

\* smtp::get_response (buf, len): a line, however many reads it comes in; with
\* '-' in its buf[3] there is another one.
ShowLine ==
  /\ call.at = "show" /\ area # <<>>
  /\ LET LFs == {k \in 1 .. Len(area) : IsLF(area[k])}
         line == Head(area).line
     IN
     IF LFs = {}
     THEN area' = <<>> /\ UNCHANGED <<call, out, seen>>
     ELSE /\ area' = SubSeq(area, Min(LFs) + 1, Len(area))
          /\ Shown(line)
          /\ IF line.kind = "first" THEN UNCHANGED <<call, out>>
             ELSE call' = Idle /\ out' = "shown"
  /\ UNCHANGED <<flight, link, output, put, receiver, msg, n, shows, tidy>>

\* The end of the stream ends either; a failing read throws, which the istream
\* of operator << turns into its bad state.
ResponseEof ==
  /\ AtEof
  /\ \/ Responding /\ call.at # "greeting" /\ Got
     \/ /\ call.at = "greeting"
        /\ n' = n + 1
        /\ Sync(<<Item("other", n + 1)>>, "helo", "reply")
     \/ call.at = "show" /\ Goes("no") /\ UNCHANGED <<put, inbox, n, tidy>>
  /\ UNCHANGED <<stream, output, mode, text, mail, msg, shows, seen>>

ResponseFails ==
  /\ Responding \/ call.at = "show"
  /\ ReadMayFail
  /\ Throw
  /\ UNCHANGED <<stream, output, put, receiver, msg, n, shows, seen>>

------------------------------------------------------------------------------
(* The receiver.                                                           *)

\* A reply, of one line or two when it is to a command; nobody looks at its
\* code.
Says(id) ==
  \/ Writes(Reply(id, "final", 2, Single))
  \/ id > 0 /\ Writes(Reply(id, "final", 2, <<"first", "last">>))

Greets ==
  /\ link = "open" /\ mode = "greet"
  /\ Says(0)
  /\ mode' = "cmd"
  /\ UNCHANGED <<area, link, client, inbox, text, mail, ghosts>>

\* The next line that has come: its last item is a command or an end of line.
LineEnds == {k \in DOMAIN inbox : inbox[k].verb \in Commands \cup {"\n"}}
NextLine == SubSeq(inbox, 1, Min(LineEnds))
Body == LET last == Last(NextLine) IN
  [i \in 1 .. (Len(NextLine) - IF last.verb = "\n" THEN 1 ELSE 0) |-> NextLine[i].verb]

TakeLine ==
  /\ link = "open" /\ mode # "greet" /\ LineEnds # {}
  /\ inbox' = SubSeq(inbox, Min(LineEnds) + 1, Len(inbox))

\* A line is taken for a command: accepted, refused, or text that is none.
TakesCommand ==
  /\ TakeLine /\ mode = "cmd"
  /\ LET c == Last(NextLine) IN
     \/ /\ Body = <<c.verb>> /\ c.verb \in Commands
        /\ Says(c.id)
        /\ link' = IF c.verb = "QUIT" THEN "fin" ELSE link
        /\ IF c.verb = "DATA" THEN mode' = "data" /\ text' = [id |-> c.id, lines |-> <<>>]
                              ELSE UNCHANGED <<mode, text>>
        /\ tidy' = tidy
     \/ /\ Says(c.id)
        /\ tidy' = (tidy /\ Body = <<c.verb>>)
        /\ UNCHANGED <<link, mode, text>>
  /\ UNCHANGED <<area, client, mail, msg, n, shows, seen>>

\* A line of the text: "." ends it, and a dot at its beginning is taken off.
TakesText ==
  /\ TakeLine /\ mode = "data"
  /\ IF Body = <<".">>
     THEN /\ mail' = text
          /\ mode' = "cmd"
          /\ text' = [id |-> 0, lines |-> <<>>]
          /\ Says(Last(NextLine).id)
          /\ tidy' = (tidy /\ Last(NextLine).id > 0)
     ELSE /\ LET line == IF Body # <<>> /\ Head(Body) = "." THEN Tail(Body) ELSE Body
             IN  text' = [text EXCEPT !.lines = @ \o Append(line, "\n")]
          /\ UNCHANGED <<mail, mode, flight, tidy>>
  /\ UNCHANGED <<area, link, client, msg, n, shows, seen>>

Closes ==
  /\ link = "open" /\ inbox = <<>>
  /\ link' = "fin"
  /\ UNCHANGED <<area, flight, client, receiver, ghosts>>

------------------------------------------------------------------------------
Calls == Connects \/ Helo \/ Command \/ Data \/ Show
Proceeds == SendBuf \/ Overflow \/ EndText \/ ResponseRefill \/ ResponseLine \/ ShowLine \/ ResponseEof
Receiver == Greets \/ TakesCommand \/ TakesText

Next == Calls \/ Proceeds \/ ResponseFails \/ Receiver \/ Closes

Spec == Init /\ [][Next]_vars

------------------------------------------------------------------------------
(* Properties.                                                             *)

\* The receiver has the message that was sent, with the end of line that the
\* final dot needs in front of it: the doubling of send_buf is what it undoes,
\* over any chunks, unless a boundary is in a place that Spoils names
\* (smtp.cpp:95-103) or a failed ::read cut the text short.
MessageDelivered ==
  mail.id > 0 /\ mail.id = msg.id /\ tidy /\ ~msg.spoilt =>
    mail.lines = Append(msg.text, "\n")

\* The reply shown last is the one to the command, or to the end of the text,
\* sent last; operator << shows the replies one after the other. Neither leaves
\* a part of a reply for the next. (The client is untidy where that cannot
\* hold: the greeting unread, a read of get_response that ended within a line,
\* smtp.cpp:34, an err, a text taken for commands because DATA was refused,
\* smtp.cpp:111, or ended early by a misplaced dot.)
InStep ==
  tidy /\ link = "open" =>
    /\ output /\ out = "returned" => seen = n /\ area = <<>> /\ flight = <<>>
    /\ out = "shown" => /\ seen = shows - 1
                        /\ area = <<>> \/ (Head(area).at = 1 /\ Head(area).line.kind # "last")
=============================================================================
