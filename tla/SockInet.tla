------------------------------ MODULE SockInet ------------------------------
(***************************************************************************)
(* The inet socket that waits for a connection (sockinetbuf and            *)
(* sockinetaddr, socket++/sockinet.cpp, over sockbuf's bind, listen and    *)
(* accept): how it gets its port, which number the program then has for    *)
(* it, and which connections it can get.                                   *)
(*                                                                         *)
(* An address is a port; every address bound here is INADDR_ANY.  Which    *)
(* ports other sockets hold may change at any time, so that a bind finds   *)
(* any port in use or not.                                                 *)
(***************************************************************************)
EXTENDS Integers

CONSTANTS
  Byte,      \* bound: values of a byte, 256
  Reserved   \* bound: ports that only root may bind, 1 .. 1023

ASSUME ByteAssumption == Byte \in Nat /\ Byte > 1
ASSUME ReservedAssumption ==
  /\ Reserved \subseteq 1 .. Byte * Byte - 1
  /\ Reserved # {}

VARIABLES
  sb,       \* the socket: "none", "open", "bound" or "listening", and its port
  portno    \* the int that bind_until_success counts up; 0 when it is done with

inet == <<sb, portno>>

Width == Byte * Byte
Ports == 1 .. Width - 1

NoSocket == [st |-> "none", port |-> 0]

\* sockinetaddr (addr, port_no): sin_port has 16 bits of the int.
sin_port(port_no) == port_no % Width

\* sockinetaddr::getport () of localaddr (): what getsockname tells.
localport == sb.port

InetInit == sb = NoSocket /\ portno = 0

\* sockinetbuf (sock_stream, 0), when ::socket succeeds.
Open == [st |-> "open", port |-> 0]

\* The ports that bind (port_no) may give the socket: for port 0 the kernel
\* chooses one.
Bindable(port_no) ==
  IF sin_port(port_no) = 0 THEN Ports \ Reserved
                           ELSE {sin_port(port_no)} \ Reserved

\* Seeded fault: an err of another kind counts as a port in use.
BindErrorsInUse(port_no) == {"EADDRINUSE"}

\* The errors it may throw: a port in use, or no free one left to choose; a
\* reserved port.
BindErrors(port_no) ==
  IF sin_port(port_no) \in Reserved THEN {"EACCES"} ELSE {"EADDRINUSE"}

\* One turn of bind_until_success: bound; or portno is counted up, and any
\* error but EADDRINUSE is thrown on.
BindTurn(bound, again, thrown) ==
  \/ /\ \E p \in Bindable(portno) : sb' = [st |-> "bound", port |-> p]
     /\ portno' = portno
     /\ bound
  \/ /\ "EADDRINUSE" \in BindErrors(portno)
     /\ portno' = portno + 1
     /\ again /\ sb' = sb
  \/ /\ \E e \in BindErrors(portno) : e # "EADDRINUSE"
     /\ portno' = 0
     /\ thrown

\* listen (num): from now on a connection to the port is established by the
\* kernel, before and without accept ().
Listening(s) == [s EXCEPT !.st = "listening"]
Reaches(port) == sb.st = "listening" /\ sb.port = port
=============================================================================
