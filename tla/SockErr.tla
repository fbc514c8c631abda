------------------------------- MODULE SockErr -------------------------------
(***************************************************************************)
(* The classes of errors (socket++/socketerr.cpp, socketerr.h) as a POSIX  *)
(* build has them: an errno is its name, and EAGAIN is the same number as  *)
(* EWOULDBLOCK.  An err is asked for its class with io (), arg (), op (),  *)
(* conn (), addr () and benign ().                                         *)
(***************************************************************************)

sockerr_io == {"EINPROGRESS", "EALREADY"}

sockerr_arg ==
  {"ENOTSOCK", "EDESTADDRREQ", "EMSGSIZE", "EPROTOTYPE", "ENOPROTOOPT",
   "EPROTONOSUPPORT", "EOPNOTSUPP", "EAFNOSUPPORT", "ESOCKTNOSUPPORT",
   "EPFNOSUPPORT"}

sockerr_op ==
  {"ENETDOWN", "ENETUNREACH", "ENETRESET", "ECONNABORTED", "ECONNRESET",
   "ENOBUFS", "ETIMEDOUT", "ECONNREFUSED", "ELOOP", "ENAMETOOLONG",
   "ENOTEMPTY", "EHOSTUNREACH", "ESHUTDOWN", "ETOOMANYREFS", "EHOSTDOWN",
   "EUSERS", "EDQUOT"}

sockerr_conn ==
  {"EPIPE", "EISCONN", "ENOTCONN", "ECONNRESET", "ECONNREFUSED", "ETIMEDOUT"}

sockerr_addr == {"EADDRINUSE", "EADDRNOTAVAIL"}

\* EINTR is not among them, although the comment of the function names it.
sockerr_benign == {"EWOULDBLOCK", "EAGAIN"}

\* Seeded fault: operational errors are looked for before connection errors.
default_error_condition_op(e) ==
  IF e \in sockerr_benign THEN "benign"
  ELSE IF e \in sockerr_op THEN "operational"
  ELSE IF e \in sockerr_conn THEN "connection"
  ELSE "other"

\* The classes overlap: the first one that has the errno is its class, so that
\* ECONNRESET, ECONNREFUSED and ETIMEDOUT are never operational.
default_error_condition(e) ==
  IF e \in sockerr_benign THEN "benign"
  ELSE IF e \in sockerr_addr THEN "address"
  ELSE IF e \in sockerr_conn THEN "connection"
  ELSE IF e \in sockerr_op THEN "operational"
  ELSE IF e \in sockerr_arg THEN "argument"
  ELSE IF e \in sockerr_io THEN "io"
  ELSE "other"

\* err::conn () and err::benign () of an err made from errno e.
conn(e) == default_error_condition(e) = "connection"
benign(e) == default_error_condition(e) = "benign"
=============================================================================
