----------------------------- MODULE SocketError -----------------------------
(***************************************************************************)
(* The error objects of netb: the class that SocketError.cpp gives to an   *)
(* errno, by the system call that failed, and what Error.cpp and           *)
(* ErrorClass.cpp make of it.  An error is a class and a code; the text is *)
(* left out.                                                               *)
(***************************************************************************)

NoError == [class |-> "none", code |-> "OK"]
Of(class, code) == [class |-> class, code |-> code]

\* Error::operator bool: is it set?
IsSet(e) == e.class # "none"

\* THROW_ERROR: the class throws its exception; that of no error throws nothing.
Thrown(e) == IF IsSet(e) THEN e.class ELSE "nothing"

\* A code is logic, runtime or, by default, unclassified.
Classified(code, logic, runtime) ==
  Of(CASE code \in logic -> "logic"
       [] code \in runtime -> "runtime"
       [] OTHER -> "general", code)

SelectError(code) == Classified(code, {"EBADF", "EINVAL"}, {"ENOMEM"})
OpenError(code) == Classified(code, {"EAFNOSUPPORT", "EINVAL", "EPROTONOSUPPORT"},
                              {"EACCES", "EMFILE", "ENFILE", "ENOBUFS", "ENOMEM"})
CloseError(code) == Classified(code, {"EBADF"}, {"EINTR", "EIO"})
ShutdownError(code) == Classified(code, {"EBADF", "EINVAL", "ENOTSOCK"}, {"ENOTCONN"})
BindError(code) ==
  Classified(code, {"EACCES", "EADDRINUSE", "EBADF", "EINVAL", "ENOTSOCK"}, {})
ConnectError(code) ==
  Classified(code, {"EAFNOSUPPORT", "EALREADY", "EBADF", "EFAULT", "EISCONN",
                    "ENOTSOCK", "EPROTOTYPE"},
             {"EACCES", "EPERM", "EADDRINUSE", "EADDRNOTAVAIL", "ENETUNREACH",
              "EAGAIN", "ECONNREFUSED", "EINPROGRESS", "EINTR", "ETIMEDOUT"})
SendError(code) ==
  Classified(code, {"EACCES", "EBADF", "EDESTADDRREQ", "EFAULT", "EINVAL", "EISCONN",
                    "EMSGSIZE", "ENOTCONN", "ENOTSOCK", "EOPNOTSUPP"},
             {"ECONNRESET", "ENOBUFS", "ENOMEM", "EAGAIN", "EINTR", "EPIPE"})
ReceiveError(code) ==
  Classified(code, {"EBADF", "EFAULT", "EINVAL", "ENOTCONN", "ENOTSOCK"},
             {"ECONNREFUSED", "ENOMEM", "EAGAIN", "EINTR"})
NameError(code) ==
  Classified(code, {"EBADF", "EFAULT", "EINVAL", "ENOTSOCK", "ENOTCONN"}, {"ENOBUFS"})
ControlError(code) ==
  Classified(code, {"EBADF", "EINVAL"}, {"EACCES", "EAGAIN", "EFAULT", "ENOLCK"})
OptionError(code) ==
  Classified(code, {"EBADF", "EFAULT", "EINVAL", "ENOPROTOOPT", "ENOTSOCK"}, {})

\* The functions for listen() and accept() are empty: nothing is set.
ListenError(code) == NoError
AcceptError(code) == NoError

\* The codes at which these functions assert that they are not called.
ConnectAsserts == {"EAGAIN", "ECONNREFUSED", "EINPROGRESS", "EINTR", "ETIMEDOUT"}
SendAsserts == {"EAGAIN", "EINTR", "EPIPE"}
ReceiveAsserts == {"EAGAIN", "EINTR"}
=============================================================================
