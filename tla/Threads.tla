------------------------------ MODULE Threads ------------------------------
(***************************************************************************)
(* MultiThreadConfig: the OpenMP team and its division over sockets.       *)
(* Thread t runs on logical socket SocketId(t), where it is the            *)
(* SocketOffset(t)-th thread.                                              *)
(***************************************************************************)
EXTENDS Integers

CONSTANTS ThreadNum,   \* mtcfg.thread_num
          SocketNum    \* mtcfg.socket_num

(***************************************************************************)
(* "Each socket will have the same number of threads": the comment of the  *)
(* struct, which nothing in the code enforces, is what the arithmetic of   *)
(* SocketId needs to land on a socket.                                     *)
(***************************************************************************)
ASSUME ThreadsAssumption ==
    /\ SocketNum \in Nat \ {0}
    /\ ThreadNum \in Nat \ {0}
    /\ ThreadNum % SocketNum = 0

Team    == 0 .. ThreadNum - 1
Sockets == 0 .. SocketNum - 1

SocketThreadNum == ThreadNum \div SocketNum
SocketId(t)     == t \div SocketThreadNum
SocketOffset(t) == t % SocketThreadNum

\* The threads of socket s.
TeamOf(s) == {t \in Team : SocketId(t) = s}
=============================================================================
