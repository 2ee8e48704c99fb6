------------------------------- MODULE MCOwn -------------------------------
EXTENDS Own, TLC

CONSTANTS sock, l1, a1, s1, s2, c1, c2, c3, app, io1, io2

\* The socket has its own thread, its descendants live in two I/O threads.  An
\* accepted session and the connecter of s2 are in another thread than their
\* owner; s1 has both its connecters, for a second attempt, in its own thread.
MCTid == sock :> app @@ l1 :> io1 @@ a1 :> io2 @@ s1 :> io1 @@ s2 :> io1
         @@ c1 :> io2 @@ c2 :> io1 @@ c3 :> io1
MCAffinity == s1 :> {io1} @@ s2 :> {io2} @@ a1 :> {}
=============================================================================
