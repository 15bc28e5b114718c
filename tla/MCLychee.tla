------------------------------ MODULE MCLychee ------------------------------
(* Three docs:links processes over one cache.  Every download is tried twice, and the lock is
   waited for as long as an install can take. *)
EXTENDS LycheeInstall, TLC
CONSTANTS p1, p2, p3
MCProcess == {p1, p2, p3}
=============================================================================
