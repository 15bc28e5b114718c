----------------------------- MODULE MCDownload -----------------------------
(* Four names, listed two at a time: A, A/b, a and one Windows refuses.  A and A/b always
   collide; where case is ignored a collides with both. *)
EXTENDS Download
MCPath == {"A", "A/b", "a", "a/b", "c"}
MCLeaf == <<"A", "A/b", "a", "c">>
MCAbove == [p \in MCPath |-> IF p = "A/b" THEN {"A"} ELSE IF p = "a/b" THEN {"a"} ELSE {}]
MCFold == [p \in MCPath |-> IF p = "A" THEN "a" ELSE IF p = "A/b" THEN "a/b" ELSE p]
MCUnsafeOn == [posix |-> {}, win32 |-> {4}]
=============================================================================
