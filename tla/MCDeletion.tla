----------------------------- MODULE MCDeletion -----------------------------
(* A hide marker on foo, foo itself, two versions under foo/ (the first locked) and foobar,
   listed two at a time; other clients touch the hide marker and the second file. *)
EXTENDS Deletion
MCVersions == 1 .. 5
MCPlaceOf == <<"exact", "exact", "under", "under", "sibling">>
MCPosition == <<1, 2, 3, 4, 5>>
=============================================================================
