----------------------------- MODULE MCListing -----------------------------
(* Six names on pages of two, and up to three results.  Of entries of 3 to 6 bytes two just
   fit the limit of 12 with their comma, or miss it by one byte; three never do, and their
   preview ends at the one or the other of its limits. *)
EXTENDS Listing
MCSize == <<5, 5, 4, 3, 6, 3>>
=============================================================================
