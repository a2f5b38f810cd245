----------------------------- MODULE MCAccount -----------------------------
(***************************************************************************)
(* Two server threads, two passwords (two people, or one who mistypes) and *)
(* two links: two signups of one address overlap, and after one was rolled *)
(* back another can be mailed its own link.  One reset token is enough:    *)
(* none is ever stored.                                                    *)
(***************************************************************************)
EXTENDS Account
=============================================================================
