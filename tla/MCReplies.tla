----------------------------- MODULE MCReplies ------------------------------
(***************************************************************************)
(* Values for TLC: the empty string, a number, a short string, a long one  *)
(***************************************************************************)
EXTENDS Replies

MCObjects == 1 .. 12
MCValues == {<<>>, <<1>>, <<2>>}
MCNumbers == {<<1>>}
=============================================================================
