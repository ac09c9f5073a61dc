---------------------------- MODULE MCTopicsPage ----------------------------
(***************************************************************************)
(* One topic, an internal one, so that whether it is shown depends on the  *)
(* choice of internal topics and on the search; a search term that matches *)
(* no topic and the empty one.                                             *)
(***************************************************************************)
EXTENDS TopicsPage

CONSTANT t1

MCMatches(topic, term) == term = EmptyTerm
=============================================================================
