---------------------------- MODULE MCOneCSource ----------------------------
(* Small instances of OneCSource for TLC.                                  *)
EXTENDS OneCSource

MCCounterpartyIds == {"a", "b", "c", "d"}

\* The references are ordered as the names.
MCRefOrder == [id \in Ids |-> CASE id = "a" -> 1 [] id = "b" -> 2 [] id = "c" -> 3 [] OTHER -> 4]

MCRow == [ts |-> 1, val |-> "v1", form |-> NoForm]

\* Two or three objects, with room for new ones between them.
MCInitialCatalogues ==
    {[id \in Ids |-> IF id \in S THEN MCRow ELSE NoRow] : S \in {{"b", "d"}, {"a", "c", "d"}}}
=============================================================================
