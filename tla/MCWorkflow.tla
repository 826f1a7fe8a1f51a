----------------------------- MODULE MCWorkflow -----------------------------
(* s -> c and s -> p, a PARALLEL node with the children a and b; a -> j,   *)
(* b -> j and b -> q, a PARALLEL node of the next wave with the child d;   *)
(* q -> g -> e and j -> e.  What follows d and p is never followed.        *)
EXTENDS Workflow

MCNodes == {"s", "c", "p", "a", "b", "j", "q", "d", "g", "e"}
MCKind == [n \in MCNodes |->
    CASE n = "s" -> "start" [] n = "e" -> "end"
      [] n \in {"p", "q"} -> "parallel"
      [] n \in {"a", "d", "g"} -> "http"
      [] n \in {"b", "c"} -> "code"
      [] n = "j" -> "llm"]
MCNextNodes == [n \in MCNodes |->
    CASE n = "s" -> <<"c", "p">> [] n \in {"a", "d"} -> <<"j">>
      [] n = "b" -> <<"j", "q">> [] n = "q" -> <<"g">>
      [] n \in {"p", "j", "g"} -> <<"e">> [] n \in {"c", "e"} -> <<>>]
MCChildren == [n \in MCNodes |->
    CASE n = "p" -> <<"a", "b">> [] n = "q" -> <<"d">> [] OTHER -> <<>>]

\* The instance is not one for which HonestResult says less.
ASSUME LeadsToEnd
=============================================================================
