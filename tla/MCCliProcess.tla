----------------------------- MODULE MCCliProcess ------------------------------
(* Instances of CliProcess for TLC. *)
EXTENDS CliProcess

Names == {"f", "f.gz", "f.zz", "f.gz.gz", "f.zz.gz"}

WithGz == [p \in {"f", "f.gz", "f.zz"} |->
             CASE p = "f" -> "f.gz" [] p = "f.gz" -> "f.gz.gz" [] p = "f.zz" -> "f.zz.gz"]

\* Two compressed files may have the same name without the suffix.
WithoutSuffix == [p \in {"f.gz", "f.zz"} |-> "f"]

WithSuffixes == [p \in Names |-> IF p = "f" THEN <<"f.gz", "f.zz">> ELSE <<>>]

OneOrTwo == {<<"f">>, <<"stdin">>, <<"f.gz">>, <<"f", "f.zz">>, <<"f.gz", "f.zz">>}

\* Any kind of file at the first path, files or nothing at the next two.
SomeFiles ==
  {[p \in Names |-> CASE p = "f" -> f [] p = "f.gz" -> g [] p = "f.zz" -> z [] OTHER -> "none"] :
     f \in Kinds, g \in {"none", "file", "link"}, z \in {"none", "file"}}
===============================================================================
