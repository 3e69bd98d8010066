------------------------------ MODULE MC_SsiExpr ------------------------------
(* Expressions of up to four characters over an alphabet with every case  *)
(* of the tokenizer: an operator, a quote, a blank, a newline, a letter    *)
(* and $, { and } for variables; one name in the CGI environment and one  *)
(* in the SSI variables.                                                   *)
EXTENDS SsiExpr

MCChars == {"a", "$", "{", "}", "=", "&", "'", " ", "\n"}

MCCgiEnv == <<"a">> :> <<"b">>

MCSsiVars == <<"a", "a">> :> <<"x">>
====
