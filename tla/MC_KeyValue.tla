------------------------------ MODULE MC_KeyValue ------------------------------
(* Replacement patterns of up to five symbols: enough for ${esc:1} and   *)
(* %{to:1}, a '?' before ${qsa}, and a brace closed after an unknown      *)
(* modifier.  Group 1 of the regex does not exist (n = 1); groups 0 and 1 *)
(* of the condition do.                                                   *)
EXTENDS KeyValue

MCSymbols == {"$", "%", "{", "}", "1", "?", "esc:", "to", ":", "url.path", "qsa"}
(* Bytes: '%', the digit '4', the hex letters 'a' and 'F', the non-hex  *)
(* letter 'g' and the high byte 0xC3 (the first byte of a UTF-8 letter).  *)
MCBytes == {37, 52, 97, 70, 103, 195}
====
