-------------------------------- MODULE SsiExpr --------------------------------
(***************************************************************************)
(* The expression evaluator of mod_ssi (src/lighttpd-1.4.61/src/           *)
(* mod_ssi_expr.c): ssi_eval_expr calls ssi_expr_tokenizer for one token  *)
(* at a time and feeds it to the lemon parser, until the tokenizer        *)
(* returns 0 (end) or -1 (error) or the parser has failed.                *)
(*                                                                         *)
(* The input is a sequence of one-character strings over a small alphabet *)
(* (t->input, with t->size = strlen); a read past its end sees the        *)
(* terminating NUL.  A token is its id and, for a VALUE, its text: the    *)
(* parser's own text for an operator ("(=)", "(>=)", ...) only goes to    *)
(* the log and is left out.  The parser (mod_ssi_exprparser.y, generated  *)
(* by lemon, not in the repository) is a nondeterministic accept/reject   *)
(* of each token; line_pos and in_brace only go to the log or are never   *)
(* read, and are left out.                                                 *)
(***************************************************************************)
EXTENDS Naturals, Sequences, SequencesExt, TLC

CONSTANTS
  Chars,      \* the alphabet of expression characters
  MaxLen,     \* bound: length of the expression
  MaxTokens,  \* bound: tokens handed to the parser
  CgiEnv,     \* p->ssi_cgi_env: a function from names to values
  SsiVars,    \* p->ssi_vars, looked up when the name is not in CgiEnv
  SIZE_BITS   \* width of size_t (scaled down: only the wrap matters)

VARIABLES
  input,   \* the expression (expr)
  off,     \* t.offset
  tokens,  \* the tokens handed to ssiexprparser, in order
  ok,      \* context.ok
  ret,     \* the last result of ssi_expr_tokenizer
  pc       \* "loop", "end" (after the loop), "done", "crashed"

vars == <<input, off, tokens, ok, ret, pc>>

NUL == "NUL"
SizeT == 2 ^ SIZE_BITS

(* The <ctype.h> classes of the characters of the alphabet. *)
isalpha(c) == c \in {"a", "b", "x", "A"}
isdigit(c) == c \in {"0", "1", "9"}
NotGraph == {" ", "\t", "\n", "\r", NUL}
isgraph(c) == c \notin NotGraph

(* t->input[t->offset + j]. *)
Char(s, j) == IF j < Len(s) THEN s[j + 1] ELSE NUL

(* buffer_copy_string_len(token, t->input + o, len): len bytes from o. A  *)
(* length past the end of the input reads memory after the string.        *)
Overread == <<"overread">>
Copy(s, o, len) == IF o + len <= Len(s) THEN SubSeq(s, o + 1, o + len) ELSE Overread

(* The scanning loops: the least j >= i at which a character of Stop is. *)
RECURSIVE Scan(_, _, _, _)
Scan(s, o, i, Stop) == IF Char(s, o + i) \in Stop THEN i ELSE Scan(s, o, i + 1, Stop)

(* The $name loop of lines 206-208: a letter or '_', then also digits. *)
RECURSIVE NameEnd(_, _, _)
NameEnd(s, o, i) ==
  LET d == Char(s, o + i) IN
  IF isalpha(d) \/ d = "_" \/ (i > 1 /\ isdigit(d)) THEN NameEnd(s, o, i + 1) ELSE i

(* Lines 215-221: the CGI environment first, then the SSI variables. *)
Lookup(name) ==
  IF name \in DOMAIN CgiEnv THEN CgiEnv[name]
  ELSE IF name \in DOMAIN SsiVars THEN SsiVars[name] ELSE <<>>

Op1 == ("=" :> "EQ") @@ (">" :> "GT") @@ ("<" :> "LT") @@ ("!" :> "NOT")
         @@ ("(" :> "LPARAN") @@ (")" :> "RPARAN")
Op2 == (">" :> "GE") @@ ("<" :> "LE") @@ ("!" :> "NE") @@ ("&" :> "AND") @@ ("|" :> "OR")

Tok(id, text, o) == [ret |-> 1, tok |-> [id |-> id, text |-> text], off |-> o]
Fail(o) == [ret |-> -1, off |-> o]

(* case '$' (lines 194-226): the name, its value, and the offset after.  *)
DollarVar(s, o) ==
  LET braced == Char(s, o + 1) = "{"
      i == IF braced THEN Scan(s, o, 2, {NUL, "}"})
           ELSE NameEnd(s, o, 1)
      name == IF braced THEN Copy(s, o + 2, (i - 3) % SizeT) ELSE Copy(s, o + 1, i - 1)
  IN CASE braced /\ Char(s, o + i) # "}" -> Fail(o)
       [] name = Overread -> Tok("VALUE", Overread, o + i)
       [] OTHER -> Tok("VALUE", Lookup(name), o + i)

(* ssi_expr_tokenizer (lines 49-266) from offset o: blanks are skipped by *)
(* the for loop; each case returns a token, an error, or the end.  The    *)
(* switch on the delimiters inside the default case only breaks out of    *)
(* itself, so a word runs up to the first character that is not isgraph. *)
RECURSIVE ssi_expr_tokenizer(_, _)
ssi_expr_tokenizer(s, o) ==
  LET c == Char(s, o) IN
  CASE o >= Len(s) \/ c = NUL -> [ret |-> 0, off |-> o]
    [] c \in {" ", "\t"} -> ssi_expr_tokenizer(s, o + 1)
    [] c \in {">", "<", "!"} ->
         IF Char(s, o + 1) = "=" THEN Tok(Op2[c], <<>>, o + 2) ELSE Tok(Op1[c], <<>>, o + 1)
    [] c \in {"&", "|"} ->
         IF Char(s, o + 1) = c THEN Tok(Op2[c], <<>>, o + 2) ELSE Fail(o)
    [] c \in {"=", "(", ")"} -> Tok(Op1[c], <<>>, o + 1)
    [] c = "'" ->
         LET i == Scan(s, o, 1, {NUL, "'"}) IN
         IF Char(s, o + i) = "'" THEN Tok("VALUE", Copy(s, o + 1, i - 1), o + i + 1) ELSE Fail(o)
    [] c = "$" -> DollarVar(s, o)
    [] OTHER ->
         LET i == Scan(s, o, 0, NotGraph) IN Tok("VALUE", Copy(s, o, i), o + i)

(***************************************************************************)
(* ssi_eval_expr (lines 268-317).                                          *)
(***************************************************************************)
Init ==
  /\ input \in UNION {[1 .. n -> Chars] : n \in 0 .. MaxLen}
  /\ off = 0 /\ tokens = <<>> /\ ok = TRUE /\ ret = 0 /\ pc = "loop"

(* One test of the while condition: the tokenizer runs first, and a      *)
(* token goes to ssiexprparser only while context.ok holds; the parser   *)
(* may reject it.  A copy past the input is a crash (or worse).          *)
Tokenize ==
  /\ pc = "loop"
  /\ Len(tokens) < MaxTokens
  /\ LET r == ssi_expr_tokenizer(input, off) IN
       /\ off' = r.off
       /\ ret' = r.ret
       /\ CASE r.ret = 1 /\ r.tok.text = Overread ->
                 pc' = "crashed" /\ UNCHANGED <<tokens, ok>>
            [] r.ret = 1 /\ ok ->
                 tokens' = Append(tokens, r.tok) /\ ok' \in BOOLEAN /\ pc' = "loop"
            [] OTHER -> pc' = "end" /\ UNCHANGED <<tokens, ok>>
  /\ UNCHANGED input

(* ssiexprparser(pParser, 0, ...): the end of input, which the parser    *)
(* may reject; then -1 for a tokenizer error or a failed parse.           *)
EndOfInput ==
  /\ pc = "end"
  /\ ok' \in IF ok THEN BOOLEAN ELSE {FALSE}
  /\ pc' = "done"
  /\ UNCHANGED <<input, off, tokens, ret>>

Done == pc \in {"done", "crashed"} /\ UNCHANGED vars

Next == Tokenize \/ EndOfInput \/ Done

Spec == Init /\ [][Next]_vars

(***************************************************************************)
(* The lexical syntax of SSI expressions, as the cases of the tokenizer   *)
(* and its error messages describe it: blanks separate tokens; the        *)
(* operators = != ! < <= > >= && || ( ); 'text' up to the closing quote   *)
(* ("missing closing quote"); ${name} up to the closing brace ("missing   *)
(* closing curly-brace") and $name, replaced by their values; and a word  *)
(* up to a blank or one of the delimiters the default case lists.  A      *)
(* character that starts none of these ends the expression ("foobar").    *)
(***************************************************************************)
Delims == {" ", "\t", ")", "(", "'", "=", "!", "<", ">", "&", "|"}
Spellings == {<<"=">>, <<"!", "=">>, <<"!">>, <<"<">>, <<"<", "=">>, <<">">>,
              <<">", "=">>, <<"&", "&">>, <<"|", "|">>, <<"(">>, <<")">>}
OpId(w) == IF Len(w) = 2 THEN Op2[w[1]] ELSE Op1[w[1]]

RECURSIVE RefLex(_, _)
RefLex(s, o) ==
  LET c == Char(s, o)
      rest == SubSeq(s, o + 1, Len(s))
      ops == {w \in Spellings : IsPrefix(w, rest)}
      Then(t, n) == LET r == RefLex(s, n) IN [toks |-> <<t>> \o r.toks, err |-> r.err]
      Err == [toks |-> <<>>, err |-> TRUE]
      q == Scan(s, o, 1, {NUL, "'"})
      b == Scan(s, o, 2, {NUL, "}"})
      n == NameEnd(s, o, 1)
      w == Scan(s, o, 0, NotGraph \cup Delims)
  IN
  CASE c = NUL -> [toks |-> <<>>, err |-> FALSE]
    [] c \in {" ", "\t"} -> RefLex(s, o + 1)
    [] ~isgraph(c) -> [toks |-> <<>>, err |-> FALSE]
    [] ops # {} ->
         LET op == CHOOSE x \in ops : \A y \in ops : Len(y) <= Len(x) IN
         Then([id |-> OpId(op), text |-> <<>>], o + Len(op))
    [] c \in {"&", "|"} -> Err
    [] c = "'" /\ Char(s, o + q) = NUL -> Err
    [] c = "'" -> Then([id |-> "VALUE", text |-> SubSeq(s, o + 2, o + q)], o + q + 1)
    [] c = "$" /\ Char(s, o + 1) = "{" /\ Char(s, o + b) = NUL -> Err
    [] c = "$" /\ Char(s, o + 1) = "{" ->
         Then([id |-> "VALUE", text |-> Lookup(SubSeq(s, o + 3, o + b))], o + b + 1)
    [] c = "$" -> Then([id |-> "VALUE", text |-> Lookup(SubSeq(s, o + 2, o + n))], o + n)
    [] OTHER -> Then([id |-> "VALUE", text |-> SubSeq(s, o + 1, o + w)], o + w)

Ref == RefLex(input, 0)

(***************************************************************************)
(* Properties.                                                             *)
(***************************************************************************)
(* ssi_eval_expr hands the parser the tokens of the expression's lexical  *)
(* syntax, in order, without reading past the expression; when the parser *)
(* accepted them all, they are all of them and ssi_eval_expr fails        *)
(* exactly when the syntax has an error.  The ${name} case, the default   *)
(* case's delimiter switch and a character no case handles are where the  *)
(* tokenizer can go wrong.                                                 *)
TokensMatchReference ==
  /\ pc # "crashed"
  /\ IsPrefix(tokens, Ref.toks)
  /\ pc = "done" /\ ok => tokens = Ref.toks /\ (ret = -1) = Ref.err
====
