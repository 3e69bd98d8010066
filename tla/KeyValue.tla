------------------------------- MODULE KeyValue -------------------------------
(***************************************************************************)
(* Rewrite rules of mod_rewrite and mod_redirect (src/lighttpd-1.4.61/src/ *)
(* keyvalue.c): pcre_keyvalue_buffer_append builds the rule list, and      *)
(* pcre_keyvalue_buffer_process runs the rules in order on a request URI  *)
(* and expands the replacement of the first that matches with             *)
(* pcre_keyvalue_buffer_subst and pcre_keyvalue_buffer_subst_ext.         *)
(*                                                                         *)
(* A replacement pattern is a sequence of symbols.  Most are one          *)
(* character: $ % { } : ? and the digits.  A modifier word is one symbol:  *)
(* "esc:", "tolower:", "toupper:" (the strncmp matches), "to" (a "to" not  *)
(* followed by lower: or upper:), "url.path" and "qsa".  The output is a  *)
(* sequence of items: a literal symbol, a capture ($n: a pcre group, %n: *)
(* a group of the enclosing condition), the url path or the query string, *)
(* each with the burl flags it is appended with (burl_append, in burl.c, *)
(* not in the repository, does the encoding the flags ask for).  The      *)
(* regex match of each rule is an outcome chosen when the rule is added. *)
(***************************************************************************)
EXTENDS Integers, Sequences, SequencesExt, TLC
LOCAL INSTANCE Bitwise

CONSTANTS
  Symbols,     \* the alphabet of replacement patterns
  MaxLen,      \* bound: length of a replacement pattern
  MaxRules,    \* bound: rules in the buffer
  NGroups,     \* n: the value pcre_exec returned (groups + 1)
  CondCount,   \* ctx->cond_match_count of the enclosing condition
  Bytes,       \* the byte values of the strings given to the normalisation
  MaxBytes     \* bound: length of those strings

VARIABLES
  kv,        \* kvb->kv[0 .. used-1]: [key, res, blank] of each rule
  allocated, \* the number of kv entries allocated
  phase,     \* "config", "process", "done", "failed"
  i,         \* the rule pcre_keyvalue_buffer_process is at
  m,         \* ctx->m
  handler,   \* what pcre_keyvalue_buffer_process returns
  pattern,   \* the replacement of the rule that matched
  qs,        \* ctx->burl->query: "unset", "blank" or "set"
  out        \* the result buffer b

vars == <<kv, allocated, phase, i, m, handler, pattern, qs, out>>

NUL == "NUL"
Digits == {"0", "1", "2"}
DigitVal == ("0" :> 0) @@ ("1" :> 1) @@ ("2" :> 2)

(* pattern[j], the NUL after the last character included. *)
At(s, j) == IF j < Len(s) THEN s[j + 1] ELSE NUL

(* strchr(pattern + j, c): the index of the first c at or after j, or -1. *)
FindFrom(s, j, c) == LET J == {x \in j .. Len(s) - 1 : s[x + 1] = c} IN
                     IF J = {} THEN -1 ELSE CHOOSE x \in J : \A y \in J : x <= y

Lit(c) == [kind |-> "lit", val |-> c, flags |-> {}]
Part(kind, val, flags) == [kind |-> kind, val |-> val, flags |-> flags]

(* pcre_keyvalue_buffer_append_match and _append_ctxmatch (lines        *)
(* 107-121): only a group that exists is appended.                       *)
AppendCapture(b, sig, num, flags) ==
  IF num < (IF sig = "$" THEN NGroups ELSE CondCount)
  THEN Append(b, Part(sig, num, flags)) ELSE b

(* The qsa case (lines 221-235): '&' or '?' before the query string,     *)
(* depending on whether the result so far has a '?'.                     *)
AppendQsa(b, flags) ==
  IF qs = "unset" THEN b
  ELSE LET sep == IF \E x \in DOMAIN b : b[x] = Lit("?")
                  THEN (IF qs = "blank" THEN <<>> ELSE <<Lit("&")>>)
                  ELSE <<Lit("?")>>
       IN b \o sep \o (IF qs = "blank" THEN <<>> ELSE <<Part("qsa", "query", flags)>>)

(* The flag each recognised modifier sets (lines 129-184, 236-245). *)
ModFlag == ("esc:" :> "ENCODE_ALL") @@ ("noesc:" :> "ENCODE_NONE")
             @@ ("tolower:" :> "TOLOWER") @@ ("toupper:" :> "TOLOWER")
             @@ ("encb64u:" :> "ENCODE_B64U") @@ ("decb64u:" :> "DECODE_B64U")

(* The while loop of pcre_keyvalue_buffer_subst_ext (lines 126-247) from *)
(* p: the modifiers up to a digit, '}' or the end; url.* and qsa append   *)
(* and leave the loop on their '}'.                                        *)
RECURSIVE ExtMods(_, _, _, _)
ExtMods(s, p, flags, b) ==
  LET c == At(s, p)
      Stop(q, f, bb) == [p |-> q, flags |-> f, b |-> bb, err |-> q = -1]
  IN
  CASE c \in Digits \cup {"}", NUL} -> Stop(p, flags, b)
    [] c \in DOMAIN ModFlag -> ExtMods(s, p + 1, flags \cup {ModFlag[c]}, b)
    [] c = "to" ->
         LET q == FindFrom(s, p + 1, ":") IN
         IF q = -1 THEN Stop(-1, flags, b) ELSE ExtMods(s, q + 1, flags, b)
    [] c = "url.path" /\ At(s, p + 1) = "}" -> Stop(p + 1, flags, Append(b, Part("url", "path", flags)))
    [] c = "url.path" -> Stop(FindFrom(s, p + 1, "}"), flags, b)
    [] c = "qsa" /\ At(s, p + 1) = "}" -> Stop(p + 1, flags, AppendQsa(b, flags))
    [] OTHER -> ExtMods(s, p + 1, flags, b)

(* Mutant operator: subst_ext returning the count without the closing  *)
(* brace, so the caller resumes on the '}'.                               *)
subst_ext_short(s, at, b) ==
  LET r == ExtMods(s, at + 2, {}, b)
      d1 == At(s, r.p)
      two == At(s, r.p + 1) \in Digits
      q == IF two THEN r.p + 2 ELSE r.p + 1
      close == IF At(s, q) = "}" THEN q ELSE FindFrom(s, q, "}")
      num == IF two THEN DigitVal[d1] * 10 + DigitVal[At(s, r.p + 1)] ELSE DigitVal[d1]
      flags == IF r.flags = {} THEN {"ENCODE_PSNDE"} ELSE r.flags
  IN CASE r.err \/ d1 = NUL -> [num |-> -1, b |-> r.b]
       [] d1 = "}" -> [num |-> r.p - at - 2, b |-> r.b]
       [] close = -1 -> [num |-> -1, b |-> r.b]
       [] OTHER -> [num |-> close - at - 2, b |-> AppendCapture(r.b, s[at + 1], num, flags)]

(* pcre_keyvalue_buffer_subst_ext (lines 123-263) for the ${ or %{ at  *)
(* index at: the result buffer, and the count it returns (-1: error).   *)
pcre_keyvalue_buffer_subst_ext(s, at, b) ==
  LET r == ExtMods(s, at + 2, {}, b)
      d1 == At(s, r.p)
      two == At(s, r.p + 1) \in Digits
      num == IF two THEN DigitVal[d1] * 10 + DigitVal[At(s, r.p + 1)] ELSE DigitVal[d1]
      q == IF two THEN r.p + 2 ELSE r.p + 1
      close == IF At(s, q) = "}" THEN q ELSE FindFrom(s, q, "}")
      flags == IF r.flags = {} THEN {"ENCODE_PSNDE"} ELSE r.flags
  IN CASE r.err \/ d1 = NUL -> [num |-> -1, b |-> r.b]
       [] d1 = "}" -> [num |-> r.p + 1 - at - 2, b |-> r.b]
       [] close = -1 -> [num |-> -1, b |-> r.b]
       [] OTHER -> [num |-> close + 1 - at - 2, b |-> AppendCapture(r.b, s[at + 1], num, flags)]

(* pattern[start .. j-1] appended as literals. *)
Literal(s, from, to) == [x \in 1 .. to - from |-> Lit(s[from + x])]

Patterns == UNION {[1 .. n -> Symbols] : n \in 1 .. MaxLen}

(***************************************************************************)
(* pcre_keyvalue_buffer_subst (lines 265-299): its for loop from k, the  *)
(* literal text since start pending.  At a $ or % the literal text before *)
(* it is appended, then ${..}/%{..}, $n/%n or the escape; an error of     *)
(* subst_ext truncates the result.  After the loop the rest of the        *)
(* pattern is appended.                                                    *)
(***************************************************************************)
RECURSIVE SubstLoop(_, _, _, _)
SubstLoop(s, k, start, b) ==
  IF k + 1 >= Len(s) THEN b \o Literal(s, start, Len(s))
  ELSE IF s[k + 1] \notin {"$", "%"} THEN SubstLoop(s, k + 1, start, b)
  ELSE
    LET c == s[k + 1]
        next == s[k + 2]
        lit == b \o Literal(s, start, k)
        ext == pcre_keyvalue_buffer_subst_ext(s, k, lit)
        kk == IF next = "{" THEN k + ext.num ELSE k
    IN CASE next = "{" /\ ext.num < 0 -> ext.b
         [] next = "{" -> SubstLoop(s, kk + 2, kk + 2, ext.b)
         [] next \in Digits -> SubstLoop(s, k + 2, k + 2, AppendCapture(lit, c, DigitVal[next], {}))
         [] OTHER -> SubstLoop(s, k + 2, k + 2, lit \o (IF next = c THEN <<Lit(c)>> ELSE <<Lit(c), Lit(next)>>))

pcre_keyvalue_buffer_subst(s) == SubstLoop(s, 0, 0, <<>>)

(* Mutant operator: the realloc test one entry late. *)
append_late(res, blank, compiled) ==
  /\ phase = "config"
  /\ Len(kv) < MaxRules
  /\ allocated' = IF Len(kv) % 4 = 1 THEN Len(kv) + 4 ELSE allocated
  /\ kv' = Append(kv, [key |-> IF compiled THEN "pcre" ELSE "null", res |-> res, blank |-> blank])
  /\ phase' = IF compiled THEN "config" ELSE "failed"
  /\ UNCHANGED <<i, m, handler, pattern, qs, out>>

(***************************************************************************)
(* pcre_keyvalue_burl_normalize_key and _value (lines 343-458), given to  *)
(* the rules' regexes and replacements by their callers.  A string is a   *)
(* sequence of byte values; a read at its length sees the NUL.            *)
(***************************************************************************)
Byte(s, j) == IF j < Len(s) THEN s[j + 1] ELSE 0

(* li_cton(c, n): c is a hex digit, by unsigned int arithmetic; the      *)
(* width is scaled down: for a byte only the wrap below zero matters.     *)
UINT == 2^16
li_cton(c) == (c - 48) % UINT <= 9 \/ ((c & 223) - 65) % UINT <= 5

UpperHex(c) == IF c >= 97 THEN c & 223 ELSE c

(* The loop of pcre_keyvalue_burl_percent_toupper (np = 1) and of         *)
(* _percent_percent_toupper (np = 2): np '%' and two hex digits, which    *)
(* are uppercased and skipped.                                             *)
RECURSIVE PercentToupper(_, _, _)
PercentToupper(s, j, np) ==
  IF j >= Len(s) THEN s
  ELSE IF /\ \A x \in 0 .. np - 1 : Byte(s, j + x) = 37
          /\ li_cton(Byte(s, j + np)) /\ li_cton(Byte(s, j + np + 1))
       THEN PercentToupper([s EXCEPT ![j + np + 1] = UpperHex(@), ![j + np + 2] = UpperHex(@)],
                           j + np + 2, np)
       ELSE PercentToupper(s, j + 1, np)

pcre_keyvalue_burl_percent_toupper(s) == PercentToupper(s, 0, 1)
pcre_keyvalue_burl_percent_percent_toupper(s) == PercentToupper(s, 0, 2)

hex_chars_uc == [d \in 0 .. 15 |-> IF d < 10 THEN 48 + d ELSE 55 + d]

(* pcre_keyvalue_burl_percent_high_UTF8 (np = 1) and _percent_percent_   *)
(* high_UTF8 (np = 2): each byte above 0x7F becomes np '%' and its two    *)
(* uppercase hex digits; with none the string is left as it is.           *)
PercentHighUTF8(s, np) ==
  IF \A x \in DOMAIN s : s[x] <= 127 THEN s
  ELSE FlattenSeq([x \in DOMAIN s |->
         IF s[x] <= 127 THEN <<s[x]>>
         ELSE [y \in 1 .. np |-> 37] \o <<hex_chars_uc[(s[x] \div 16) % 16], hex_chars_uc[s[x] % 16]>>])

pcre_keyvalue_burl_normalize_key(s) == PercentHighUTF8(pcre_keyvalue_burl_percent_toupper(s), 1)
(* Mutant operator: the value passes through the single-'%' uppercasing. *)
normalize_value_onepct(s) == PercentHighUTF8(pcre_keyvalue_burl_percent_toupper(s), 2)
pcre_keyvalue_burl_normalize_value(s) == PercentHighUTF8(pcre_keyvalue_burl_percent_percent_toupper(s), 2)

(***************************************************************************)
(* pcre_keyvalue_buffer_append (lines 43-90): the array grows by four     *)
(* entries when used is a multiple of four; the entry is counted before   *)
(* its regex is compiled and studied, and a failure (return 0) ends the   *)
(* configuration.                                                          *)
(***************************************************************************)
pcre_keyvalue_buffer_append(res, blank, compiled) ==
  /\ phase = "config"
  /\ Len(kv) < MaxRules
  /\ allocated' = IF Len(kv) % 4 = 0 THEN Len(kv) + 4 ELSE allocated
  /\ kv' = Append(kv, [key |-> IF compiled THEN "pcre" ELSE "null", res |-> res, blank |-> blank])
  /\ phase' = IF compiled THEN "config" ELSE "failed"
  /\ UNCHANGED <<i, m, handler, pattern, qs, out>>

(***************************************************************************)
(* pcre_keyvalue_buffer_process (lines 301-331).                           *)
(***************************************************************************)
(* The request comes with its query string (ctx->burl->query). *)
StartProcess ==
  /\ phase = "config"
  /\ phase' = "process" /\ i' = 0
  /\ qs' \in {"unset", "blank", "set"}
  /\ UNCHANGED <<kv, allocated, m, handler, pattern, out>>

(* One rule: pcre_exec fails, does not match, or matches; a match with a *)
(* blank replacement stops the walk; a match with a replacement goes to  *)
(* pcre_keyvalue_buffer_subst, which starts with buffer_clear; the        *)
(* request is then finished whatever the substitution did.                *)
ProcessRule ==
  /\ phase = "process"
  /\ i < Len(kv)
  /\ LET r == kv[i + 1] IN
     CASE r.res = "error" ->
            phase' = "done" /\ handler' = "ERROR" /\ UNCHANGED <<i, m, pattern, qs, out>>
       [] r.res = "nomatch" ->
            i' = i + 1 /\ UNCHANGED <<phase, m, handler, pattern, qs, out>>
       [] r.blank ->
            phase' = "done" /\ handler' = "GO_ON" /\ m' = i /\ UNCHANGED <<i, pattern, qs, out>>
       [] OTHER ->
            /\ m' = i
            /\ pattern' \in Patterns
            /\ out' = pcre_keyvalue_buffer_subst(pattern')
            /\ phase' = "done" /\ handler' = "FINISHED"
            /\ UNCHANGED <<i, qs>>
  /\ UNCHANGED <<kv, allocated>>

ProcessEnd ==
  /\ phase = "process"
  /\ i = Len(kv)
  /\ phase' = "done" /\ handler' = "GO_ON"
  /\ UNCHANGED <<kv, allocated, i, m, pattern, qs, out>>

Done == phase \in {"done", "failed"} /\ UNCHANGED vars

Init ==
  /\ kv = <<>> /\ allocated = 0 /\ phase = "config"
  /\ i = 0 /\ m = -1 /\ handler = "none"
  /\ pattern = <<>> /\ qs = "unset" /\ out = <<>>

Next ==
  \/ \E res \in {"nomatch", "match", "error"}, blank, compiled \in BOOLEAN :
       pcre_keyvalue_buffer_append(res, blank, compiled)
  \/ StartProcess \/ ProcessRule \/ ProcessEnd
  \/ Done

Spec == Init /\ [][Next]_vars

(***************************************************************************)
(* The substitution the mod_rewrite documentation describes, read left to *)
(* right: $n and %n are the capture n (of the regex, of the enclosing     *)
(* condition), "$$" and "%%" a single $ or %, and $ or % before anything  *)
(* else is kept; ${...} and %{...} hold modifiers (esc:, tolower:,        *)
(* toupper: ...; an unknown one is skipped up to its ':'), then a number  *)
(* of one or two digits, url.path or qsa, up to the '}'.  A braced capture *)
(* with no modifier is encoded as a path segment, a bare $n or %n is    *)
(* appended as it is.  A brace that is never                            *)
(* closed ends the result.                                                *)
(***************************************************************************)
DocFlag == ("esc:" :> "ENCODE_ALL") @@ ("noesc:" :> "ENCODE_NONE")
             @@ ("tolower:" :> "TOLOWER") @@ ("toupper:" :> "TOUPPER")
             @@ ("encb64u:" :> "ENCODE_B64U") @@ ("decb64u:" :> "DECODE_B64U")

(* The suffix of t after its first c, or <<"NUL">> when t has none. *)
After(t, c) == IF \E x \in DOMAIN t : t[x] = c
               THEN LET x == CHOOSE x \in DOMAIN t : t[x] = c /\ \A y \in 1 .. x - 1 : t[y] # c
                    IN SubSeq(t, x + 1, Len(t))
               ELSE <<NUL>>

RECURSIVE Expand(_, _), Braced(_, _, _, _)
Expand(t, b) ==
  CASE t = <<>> \/ t = <<NUL>> -> b
    [] t[1] \in {"$", "%"} /\ Len(t) >= 2 ->
         LET c == t[1]  d == t[2]  rest == SubSeq(t, 3, Len(t)) IN
         CASE d = "{" -> Braced(c, rest, {}, b)
           [] d \in Digits -> Expand(rest, AppendCapture(b, c, DigitVal[d], {}))
           [] d = c -> Expand(rest, Append(b, Lit(c)))
           [] OTHER -> Expand(rest, b \o <<Lit(c), Lit(d)>>)
    [] OTHER -> Expand(Tail(t), Append(b, Lit(t[1])))

Braced(c, t, flags, b) ==
  LET h == IF t = <<>> THEN NUL ELSE t[1]
      h2 == IF Len(t) >= 2 THEN t[2] ELSE NUL
  IN
  CASE h = NUL -> b
    [] h = "}" -> Expand(Tail(t), b)
    [] h \in Digits ->
         LET num == IF h2 \in Digits THEN DigitVal[h] * 10 + DigitVal[h2] ELSE DigitVal[h]
             rest == IF h2 \in Digits THEN SubSeq(t, 3, Len(t)) ELSE Tail(t)
             f == IF flags = {} THEN {"ENCODE_PSNDE"} ELSE flags
         IN IF After(rest, "}") = <<NUL>> THEN b
            ELSE Expand(After(rest, "}"), AppendCapture(b, c, num, f))
    [] h \in DOMAIN DocFlag -> Braced(c, Tail(t), flags \cup {DocFlag[h]}, b)
    [] h = "to" -> Braced(c, After(Tail(t), ":"), flags, b)
    [] h = "url.path" /\ h2 = "}" -> Expand(SubSeq(t, 3, Len(t)), Append(b, Part("url", "path", flags)))
    [] h = "url.path" -> Expand(After(Tail(t), "}"), b)
    [] h = "qsa" /\ h2 = "}" -> Expand(SubSeq(t, 3, Len(t)), AppendQsa(b, flags))
    [] OTHER -> Braced(c, Tail(t), flags, b)

(***************************************************************************)
(* The normalisation the comment before pcre_keyvalue_burl_normalize_key *)
(* describes, read left to right: %XX with two hex digits gets uppercase  *)
(* hex (%%XX in a replacement, where %n is a backreference), a byte above *)
(* 0x7F is percent-encoded in uppercase hex, and everything else,         *)
(* improper %-sequences included, is kept.                                *)
(***************************************************************************)
IsHexDigit(c) == c \in (48 .. 57) \cup (65 .. 70) \cup (97 .. 102)
Upper(c) == IF c \in 97 .. 102 THEN c - 32 ELSE c
HexOf(d) == IF d < 10 THEN 48 + d ELSE 65 + (d - 10)

RECURSIVE Normalized(_, _)
Normalized(t, pct) ==
  LET n == Len(pct) IN
  CASE t = <<>> -> <<>>
    [] Len(t) >= n + 2 /\ SubSeq(t, 1, n) = pct /\ IsHexDigit(t[n + 1]) /\ IsHexDigit(t[n + 2]) ->
         pct \o <<Upper(t[n + 1]), Upper(t[n + 2])>> \o Normalized(SubSeq(t, n + 3, Len(t)), pct)
    [] t[1] > 127 -> pct \o <<HexOf(t[1] \div 16), HexOf(t[1] % 16)>> \o Normalized(Tail(t), pct)
    [] OTHER -> <<t[1]>> \o Normalized(Tail(t), pct)

ByteStrings == UNION {[1 .. n -> Bytes] : n \in 0 .. MaxBytes}

(***************************************************************************)
(* Properties.                                                             *)
(***************************************************************************)
(* The rule array never holds more entries than were allocated: the      *)
(* realloc of pcre_keyvalue_buffer_append grows it exactly when used is a *)
(* multiple of four.                                                      *)
TypeOK ==
  /\ Len(kv) <= allocated /\ allocated % 4 = 0
  /\ phase \in {"config", "process", "done", "failed"}
  /\ i <= Len(kv)

(* pcre_keyvalue_buffer_process decides by the first rule whose pcre_exec *)
(* does not report NOMATCH: an error fails the request, a blank           *)
(* replacement goes on, and any other is the result, set in ctx->m; the   *)
(* result is the documented substitution of its replacement, the         *)
(* captures and modifiers inside ${..}/%{..} included.  The index         *)
(* arithmetic of pcre_keyvalue_buffer_subst (k += num; k++; start = k+1) *)
(* and the count subst_ext returns must agree for every pattern.          *)
RewriteAsDocumented ==
  phase = "done" =>
    LET hit == {x \in DOMAIN kv : kv[x].res # "nomatch"}
        first == CHOOSE x \in hit : \A y \in hit : x <= y
    IN IF hit = {} THEN handler = "GO_ON"
       ELSE CASE kv[first].res = "error" -> handler = "ERROR"
              [] kv[first].blank -> handler = "GO_ON" /\ m = first - 1
              [] OTHER -> /\ handler = "FINISHED" /\ m = first - 1
                          /\ out = Expand(pattern, <<>>)
(* pcre_keyvalue_burl_normalize_key and _value give every string the     *)
(* documented normal form: the two passes over the buffer (the in-place   *)
(* uppercasing loop with its skip, then the re-encoding into t) together  *)
(* do what one left-to-right reading prescribes.  The formula has no     *)
(* variable, so it is checked once, in the initial state.                 *)
NormalizeAsDocumented ==
  phase = "config" /\ kv = <<>> =>
  \A s \in ByteStrings :
    /\ pcre_keyvalue_burl_normalize_key(s) = Normalized(s, <<37>>)
    /\ pcre_keyvalue_burl_normalize_value(s) = Normalized(s, <<37, 37>>)
====
