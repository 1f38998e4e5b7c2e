------------------------------ MODULE LuaStrLib ------------------------------
(* The string library (lstrlib.c): substrings and pattern matching.  Strings  *)
(* are indexed from 1 and a position past the end reads as "", the '\0' that  *)
(* ends a C string.  The functions that Lua programs call are in LuaDo.       *)
EXTENDS LuaObject, SequencesExt, FiniteSetsExt

CONSTANT LUA_MAXCAPTURES

At(s, i) == IF i \in 1..Len(s) THEN SubSeq(s, i, i) ELSE ""

(* Characters: ASCII from the blank on, and '\0'.  Programs use no backquote.  *)
Printable ==
    " !\"#$%&'()*+,-./0123456789:;<=>?@ABCDEFGHIJKLMNOPQRSTUVWXYZ[\\]^_" \o "\t"
    \o "abcdefghijklmnopqrstuvwxyz{|}~"
uchar(c) == IF c = "" THEN 0 ELSE 31 + (CHOOSE i \in 1..Len(Printable) : At(Printable, i) = c)
Char(n) == IF n = 0 THEN "" ELSE At(Printable, n - 31)
tolower(c) == IF uchar(c) \in 65..90 THEN Char(uchar(c) + 32) ELSE c
toupper(c) == IF uchar(c) \in 97..122 THEN Char(uchar(c) - 32) ELSE c
str_lower(s) == FoldLeft(LAMBDA r, i : r \o tolower(At(s, i)), "", [i \in 1..Len(s) |-> i])
str_upper(s) == FoldLeft(LAMBDA r, i : r \o toupper(At(s, i)), "", [i \in 1..Len(s) |-> i])

(* A negative position counts from the end.                                   *)
posrelat(pos, len) ==
    LET at == IF pos < 0 THEN pos + len + 1 ELSE pos IN IF at >= 0 THEN at ELSE 0
str_sub(s, i, j) ==
    LET start == Max({posrelat(i, Len(s)), 1})
        end == Min({posrelat(j, Len(s)), Len(s)})
    IN IF start <= end THEN SubSeq(s, start, end) ELSE ""
str_reverse(s) == FoldLeft(LAMBDA r, i : At(s, i) \o r, "", [i \in 1..Len(s) |-> i])
str_rep(s, n) == FoldLeft(LAMBDA r, i : r \o s, "", [i \in 1..n |-> i])
str_byte(s, i, j) ==
    LET from == Max({posrelat(i, Len(s)), 1})
        to == Min({posrelat(j, Len(s)), Len(s)})
    IN [k \in 1..(to - from + 1) |-> Num(uchar(At(s, from + k - 1)))]

-----------------------------------------------------------------------------
(* Single characters of a pattern.                                            *)

Digit == 48..57
Lower == 97..122
Upper == 65..90
Class == [a |-> Lower \cup Upper, c |-> 0..31 \cup {127}, d |-> Digit, l |-> Lower, s |-> {32},
          p |-> 33..126 \ (Lower \cup Upper \cup Digit), u |-> Upper,
          w |-> Lower \cup Upper \cup Digit, x |-> Digit \cup 97..102 \cup 65..70, z |-> {0}]
match_class(c, cl) ==
    IF tolower(cl) \notin DOMAIN Class THEN cl = c
    ELSE (uchar(c) \in Class[tolower(cl)]) = (uchar(cl) \in Lower)

(* The position after the single character class at p, 0 if it is malformed.  *)
RECURSIVE BracketEnd(_, _)
BracketEnd(pat, p) ==
    LET q == IF At(pat, p) = "%" /\ At(pat, p + 1) # "" THEN p + 2 ELSE p + 1 IN
    IF At(pat, p) = "" THEN 0 ELSE IF At(pat, q) = "]" THEN q + 1 ELSE BracketEnd(pat, q)
classend(pat, p) ==
    CASE At(pat, p) = "%" -> IF At(pat, p + 1) = "" THEN 0 ELSE p + 2
      [] At(pat, p) = "[" -> BracketEnd(pat, IF At(pat, p + 1) = "^" THEN p + 2 ELSE p + 1)
      [] OTHER -> p + 1

RECURSIVE InBracket(_, _, _, _)
InBracket(c, pat, p, ec) ==
    /\ p < ec
    /\ IF At(pat, p) = "%" THEN match_class(c, At(pat, p + 1)) \/ InBracket(c, pat, p + 2, ec)
       ELSE IF At(pat, p + 1) = "-" /\ p + 2 < ec
       THEN \/ uchar(c) \in uchar(At(pat, p))..uchar(At(pat, p + 2))
            \/ InBracket(c, pat, p + 3, ec)
       ELSE At(pat, p) = c \/ InBracket(c, pat, p + 1, ec)
matchbracketclass(c, pat, p, ec) ==
    IF At(pat, p + 1) = "^" THEN ~InBracket(c, pat, p + 2, ec) ELSE InBracket(c, pat, p + 1, ec)

singlematch(c, pat, p, ep) ==
    CASE At(pat, p) = "." -> TRUE
      [] At(pat, p) = "%" -> match_class(c, At(pat, p + 1))
      [] At(pat, p) = "[" -> matchbracketclass(c, pat, p, ep - 1)
      [] OTHER -> At(pat, p) = c

-----------------------------------------------------------------------------
(* The matcher.  A MatchState ms has the string src, the pattern pat and the  *)
(* captures opened so far, [init, len].  A match returns the state it leaves  *)
(* with e, the position after the match, 0 for NULL; err: luaL_error.         *)

CAP_UNFINISHED == -1
CAP_POSITION == -2
MatchState(src, pat) == [src |-> src, pat |-> pat, cap |-> <<>>, e |-> 0, err |-> FALSE]
To(ms, e) == [ms EXCEPT !.e = e]
Error(ms) == [ms EXCEPT !.e = 0, !.err = TRUE]
Failed(ms) == ms.e = 0 /\ ~ms.err

RECURSIVE Balance(_, _, _, _, _)
Balance(src, s, b, e, cont) ==
    IF s > Len(src) THEN 0
    ELSE IF At(src, s) = e
    THEN IF cont = 1 THEN s + 1 ELSE Balance(src, s + 1, b, e, cont - 1)
    ELSE Balance(src, s + 1, b, e, IF At(src, s) = b THEN cont + 1 ELSE cont)
matchbalance(ms, s, p) ==
    LET b == At(ms.pat, p)
        e == At(ms.pat, p + 1)
    IN IF b = "" \/ e = "" THEN Error(ms)
       ELSE To(ms, IF At(ms.src, s) = b THEN Balance(ms.src, s + 1, b, e, 1) ELSE 0)

match_capture(ms, s, l) ==
    LET c == ms.cap[l]
        text == SubSeq(ms.src, c.init, c.init + c.len - 1)
    IN IF l \notin DOMAIN ms.cap \/ c.len = CAP_UNFINISHED THEN Error(ms)
       ELSE To(ms, IF c.len # CAP_POSITION /\ c.len <= Len(ms.src) - s + 1
                      /\ SubSeq(ms.src, s, s + c.len - 1) = text
                   THEN s + c.len ELSE 0)

RECURSIVE match(_, _, _)
Then(ms, p) == IF ms.e = 0 THEN ms ELSE match(ms, ms.e, p)

RECURSIVE Fewer(_, _, _, _)
Fewer(ms, s, i, ep) ==
    LET r == match(ms, s + i, ep + 1) IN
    IF Failed(r) /\ i > 0 THEN Fewer(r, s, i - 1, ep) ELSE r
max_expand(ms, s, p, ep) ==
    LET runs == {i \in 0..(Len(ms.src) - s + 1) :
                    \A k \in 0..(i - 1) : singlematch(At(ms.src, s + k), ms.pat, p, ep)}
    IN Fewer(ms, s, Max(runs), ep)

RECURSIVE min_expand(_, _, _, _)
min_expand(ms, s, p, ep) ==
    LET r == match(ms, s, ep + 1) IN
    IF Failed(r) /\ s <= Len(ms.src) /\ singlematch(At(ms.src, s), ms.pat, p, ep)
    THEN min_expand(r, s + 1, p, ep) ELSE r

(* A capture that does not lead to a match is undone.                         *)
start_capture(ms, s, p, what) ==
    LET r == match([ms EXCEPT !.cap = Append(@, [init |-> s, len |-> what])], s, p) IN
    IF Len(ms.cap) >= LUA_MAXCAPTURES THEN Error(ms)
    ELSE IF Failed(r) THEN [r EXCEPT !.cap = Front(@)] ELSE r
end_capture(ms, s, p) ==
    LET open == {i \in DOMAIN ms.cap : ms.cap[i].len = CAP_UNFINISHED}
        l == Max(open)
        r == match([ms EXCEPT !.cap[l].len = s - ms.cap[l].init], s, p)
    IN IF open = {} THEN Error(ms)
       ELSE IF Failed(r) THEN [r EXCEPT !.cap[l].len = CAP_UNFINISHED] ELSE r

Frontier(ms, s, p) ==
    LET ep == classend(ms.pat, p)
        In(i) == matchbracketclass(At(ms.src, i), ms.pat, p, ep - 1)
    IN IF At(ms.pat, p) # "[" \/ ep = 0 THEN Error(ms)
       ELSE IF In(s - 1) \/ ~In(s) THEN To(ms, 0) ELSE match(ms, s, ep)

(* A character class and the suffix after it.                                 *)
Item(ms, s, p) ==
    LET ep == classend(ms.pat, p)
        suffix == At(ms.pat, ep)
        m == s <= Len(ms.src) /\ singlematch(At(ms.src, s), ms.pat, p, ep)
        once == match(ms, s + 1, ep + 1)
    IN IF ep = 0 THEN Error(ms)
       ELSE CASE suffix = "?" -> IF m /\ ~Failed(once) THEN once
                               ELSE match(IF m THEN once ELSE ms, s, ep + 1)
              [] suffix = "*" -> max_expand(ms, s, p, ep)
              [] suffix = "+" -> IF m THEN max_expand(ms, s + 1, p, ep) ELSE To(ms, 0)
              [] suffix = "-" -> min_expand(ms, s, p, ep)
              [] OTHER -> IF m THEN match(ms, s + 1, ep) ELSE To(ms, 0)

match(ms, s, p) ==
    LET c == At(ms.pat, p)
        d == At(ms.pat, p + 1)
    IN CASE c = "(" -> IF d = ")" THEN start_capture(ms, s, p + 2, CAP_POSITION)
                       ELSE start_capture(ms, s, p + 1, CAP_UNFINISHED)
         [] c = ")" -> end_capture(ms, s, p + 1)
         [] c = "%" -> CASE d = "b" -> Then(matchbalance(ms, s, p + 2), p + 4)
                         [] d = "f" -> Frontier(ms, s, p + 2)
                         [] uchar(d) \in Digit -> Then(match_capture(ms, s, uchar(d) - 48), p + 2)
                         [] OTHER -> Item(ms, s, p)
         [] c = "" -> To(ms, s)
         [] c = "$" -> IF d # "" THEN Item(ms, s, p)
                       ELSE To(ms, IF s = Len(ms.src) + 1 THEN s ELSE 0)
         [] OTHER -> Item(ms, s, p)

-----------------------------------------------------------------------------
(* What the functions do with a match; <<"error">> is a value nobody can push.*)

push_onecapture(ms, i, s) ==
    IF i > Len(ms.cap)
    THEN IF i = 1 THEN Str(SubSeq(ms.src, s, ms.e - 1)) ELSE <<"error">>
    ELSE LET c == ms.cap[i] IN
         CASE c.len = CAP_UNFINISHED -> <<"error">>
           [] c.len = CAP_POSITION -> Num(c.init)
           [] OTHER -> Str(SubSeq(ms.src, c.init, c.init + c.len - 1))
push_captures(ms, s, whole) ==
    LET n == IF ms.cap = <<>> /\ whole THEN 1 ELSE Len(ms.cap) IN
    IF n = 0 THEN <<>> ELSE SubSeq([i \in 1..n |-> push_onecapture(ms, i, s)], 1, n)
Bad(vs) == <<"error">> \in ToSet(vs)

(* The first match at s or later; with an anchor only at s.                   *)
RECURSIVE Search(_, _, _, _, _)
Search(src, pat, s, p, anchor) ==
    LET r == match(MatchState(src, pat), s, p) IN
    IF Failed(r) /\ s <= Len(src) /\ ~anchor THEN Search(src, pat, s + 1, p, anchor)
    ELSE [ms |-> r, s |-> s]

lmemfind(s, init, p) ==
    LET found == {i \in init..(Len(s) - Len(p) + 1) : SubSeq(s, i, i + Len(p) - 1) = p} IN
    IF found = {} THEN 0 ELSE Min(found)

SPECIALS == {"^", "$", "*", "+", "?", ".", "(", "[", "%", "-"}
Anchored(p) == At(p, 1) = "^"
(* find and match: the values they return.                                    *)
str_find_aux(s, p, init, plain, find) ==
    LET at == Min({Max({posrelat(init, Len(s)), 1}), Len(s) + 1})
        i == lmemfind(s, at, p)
        r == Search(s, p, at, IF Anchored(p) THEN 2 ELSE 1, Anchored(p))
    IN IF find /\ (plain \/ \A k \in 1..Len(p) : At(p, k) \notin SPECIALS)
       THEN IF i = 0 THEN <<Nil>> ELSE <<Num(i), Num(i + Len(p) - 1)>>
       ELSE IF r.ms.err THEN <<<<"error">>>>
       ELSE IF r.ms.e = 0 THEN <<Nil>>
       ELSE IF find THEN <<Num(r.s), Num(r.ms.e - 1)>> \o push_captures(r.ms, r.s, FALSE)
       ELSE push_captures(r.ms, r.s, TRUE)

(* One turn of gmatch from position at: its values and the next position.     *)
gmatch_aux(s, p, at) ==
    LET r == Search(s, p, at, 1, FALSE) IN
    IF at > Len(s) + 1 \/ Failed(r.ms) THEN [vs |-> <<>>, at |-> at]
    ELSE IF r.ms.err THEN [vs |-> <<<<"error">>>>, at |-> at]
    ELSE [vs |-> push_captures(r.ms, r.s, TRUE), at |-> IF r.ms.e = r.s THEN r.s + 1 ELSE r.ms.e]

(* The replacement string news with its %0 .. %9 replaced, as a value; a      *)
(* program ends it with no lone %.                                            *)
RECURSIVE AddFrom(_, _, _, _, _)
AddFrom(ms, news, s, i, b) ==
    LET d == uchar(At(news, i + 1))
        v == IF d = 48 THEN Str(SubSeq(ms.src, s, ms.e - 1)) ELSE push_onecapture(ms, d - 48, s)
    IN IF i > Len(news) THEN Str(b)
       ELSE IF At(news, i) # "%" THEN AddFrom(ms, news, s, i + 1, b \o At(news, i))
       ELSE IF d \notin Digit THEN AddFrom(ms, news, s, i + 2, b \o At(news, i + 1))
       ELSE IF v = <<"error">> THEN v ELSE AddFrom(ms, news, s, i + 2, b \o tostring(v)[2])
add_s(ms, news, s) == AddFrom(ms, news, s, 1, "")
=============================================================================
