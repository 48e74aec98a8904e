----------------------------- MODULE JsonProper -----------------------------
(***************************************************************************)
(* The texts that the JSON codec can read back: what json.hpp expects of   *)
(* keys, of the contents of strings, of words and of layouts.  JsonCodec   *)
(* itself takes any; where these are not met it goes wrong (see the runs   *)
(* json_backslash and json_empty_key).                                     *)
(***************************************************************************)
EXTENDS JsonCodec

CONSTANT
  Symbols   \* what texts and contents are made of

ASSUME SymbolsAssumption ==
  {Quote, Escape, " ", "\t", "\n", "\r", "\f", "BS", ",", ":", "{", "}", "[", "]",
   "t", "n", "r", "f", "b", "u"} \subseteq Symbols

\* A comment of t between the offsets p and n, as skip_comment finds its end.
Comment(t, p, n) ==
  /\ t[p + 1] = "/"
  /\ \/ /\ n >= p + 3
        /\ t[p + 2] = "/"
        /\ t[n] \in {"\n", "\r"}
        /\ \A k \in p + 3 .. n - 1 : t[k] \notin {"\n", "\r"}
     \/ /\ n >= p + 4
        /\ t[p + 2] = "*"
        /\ t[n - 1] = "*" /\ t[n] = "/"
        /\ \A k \in p + 4 .. n - 1 : ~ (t[k - 1] = "*" /\ t[k] = "/")

\* One turn of the loop of skip_whitespace.
SkipsTo(t, p, n) ==
  \/ n = p + 1 /\ t[n] \in Whitespace
  \/ Comment(t, p, n)

\* Whitespace and whole comments: the offsets at which the loop comes by are
\* in C.
Fills(t, a, b) ==
  \E C \in SUBSET (a .. b) :
    /\ {a, b} \subseteq C
    /\ \A p \in C \ {b} : \E n \in C : n > p /\ SkipsTo(t, p, n)

\* No backslash of s is at the end, or would be but for these symbols: what
\* comes next is the closing quote, which the loops take for an escaped one.
\* json.hpp:111 does not see that a backslash may be escaped itself, and
\* json.hpp:319-326 do not forget it over whitespace.
EndsPlain(s, symbols) ==
  \A k \in DOMAIN s :
    s[k] = Escape => \E j \in k + 1 .. Len(s) : s[j] \notin symbols

\* Keys are written as they are and read up to the first quote, and one that
\* is empty is not written at all.
ASSUME NamesAssumption ==
  \A n \in Names :
    /\ n \in Seq(Symbols) /\ n # <<>>
    /\ \A k \in DOMAIN n : n[k] # Quote
    /\ EndsPlain(n, Whitespace)

\* Of the whitespace only spaces and commas are not escaped.
ASSUME StringsAssumption ==
  \A s \in Strings : s \in Seq(Symbols) /\ EndsPlain(s, Whitespace \ DOMAIN EscapeOf)

\* Words end at whitespace, at a brace or at a comment, and is_null looks at
\* nothing but their beginning.
ASSUME WordsAssumption ==
  \A w \in Words :
    /\ w \in Seq(Symbols) /\ w # <<>>
    /\ \A k \in DOMAIN w :
         w[k] \notin Whitespace \union {"{", "}", "[", "]", "/", Quote}
    /\ w[1] = "null" => w = <<"null">>

\* Layouts put nothing between tokens but whitespace and comments.
ASSUME StylesAssumption ==
  \A s \in Styles :
    /\ s \in [gap : Seq(Symbols), trailing : BOOLEAN, pretty : BOOLEAN]
    /\ Fills(s.gap, 0, Len(s.gap))
=============================================================================
