-------------------------- MODULE MCJsonObfuscator --------------------------
(* Lexemes; q is the double quote. *)
EXTENDS JsonObfuscator

MCIncomplete == {"cut string", "cut word", "cut number", "bad escape", "bad control"}
MCExotic == {"0", "-0.1e+2", "1.20e1", "escapes", "true", "false", "null", "space"} \union MCIncomplete
Common == {"{", "}", "[", "]", ":", ",", "kept key", "string", "12"}

MCLexemes ==
    [name \in Common \union MCExotic |->
        CASE name = "space" -> <<" ">>
          [] name = "kept key" -> <<"q", "k", "q">>
          [] name = "string" -> <<"q", "x", "q">>
          [] name = "12" -> <<"1", "2">>
          [] name = "0" -> <<"0">>
          [] name = "-0.1e+2" -> <<"-", "0", ".", "1", "e", "+", "2">>
          [] name = "1.20e1" -> <<"1", ".", "2", "0", "e", "1">>
          [] name = "escapes" -> <<"q", "\\", "u", "0", "a", "f", "1", "\\", "n", "q">>
          [] name = "true" -> <<"t", "r", "u", "e">>
          [] name = "false" -> <<"f", "a", "l", "s", "e">>
          [] name = "null" -> <<"n", "u", "l", "l">>
          [] name = "cut string" -> <<"q", "x">>
          [] name = "cut word" -> <<"t", "r">>
          [] name = "cut number" -> <<"1", ".">>
          [] name = "bad escape" -> <<"q", "\\", "u", "0", "x">>
          [] name = "bad control" -> <<"q", "~">>
          [] OTHER -> <<name>>]
MCKeepers == {<<"k">>}

\* What opens or fills weighs 1 and what closes or separates weighs nothing; a word
\* and a space weigh 2, and the other forms of literals, which leave the scanner in
\* the same states, more.
MCWeight ==
    [name \in DOMAIN MCLexemes |->
        CASE name \in {"}", "]", ":", ","} -> 0
          [] name \in {"{", "[", "kept key", "string", "12"} -> 1
          [] name \in {"true", "space"} -> 2
          [] OTHER -> 4]
=============================================================================
