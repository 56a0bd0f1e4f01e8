------------------------------ MODULE SyckJson ------------------------------
(***************************************************************************)
(* The two text passes between JSON and the YAML core (perl_syck.h):       *)
(* perl_json_preprocess before a load puts a blank after each colon and    *)
(* comma, perl_json_postprocess after a dump takes it away again.  Both    *)
(* must know which characters are inside a string; a backslash and the     *)
(* character after it are one step of either pass.                         *)
(***************************************************************************)
EXTENDS SyckText

\* The output for s from position i on, inside a string opened by `open'
\* (NUL outside); quote is json_quote_char.
RECURSIVE PreprocessFrom(_, _, _, _)
PreprocessFrom(s, quote, i, open) ==
    LET c     == At(s, i)
        delim == IF c = "'" /\ quote = "'" THEN "\"" ELSE c
    IN  IF i > Len(s) THEN ""
        ELSE IF c = "\\" THEN
            (IF At(s, i + 1) # "'" THEN c \o At(s, i + 1)
             ELSE IF quote = "'" THEN "'" ELSE "''")
              \o PreprocessFrom(s, quote, i + 2, open)
        ELSE IF open = NUL THEN
            (IF c \in {":", ","} THEN c \o " " ELSE delim)
              \o PreprocessFrom(s, quote, i + 1, IF c \in {"'", "\""} THEN c ELSE NUL)
        ELSE IF c = open THEN delim \o PreprocessFrom(s, quote, i + 1, NUL)
        ELSE (IF c = "\"" /\ quote = "'" THEN "\\\"" ELSE c) \o PreprocessFrom(s, quote, i + 1, open)
Preprocess(s, quote) == PreprocessFrom(s, quote, 1, NUL)

RECURSIVE PostprocessFrom(_, _, _, _)
PostprocessFrom(s, quote, i, inString) ==
    LET c == At(s, i)
    IN  IF i > Len(s) THEN ""
        ELSE IF c = "\\" THEN c \o At(s, i + 1) \o PostprocessFrom(s, quote, i + 2, inString)
        ELSE IF c = quote THEN c \o PostprocessFrom(s, quote, i + 1, ~inString)
        ELSE IF c \in {":", ","} /\ ~inString THEN c \o PostprocessFrom(s, quote, i + 2, inString)
        ELSE c \o PostprocessFrom(s, quote, i + 1, inString)

\* A root scalar that came out between double quotes gets the other ones, and
\* the newline syck_emit ends a document with goes.
Postprocess(s, quote) ==
    LET wrapped == quote = "'" /\ Len(s) > 1 /\ At(s, 1) = "\"" /\ At(s, Len(s) - 1) = "\""
        t       == IF wrapped THEN "'" \o SubSeq(s, 2, Len(s) - 2) \o "'" \o At(s, Len(s)) ELSE s
        out     == PostprocessFrom(t, quote, 1, FALSE)
    IN  IF out = "" THEN "" ELSE SubSeq(out, 1, Len(out) - 1)
=============================================================================
