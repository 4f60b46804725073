----------------------------- MODULE MCLogFile -----------------------------
(***************************************************************************)
(* Small instances of LogFile: two threads, and lines that leave room in   *)
(* the buffer, nearly fill it, and are longer than all of it.  No two      *)
(* lines share a byte but the newline, so that a torn or misplaced line    *)
(* shows.                                                                  *)
(***************************************************************************)
EXTENDS FaultyLogFile

MCBytes == {"a", "b", "d", "e", "f", "g", "newline"}

\* With BUF_SIZE = 4: two lines that fit together only once, and one that
\* never fits.
MCLines == {<<"a">>, <<"b", "newline">>, <<"d", "e", "f", "g", "newline">>}
=============================================================================
