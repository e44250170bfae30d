--------------------------- MODULE MCCtagsSession ---------------------------
(* Answers of every shape the session distinguishes: tags of a known        *)
(* parser, an unrecognised blob, a rejected one, one whose records are      *)
(* malformed, one that leaves a pseudo-tag without its parser.              *)
EXTENDS CtagsSession

McAnswers == {
    <<"version", "kind", "parser", "tag", "completed">>,
    <<"version", "completed">>,
    <<"version", "error", "tag", "notice", "completed">>,
    <<"version", "tag", "bad", "completed">>,
    <<"version", "kind", "completed">>}
=============================================================================
