--------------------------- MODULE MCTexmexPrepare --------------------------
(* Two required roles and an optional one, an archive of two pieces, the   *)
(* command lines that differ, and three choices of what may go wrong.      *)
EXTENDS TexmexPrepare

MCRequired == {"base", "groundtruth"}
MCOptional == {"learn"}
MCFlags    == {{}, {"link_v3db"}, {"check_only", "link_v3db"}, {"download", "link_v3db"}}

(* Everything but an interrupted extraction.                               *)
MCTransfer == ({"refused", "short", "timeout"} \X {"ftp", "http"})
                \cup {<<"200", "http">>, <<"other", "http">>,
                      <<"kill", "download">>, <<"kill", "between">>, <<"remove", "tree">>}

(* What reruns get over: no transfer is left unfinished at the end of a    *)
(* run, and the server of the fallback honours a Range or starts over.     *)
MCReruns == {<<"refused", "ftp">>, <<"timeout", "ftp">>, <<"other", "http">>,
             <<"kill", "between">>, <<"kill", "extract">>,
             <<"oserror", "extract">>, <<"remove", "tree">>}

(* Extractions that are cut as well as transfers; nothing is removed.      *)
MCTorn == {<<"kill", "extract">>, <<"oserror", "extract">>, <<"kill", "download">>,
           <<"kill", "between">>, <<"short", "http">>, <<"refused", "ftp">>}

MCFaults == {MCTransfer, MCReruns, MCTorn}
=============================================================================
