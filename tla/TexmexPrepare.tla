--------------------------- MODULE TexmexPrepare ----------------------------
(***************************************************************************)
(* scripts/prepare_texmex_datasets.py for one dataset: fetch the archive   *)
(* (FTP first, HTTP with a Range request as the fallback), extract it,     *)
(* give the canonical files a name at the dataset root, and link the       *)
(* directory under the name V3DB expects.  Nothing is remembered between   *)
(* two runs but the files.                                                 *)
(*                                                                         *)
(* Abstractions: an archive is the sequence of the numbered pieces of the  *)
(* file on the server it was put together from, so it is sound iff it is   *)
(* Body.  The tarball has the files in a directory of its own.  tarfile    *)
(* reads an archive to its end before it extracts (getmembers); it raises  *)
(* EOFError on a truncated one and zlib.error or ReadError on a garbled    *)
(* one, of which extract_tarball's caller only catches ReadError.          *)
(***************************************************************************)
EXTENDS Naturals, Sequences

CONSTANTS Required, Optional, \* roles of the files of the dataset
          Pieces,             \* number of pieces the archive is sent in
          CommandLines,       \* sets of flags
          FaultChoices,       \* what may go wrong: sets of <<kind, where>>
          MaxFaults           \* bound on how often it does

ASSUME TexmexAssumption ==
  /\ Required # {} /\ Required \cap Optional = {}
  /\ Pieces \in Nat \ {0} /\ MaxFaults \in Nat
  /\ CommandLines \subseteq SUBSET {"download", "link_v3db", "check_only"}

Roles == Required \cup Optional
Body  == [i \in 1 .. Pieces |-> i]

VARIABLES
  archive, \* the pieces in the archive file; <<>>: no or an empty file
  tree,    \* role |-> its extracted file: "none", "partial", "whole"
  root,    \* role |-> its name at the dataset root: "none", "link", "regular"
  link,    \* data/sift: "none", "right", "wrong" or "dir" (not a link)
  flags, phase,
  source,  \* where the archive is fetched from: "ftp", then "http"
  piece,   \* the piece the server sends next
  todo,    \* members of the archive that are not extracted yet
  open,    \* the one being written, if any
  risks    \* what may go wrong here, and how often it still may

dataset     == <<archive, tree, root, link>>
prepareVars == <<dataset, flags, phase, source, piece, todo, open, risks>>

PrepareInit ==
  /\ archive = <<>>
  /\ tree = [r \in Roles |-> "none"]
  /\ root \in [Roles -> {"none", "regular"}]
  /\ link \in {"none", "wrong", "dir"}
  /\ flags = {} /\ phase = "down" /\ source = "ftp" /\ piece = 1
  /\ todo = {} /\ open = {}
  /\ risks \in [kinds : FaultChoices, left : {MaxFaults}]

Happens(kind, where) ==
  <<kind, where>> \in risks.kinds /\ risks.left > 0 /\ risks' = [risks EXCEPT !.left = @ - 1]

(***************************************************************************)
(* What a run finds: the names at the root, and the status.                *)
(***************************************************************************)
Exists(r) == root[r] = "regular" \/ (root[r] = "link" /\ tree[r] # "none")

Status == IF \A r \in Required : Exists(r) THEN "ready"
          ELSE IF \E r \in Required : Exists(r) THEN "partial" ELSE "missing"

(* _ensure_root_symlink: link to what is extracted, keep a regular file.   *)
Normalised(r) ==
  IF root[r] = "regular" \/ tree[r] = "none" THEN root[r] ELSE "link"

StartPrepare(f) ==
  /\ phase \in {"down", "done"}
  /\ flags' = (IF f = {} THEN {"check_only"} ELSE f) /\ phase' = "normalise"
  /\ UNCHANGED <<dataset, source, piece, todo, open, risks>>

Normalise ==
  /\ phase \in {"normalise", "extracted"}
  /\ root' = [r \in Roles |-> Normalised(r)]
  /\ phase' = IF phase = "normalise" /\ "download" \in flags THEN "decide" ELSE "link"
  /\ UNCHANGED <<archive, tree, link, flags, source, piece, todo, open, risks>>

(* Mutant: --download extracts again what is there already.                *)
Decide_Always ==
  /\ phase = "decide"
  /\ phase' = IF archive # <<>> THEN "extract" ELSE "connect"
  /\ source' = "ftp"
  /\ UNCHANGED <<dataset, flags, piece, todo, open, risks>>

(* Mutant: only a missing dataset is downloaded, not a partial one.        *)
Decide_Missing ==
  /\ phase = "decide"
  /\ phase' = IF Status # "missing" THEN "link"
           ELSE IF archive # <<>> THEN "extract" ELSE "connect"
  /\ source' = "ftp"
  /\ UNCHANGED <<dataset, flags, piece, todo, open, risks>>

(* download_dataset takes whatever is in the archive file for the archive. *)
Decide ==
  /\ phase = "decide"
  /\ phase' = IF Status = "ready" THEN "link"
           ELSE IF archive # <<>> THEN "extract" ELSE "connect"
  /\ source' = "ftp"
  /\ UNCHANGED <<dataset, flags, piece, todo, open, risks>>

(***************************************************************************)
(* download_streaming: a full fetch from FTP, and for HTTP a request for   *)
(* what the file does not hold yet.                                        *)
(***************************************************************************)
NextSource ==
  IF source = "ftp" THEN source' = "http" /\ phase' = "connect"
                    ELSE source' = source /\ phase' = "link"

Resuming == source = "http" /\ archive # <<>>

Connect ==
  /\ phase = "connect"
  /\ ~(Resuming /\ Len(archive) >= Pieces)
  /\ IF Resuming THEN piece' = Len(archive) + 1 /\ UNCHANGED archive \* 206
                 ELSE piece' = 1 /\ archive' = <<>>                  \* mode "wb"
  /\ phase' = "receive"
  /\ UNCHANGED <<tree, root, link, flags, source, todo, open, risks>>

(* The server ignores the Range header (200): mode is still "ab".          *)
ConnectWhole ==
  /\ phase = "connect" /\ Resuming /\ Happens("200", "http")
  /\ piece' = 1 /\ phase' = "receive"
  /\ UNCHANGED <<dataset, flags, source, todo, open>>

(* Some other reply without an error: unlink and ask for all of it, which  *)
(* may be refused in turn.                                                 *)
ConnectAgain ==
  /\ phase = "connect" /\ Resuming /\ Happens("other", "http")
  /\ archive' = <<>>
  /\ \/ piece' = 1 /\ phase' = "receive" /\ UNCHANGED source
     \/ NextSource /\ UNCHANGED piece
  /\ UNCHANGED <<tree, root, link, flags, todo, open>>

(* URLError: not reachable, or (416) nothing left behind the range.        *)
Refused ==
  /\ phase = "connect"
  /\ \/ Happens("refused", source)
     \/ Resuming /\ Len(archive) >= Pieces /\ UNCHANGED risks
  /\ NextSource /\ UNCHANGED <<dataset, flags, piece, todo, open>>

Receive ==
  /\ phase = "receive" /\ piece <= Pieces
  /\ archive' = Append(archive, piece) /\ piece' = piece + 1
  /\ UNCHANGED <<tree, root, link, flags, phase, source, todo, open, risks>>

(* The body ends, or the connection is closed early, which read hides.     *)
EndOfBody ==
  /\ phase = "receive"
  /\ \/ piece > Pieces /\ UNCHANGED risks
     \/ piece <= Pieces /\ Happens("short", source)
  /\ phase' = "extract"
  /\ UNCHANGED <<dataset, flags, source, piece, todo, open>>

Timeout ==
  /\ phase = "receive" /\ Happens("timeout", source)
  /\ NextSource /\ UNCHANGED <<dataset, flags, piece, todo, open>>

(***************************************************************************)
(* extract_tarball.                                                        *)
(***************************************************************************)

(* Mutant: the archive is read as a stream ("r|*"), member by member, so   *)
(* that what stands before a cut is extracted.                             *)
ReadableArchive_Stream == archive # <<>>

ReadableArchive == archive = Body

Extract ==
  /\ phase = "extract" /\ ReadableArchive
  /\ todo' = Roles /\ open' = {} /\ phase' = "members"
  /\ UNCHANGED <<dataset, flags, source, piece, risks>>

Truncated == \E n \in 1 .. Pieces - 1 : archive = SubSeq(Body, 1, n)

(* EOFError (truncated) or zlib.error (garbled) ends the process; TarError *)
(* (garbled or empty) is caught.                                           *)
Unreadable ==
  /\ phase = "extract" /\ ~ReadableArchive
  /\ \/ archive # <<>> /\ phase' = "down"
     \/ ~Truncated /\ phase' = "link"
  /\ UNCHANGED <<dataset, flags, source, piece, todo, open, risks>>

OpenMember(r) ==
  /\ phase = "members" /\ open = {} /\ r \in todo
  /\ open' = {r} /\ tree' = [tree EXCEPT ![r] = "partial"]
  /\ UNCHANGED <<archive, root, link, flags, phase, source, piece, todo, risks>>

(* The member is complete if the archive is.                               *)
CloseMember ==
  /\ phase = "members" /\ open # {}
  /\ tree' = [r \in Roles |-> IF r \in open /\ archive = Body THEN "whole" ELSE tree[r]]
  /\ todo' = todo \ open /\ open' = {}
  /\ phase' = IF todo' = {} THEN "extracted" ELSE phase
  /\ UNCHANGED <<archive, root, link, flags, source, piece, risks>>

(* OSError, a full disk say: caught, the member stays as it is.            *)
ExtractFails ==
  /\ phase = "members" /\ open # {} /\ Happens("oserror", "extract")
  /\ open' = {} /\ phase' = "link"
  /\ UNCHANGED <<dataset, flags, source, piece, todo>>

(***************************************************************************)
(* link_v3db_compat, after the status has been taken again, and the end.   *)
(***************************************************************************)

Finish ==
  /\ phase = "link"
  /\ link' = IF "link_v3db" \in flags /\ Status = "ready" /\ link # "dir"
             THEN "right" ELSE link
  /\ phase' = "done"
  /\ UNCHANGED <<archive, tree, root, flags, source, piece, todo, open, risks>>

(* The process is killed, or dies of an exception nobody catches.          *)
Where == CASE phase = "receive" \/ (phase = "connect" /\ archive # <<>>) -> "download"
           [] phase = "members" -> "extract"
           [] OTHER          -> "between"

KillPrepare ==
  /\ phase \notin {"down", "done"} /\ Happens("kill", Where)
  /\ phase' = "down" /\ open' = {}
  /\ UNCHANGED <<dataset, flags, source, piece, todo>>

(* Between two runs somebody removes the extracted directory.              *)
RemoveTree ==
  /\ phase = "done" /\ Happens("remove", "tree")
  /\ tree' = [r \in Roles |-> "none"]
  /\ UNCHANGED <<archive, root, link, flags, phase, source, piece, todo, open>>

PrepareStep ==
  \/ Normalise \/ Decide \/ Connect \/ Receive \/ EndOfBody
  \/ Extract \/ Unreadable \/ CloseMember \/ Finish
  \/ \E r \in Roles : OpenMember(r)

Fault ==
  \/ Refused \/ ConnectWhole \/ ConnectAgain \/ Timeout
  \/ ExtractFails \/ KillPrepare \/ RemoveTree

StartAnyPrepare == \E f \in CommandLines : StartPrepare(f)

PrepareNext == StartAnyPrepare \/ PrepareStep \/ Fault

PrepareSpec == PrepareInit /\ [][PrepareNext]_prepareVars

(* The script is sequential and runs until it ends; somebody who wants the *)
(* dataset starts it again with --download whenever it has ended.          *)
PrepareFairness ==
  /\ WF_prepareVars(PrepareStep \/ Refused)
  /\ \A f \in CommandLines : "download" \in f => SF_prepareVars(StartPrepare(f))

PrepareFairSpec == PrepareSpec /\ PrepareFairness

(***************************************************************************)
(* Properties.                                                             *)
(***************************************************************************)

(* Faults that leave a transfer unfinished at the end of a run, or let the *)
(* server of the fallback ignore a Range; and those that leave a member of *)
(* the archive extracted in part.                                          *)
UnfinishedTransfers ==
  {<<"kill", "download">>, <<"200", "http">>, <<"short", "ftp">>, <<"short", "http">>,
   <<"refused", "http">>, <<"timeout", "http">>}
TornExtractions == {<<"kill", "extract">>, <<"oserror", "extract">>}

(* Whatever happens to the download, a dataset is reported ready (lines    *)
(* 236-243) only when every required file is there with all its bytes.     *)
ReadyMeansWhole ==
  phase = "done" /\ Status = "ready" /\ risks.kinds \cap TornExtractions = {} =>
    \A r \in Required : root[r] = "regular" \/ tree[r] = "whole"

(* A dataset that a run has left whole stays whole behind every later run, *)
(* whatever its flags and wherever it is killed or its disk is full, until *)
(* somebody removes the files: nothing is fetched or extracted over it     *)
(* (prepare_one 425), also where some of its files are the user's own and  *)
(* were never in the archive (165).                                        *)
WholeThere ==
  \A r \in Required : root[r] = "regular" \/ (root[r] = "link" /\ tree[r] = "whole")

StaysWhole ==
  [](phase = "done" /\ WholeThere /\ <<"remove", "tree">> \notin risks.kinds
       => []WholeThere)

(* Only an archive that was received from its first byte to its last is    *)
(* extracted (download_streaming 258-294 and its resuming).                *)
OnlyWholeExtracted ==
  phase = "extract" /\ risks.kinds \cap UnfinishedTransfers = {} => archive = Body

(* No byte is missing, doubled or out of place: neither in an archive that *)
(* is extracted nor in a dataset that is reported.                         *)
BytesAreWhole == ReadyMeansWhole /\ OnlyWholeExtracted

(* Rerun with --download, the script gets the dataset ready in the end,    *)
(* also after it was interrupted, if no transfer was left unfinished.      *)
GetsReady ==
  []<>(risks.kinds \cap UnfinishedTransfers = {} => Status = "ready")
=============================================================================
