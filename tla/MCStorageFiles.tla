--------------------------- MODULE MCStorageFiles ---------------------------
(***************************************************************************)
(* FileStorage for TLC: three calls, of which only the first saves files.  *)
(***************************************************************************)
EXTENDS FileStorage

MCFileCall == 1..3

MCFileNext ==
    /\ FileNext
    /\ \A c \in FileCall : ~Saving(c)' \/ c = 1
    /\ \A c, d \in FileCall : c < d /\ fileStep'[d] # "none" => fileStep'[c] # "none"

MCFileSpec == FileInit /\ [][MCFileNext]_fileVars /\ FileFairness
=============================================================================
