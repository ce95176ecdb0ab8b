--------------------------- MODULE MCStorageProxy ---------------------------
(***************************************************************************)
(* Instances of StorageProxy for TLC.                                      *)
(***************************************************************************)
EXTENDS StorageProxy

CONSTANTS d1, p1, node

MCInode == {d1, p1, node}
MCHome  == [i \in MCInode |-> IF i = node THEN "proinfo" ELSE IF i = p1 THEN "persist" ELSE "ss"]

\* The flag sets a server has a use for.
DataFlags    == {{}, {"CREATE", "TRUNCATE"}, {"CREATE", "CREATE_EXCLUSIVE"}}
PersistFlags == {{"CREATE", "PERSISTENT_FILE"}, {"TRUNCATE", "PERSISTENT_FILE"}}
VfsFlags     == {{"CREATE", "VFS"}}
EveryRootFlags ==
  {{}, {"CREATE", "CREATE_EXCLUSIVE", "VFS"}, {"CREATE", "PERSISTENT_FILE"}, {"PROINFO_FILE"}}
=============================================================================
