------------------------------ MODULE Optimise ------------------------------
(***************************************************************************)
(* libstore/optimise-store.cc: processes that replace files by hard links  *)
(* to the entry of .links for their contents, while the collector deletes  *)
(* other files and the entries that have no other link (gc.cc).  One       *)
(* system call is one step.  The file system is external.                  *)
(***************************************************************************)
EXTENDS Naturals, FiniteSets

CONSTANTS
    Optimisers,     \* processes; each one optimises the file of its name
    OtherFiles,     \* files in the store that only the collector touches
    Repairing,      \* the processes that run with RepairFlag
    NoInode

Files == Optimisers \cup OtherFiles

\* All files have the same contents; a corrupt entry of .links has the size of
\* the contents or not.
Kinds == {"good", "other size", "same size"}

ASSUME OptimiseAssumption ==
    /\ Repairing \subseteq Optimisers /\ Optimisers \cap OtherFiles = {}
    /\ NoInode \notin Files \cup {"entry"} /\ "entry" \notin Files

VARIABLES
    kind,       \* the contents of the entry of .links found at the start
    inode,      \* inode[f]: of a file, NoInode if it has been deleted
    linkPath,   \* the inode of the entry of .links, if there is one
    temp,       \* temp[p]: the inode of the .tmp-link of process p
    opc,        \* where each process is
    gpc, one    \* the collector and the link count it saw was 1

optimiseVars == <<kind, inode, linkPath, temp, opc, gpc, one>>

OptimiseInit ==
    /\ kind \in Kinds
    /\ linkPath \in {NoInode, "entry"}
    /\ \E S \in SUBSET OtherFiles :      \* already linked
          inode = [f \in Files |-> IF f \in S /\ linkPath # NoInode THEN linkPath ELSE f]
    /\ temp = [p \in Optimisers |-> NoInode]
    /\ opc = [p \in Optimisers |-> "check"]
    /\ gpc = "lstat" /\ one = FALSE

\* The contents of an inode; each file is its own inode at the start.
Contents(i) == IF i = "entry" THEN kind ELSE "good"

Nlink(i) == Cardinality({f \in Files : inode[f] = i}) + (IF linkPath = i THEN 1 ELSE 0)
            + Cardinality({p \in Optimisers : temp[p] = i})

At(p, label) == opc' = [opc EXCEPT ![p] = label]

\* Mutant of Corrupted: the size is not looked at.
CorruptedRepair(p) == p \in Repairing /\ Contents(linkPath) # "good"

\* The entry is corrupted as far as optimisePath_ looks.
Corrupted(p) ==
    \/ Contents(linkPath) = "other size"
    \/ p \in Repairing /\ Contents(linkPath) # "good"

\* exists(linkPath) and what the following lstat() finds, or its exception.
CheckEntry(p) ==
    /\ opc[p] = "check"
    /\ At(p, IF linkPath = NoInode THEN "exists" ELSE "stat")
    /\ UNCHANGED <<kind, inode, linkPath, temp, gpc, one>>

StatEntry(p) ==
    /\ opc[p] = "stat"
    /\ At(p, IF linkPath = NoInode THEN "threw" ELSE IF Corrupted(p) THEN "remove" ELSE "exists")
    /\ UNCHANGED <<kind, inode, linkPath, temp, gpc, one>>

\* remove(linkPath): by name, whatever is there by now.
RemoveEntry(p) ==
    /\ opc[p] = "remove"
    /\ linkPath' = NoInode
    /\ At(p, "exists")
    /\ UNCHANGED <<kind, inode, temp, gpc, one>>

Exists(p) ==
    /\ opc[p] = "exists"
    /\ At(p, IF linkPath = NoInode THEN "create" ELSE "compare")
    /\ UNCHANGED <<kind, inode, linkPath, temp, gpc, one>>

\* create_hard_link(path, linkPath); if the entry exists by now it is used.
CreateEntry(p) ==
    /\ opc[p] = "create"
    /\ \/ /\ linkPath' = IF linkPath = NoInode THEN inode[p] ELSE linkPath
          /\ At(p, "compare")
       \/ UNCHANGED linkPath /\ At(p, "skipped")       \* no_space_on_device
    /\ UNCHANGED <<kind, inode, temp, gpc, one>>

\* lstat(linkPath), which throws if the entry has gone, and the comparison.
Compare(p) ==
    /\ opc[p] = "compare"
    /\ At(p, IF linkPath = NoInode THEN "threw"
             ELSE IF linkPath = inode[p] THEN "linked" ELSE "temp")
    /\ UNCHANGED <<kind, inode, linkPath, temp, gpc, one>>

\* create_hard_link(linkPath, tempLink); too_many_links ends it quietly.
CreateTemp(p) ==
    /\ opc[p] = "temp"
    /\ \/ linkPath # NoInode /\ temp' = [temp EXCEPT ![p] = linkPath] /\ At(p, "rename")
       \/ linkPath = NoInode /\ UNCHANGED temp /\ At(p, "threw")
       \/ UNCHANGED temp /\ At(p, "skipped")
    /\ UNCHANGED <<kind, inode, linkPath, gpc, one>>

\* rename(tempLink, path), or its failure and remove(tempLink).
Rename(p) ==
    /\ opc[p] = "rename"
    /\ \E label \in {"linked", "skipped", "failed"} :
        /\ inode' = IF label = "linked" THEN [inode EXCEPT ![p] = temp[p]] ELSE inode
        /\ At(p, label)
    /\ temp' = [temp EXCEPT ![p] = NoInode]
    /\ UNCHANGED <<kind, linkPath, gpc, one>>

OptimiseStep(p) ==
    \/ CheckEntry(p) \/ StatEntry(p) \/ RemoveEntry(p) \/ Exists(p) \/ CreateEntry(p)
    \/ Compare(p) \/ CreateTemp(p) \/ Rename(p)

-----------------------------------------------------------------------------
(* The collector: files that are garbage, then the entries of .links         *)

DeleteFile(f) ==
    /\ gpc = "lstat" /\ inode[f] # NoInode
    /\ inode' = [inode EXCEPT ![f] = NoInode]
    /\ UNCHANGED <<kind, linkPath, temp, opc, gpc, one>>

\* lstat() of the entry that readdir() returned.
LinkCount ==
    /\ gpc = "lstat" /\ linkPath # NoInode
    /\ one' = (Nlink(linkPath) = 1)
    /\ gpc' = "unlink"
    /\ UNCHANGED <<kind, inode, linkPath, temp, opc>>

\* unlink() of an entry that had no other link; it may have one by now.
UnlinkEntry ==
    /\ gpc = "unlink"
    /\ linkPath' = IF one THEN NoInode ELSE linkPath
    /\ gpc' = IF one /\ linkPath = NoInode THEN "threw" ELSE "done"
    /\ UNCHANGED <<kind, inode, temp, opc, one>>

OptimiseNext ==
    \/ \E p \in Optimisers : OptimiseStep(p)
    \/ LinkCount \/ UnlinkEntry \/ \E f \in OtherFiles : DeleteFile(f)

OptimiseSpec == OptimiseInit /\ [][OptimiseNext]_optimiseVars

-----------------------------------------------------------------------------
\* Optimisation changes no file that it works on: its contents are what they
\* were, at every moment, however the entry of .links is removed and made again
\* meanwhile; unless the entry was corrupt in a way only --repair looks for.
ContentsKept ==
    \A p \in Optimisers :
        /\ inode[p] # NoInode
        /\ kind # "same size" \/ p \in Repairing => Contents(inode[p]) = "good"

=============================================================================
