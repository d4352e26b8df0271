----------------------------- MODULE MCMetadata -----------------------------
(* Instances of Metadata for TLC. *)
EXTENDS Metadata, TLC

CONSTANTS p1, p2, mine, other

\* 0644, 04755, 0, and mknod()'s S_IFCHR|0400.
MCModes  == {{8, 7, 5, 2}, {11, 8, 7, 6, 5, 3, 2, 0}, {}, {13, 8}}
MCModes2 == {{11, 8, 7, 6}, {8}}

\* 0222, which masks the user's own write permission, and 01007, whose four
\* digits __setumask() has no room for.  The mask is 022 at the start.
MCMasks  == {{7, 4, 1}, {9, 2, 1, 0}}
MCMasks2 == {{4, 1}, {8, 7}}

MCIds == {-1, 1}

\* A host's file the user may read, created by root, with an owner on record.
MCForeign ==
    other :> [st_mode |-> {15, 8, 7, 5, 2}, uid |-> 0, xmode |-> NoMode,
              xown |-> [uid |-> 1, gid |-> NoId]]

MCNoForeign == <<>>

MCSymmetry == Permutations({p1, p2})
=============================================================================
